----------------------------- MODULE LongTermScan -----------------------------
(***************************************************************************)
(* The search for long-term candidates (auto_trader/services/research.py) and  *)
(* the tables it keeps (auto_trader/long_term_repository.py).  A button and a  *)
(* daily worker start the same scan, which one lock keeps single and one        *)
(* status announces; the daily worker first renews the analyses of the         *)
(* companies somebody watches.  A company's page renews its analysis, too.      *)
(***************************************************************************)
EXTENDS Integers, FiniteSets, FiniteSetsExt

CONSTANTS
  Companies,
  MaxCount,    \* companies a scan recommends at most, 10 in the code
  Attempts,    \* how often a company is asked for while the broker is busy, 3 in the code
  MaxScans,    \* bound: runs of the scan
  MaxRefusals  \* bound: failed calls of all kinds

ASSUME ScanAssumption ==
  /\ MaxCount \in Nat \ {0} /\ Attempts \in Nat \ {0}
  /\ MaxScans \in Nat /\ MaxRefusals \in Nat

VARIABLES
  status,     \* what the page shows of the scan
  runner,     \* the two tasks that may scan
  holder,     \* the task that has the lock
  analyses,   \* table: the last verdict on each company
  listed,     \* table: the recommended companies
  watching,   \* table: companies somebody watches
  asked,      \* history: scans begun when the button was last accepted
  begun,      \* history: scans begun
  refusals

scanTables == <<analyses, listed, watching>>
scanVars == <<status, runner, holder, scanTables, asked, begun, refusals>>

Runners == {"button", "daily"}
NoOne == "no one"
NeverAsked == -1
NotYet == "unknown"
Verdicts == {"good", "bad"}

IdleStatus == [running |-> FALSE, phase |-> "idle", failed |-> 0]
Resting == [stage |-> "idle", todo |-> {}, skip |-> {}, tries |-> 0, good |-> {}, verdict |-> NotYet]

ScanInit ==
  /\ status = IdleStatus /\ runner = [r \in Runners |-> Resting] /\ holder = NoOne
  /\ analyses = [c \in Companies |-> NotYet] /\ listed = {}
  /\ watching \in {{}} \cup {{c} : c \in Companies}
  /\ asked = NeverAsked /\ begun = 0 /\ refusals = 0

-----------------------------------------------------------------------------

Becomes(r, task) == runner' = [runner EXCEPT ![r] = task]
Refuses == refusals < MaxRefusals /\ refusals' = refusals + 1

\* Variant: the button looks at the last phase, not at the lock and the flag.
AcceptsByPhase == status.phase \in {"idle", "complete", "partial", "failed", "waiting"}

Accepts == ~status.running /\ holder = NoOne

\* The button: accepted when nothing runs; the scan is a task of its own, that
\* starts later.
Press ==
  /\ Accepts /\ begun < MaxScans
  /\ status' = [running |-> TRUE, phase |-> "running", failed |-> 0]
  /\ Becomes("button", [Resting EXCEPT !.stage = "new"])
  /\ asked' = begun
  /\ UNCHANGED <<holder, scanTables, begun, refusals>>

\* The daily time has come: the watched companies are read first.
Wake ==
  /\ runner["daily"].stage = "idle" /\ begun < MaxScans
  /\ \/ Becomes("daily", [Resting EXCEPT !.stage = "renew", !.todo = watching]) /\ UNCHANGED refusals
     \/ Becomes("daily", [Resting EXCEPT !.stage = "new"]) /\ Refuses
  /\ UNCHANGED <<status, holder, scanTables, asked, begun>>

\* A task that finds a scan under way leaves it to that one.
Start(r) ==
  /\ runner[r].stage = "new" \/ (runner[r].stage = "renew" /\ runner[r].todo = {})
  /\ IF holder # NoOne
     THEN Becomes(r, Resting) /\ UNCHANGED <<status, holder, begun>>
     ELSE /\ Becomes(r, [Resting EXCEPT !.stage = "page"]) /\ holder' = r
          /\ status' = [running |-> TRUE, phase |-> "running", failed |-> 0]
          /\ begun' = begun + 1
  /\ UNCHANGED <<scanTables, asked, refusals>>

\* The end of a scan: announced, and the lock given back.
Leave(r, phase) ==
  /\ Becomes(r, Resting) /\ holder' = NoOne
  /\ status' = [status EXCEPT !.running = FALSE, !.phase = phase]

\* Any call may fail in a way that ends the scan.
Fail(r) ==
  /\ holder = r /\ Refuses /\ Leave(r, "failed")
  /\ UNCHANGED <<scanTables, asked, begun>>

\* The broker's page of popular companies, then who is watched at this moment.
ReadPage(r) ==
  /\ runner[r].stage = "page"
  /\ Becomes(r, [runner[r] EXCEPT !.stage = "watched", !.todo = Companies])
  /\ UNCHANGED <<status, holder, scanTables, asked, begun, refusals>>

ReadWatched(r) ==
  /\ runner[r].stage = "watched"
  /\ Becomes(r, [runner[r] EXCEPT !.stage = "company", !.todo = @ \ watching, !.skip = watching])
  /\ UNCHANGED <<status, holder, scanTables, asked, begun, refusals>>

\* Companies are taken one after the other, in a fixed order.
Current(r) == CHOOSE c \in runner[r].todo : TRUE
Looking(r) == runner[r].stage \in {"renew", "company"} /\ runner[r].todo # {}
Passed(r) == [runner[r] EXCEPT !.todo = @ \ {Current(r)}, !.tries = 0, !.verdict = NotYet]

Fetch(r) ==
  /\ Looking(r) /\ runner[r].verdict = NotYet
  /\ \E v \in Verdicts : Becomes(r, [runner[r] EXCEPT !.verdict = v])
  /\ UNCHANGED <<status, holder, scanTables, asked, begun, refusals>>

\* Busy: the same company again after a pause, a few times; else it has failed
\* and the next one's turn comes.  The daily renewal passes over a failed write,
\* too, which ends a scan.
Refused(r) ==
  /\ Looking(r) /\ Refuses
  /\ \/ /\ runner[r].verdict = NotYet /\ runner[r].tries < Attempts - 1
        /\ Becomes(r, [runner[r] EXCEPT !.tries = @ + 1])
        /\ status' = IF holder = r THEN [status EXCEPT !.phase = "waiting"] ELSE status
     \/ /\ runner[r].verdict = NotYet \/ runner[r].stage = "renew"
        /\ Becomes(r, Passed(r))
        /\ status' = IF holder = r THEN [status EXCEPT !.failed = @ + 1, !.phase = "running"] ELSE status
  /\ UNCHANGED <<holder, scanTables, asked, begun>>

\* The analysis is saved whatever an other task saved meanwhile.
Save(r) ==
  /\ Looking(r) /\ runner[r].verdict # NotYet
  /\ analyses' = [analyses EXCEPT ![Current(r)] = runner[r].verdict]
  /\ Becomes(r, [Passed(r) EXCEPT !.good =
       IF runner[r].verdict = "good" THEN @ \cup {Current(r)} ELSE @])
  /\ status' = IF holder = r THEN [status EXCEPT !.phase = "running"] ELSE status
  /\ UNCHANGED <<holder, listed, watching, asked, begun, refusals>>

Replace(best) == listed' = best

\* All are looked at: the best replace the list; without any it stays.
Finish(r) ==
  /\ runner[r].stage = "company" /\ runner[r].todo = {}
  /\ IF runner[r].good = {} THEN UNCHANGED listed
     ELSE \E best \in kSubset(Min({MaxCount, Cardinality(runner[r].good)}), runner[r].good) :
            Replace(best)
  /\ Leave(r, IF status.failed > 0 THEN "partial" ELSE "complete")
  /\ UNCHANGED <<analyses, watching, asked, begun, refusals>>

\* The user's pages: a watched company more or less.
Watch(c) ==
  /\ watching' = (watching \ {c}) \cup ({c} \ watching)
  /\ UNCHANGED <<status, runner, holder, analyses, listed, asked, begun, refusals>>

\* The page of a company renews its analysis.
Visit(c) ==
  /\ \E v \in Verdicts \ {analyses[c]} : analyses' = [analyses EXCEPT ![c] = v]
  /\ UNCHANGED <<status, runner, holder, listed, watching, asked, begun, refusals>>

\* The application ends and starts again; only the tables stay.
Restart ==
  /\ Refuses /\ status' = IdleStatus /\ runner' = [r \in Runners |-> Resting] /\ holder' = NoOne
  /\ asked' = NeverAsked
  /\ UNCHANGED <<scanTables, begun>>

\* The loop takes a task just created before any answer that a running scan
\* begins to wait for later.
Turn(r) == holder = r => runner["button"].stage # "new"

ScanStep(r) ==
  \/ Start(r)
  \/ /\ Turn(r)
     /\ \/ Fail(r) \/ ReadPage(r) \/ ReadWatched(r)
        \/ Fetch(r) \/ Refused(r) \/ Save(r) \/ Finish(r)

ScanNext ==
  \/ Press \/ Wake \/ Restart
  \/ \E r \in Runners : ScanStep(r)
  \/ \E c \in Companies : Watch(c) \/ Visit(c)

ScanSpec == ScanInit /\ [][ScanNext]_scanVars

-----------------------------------------------------------------------------

(* The button is honest: once the task of an accepted request is over, a scan *)
(* has begun after the request, be it that of the daily worker; and the page   *)
(* says that a scan runs only while one does or is about to, so that the       *)
(* button works again after every way a scan can end (research.py:35-131,     *)
(* api/research.py:32-48).                                                  *)
RequestsAreServed ==
  /\ asked # NeverAsked /\ runner["button"].stage = "idle" => begun > asked
  /\ status.running <=> holder # NoOne \/ runner["button"].stage = "new"
===============================================================================
