----------------------------- MODULE QualityReport -----------------------------
(***************************************************************************)
(* The daily report on the collected minute bars of one series               *)
(* (auto_trader/ml/quality_report.py).  It is made as of a moment, from the   *)
(* bars that were stored and from what the rechecks of the day found out      *)
(* about the broker: a bar that is missing may be missing at the broker, or   *)
(* only here, or nobody can say.  Rechecks go on after the first report, and  *)
(* the report can be made again.                                             *)
(***************************************************************************)
EXTENDS Integers, FiniteSets, Sequences, SequencesExt

CONSTANTS
  BarCount,  \* bars of the session, 391 in the code; bar i is complete at minute i
  LastClock, \* bound on the clock, past the end of the session
  MaxRechecks, MaxReports

ASSUME QualityAssumption ==
  /\ BarCount \in Nat \ {0} /\ LastClock \in Nat /\ LastClock > BarCount
  /\ MaxRechecks \in Nat /\ MaxReports \in Nat

VARIABLES
  minute,    \* of the day
  offered,   \* the bars the broker has published
  stored,    \* when each stored bar was received
  rechecks,  \* what the rechecks found, in the order of their runs
  draft,     \* the report that is being made: when, and what was read of the bars
  report,    \* the report of the day in the database, and whether it is there
  made       \* reports so far

qualityVars == <<minute, offered, stored, rechecks, draft, report, made>>

SessionBars == 1..BarCount
ExpectedBars(asOf) == IF asOf < BarCount THEN asOf ELSE BarCount

NoDraft == [asOf |-> -1, missing |-> {}, late |-> FALSE]
NoReport == [asOf |-> -1, basis |-> <<>>, missing |-> {}, absent |-> {}, gap |-> {},
             unverified |-> {}, confirmed |-> FALSE, completeness |-> "NONE", health |-> "NONE"]

QualityInit ==
  /\ minute = 0 /\ offered = {} /\ stored = << >> /\ rechecks = <<>>
  /\ draft = NoDraft /\ report = NoReport /\ made = 0

-----------------------------------------------------------------------------
(* The rest of the program, as far as the report sees it *)

\* A minute passes; the broker publishes some bars, late ones among them.
Minute ==
  /\ minute < LastClock /\ minute' = minute + 1
  /\ \E bars \in SUBSET {i \in SessionBars : i <= minute'} : offered' = offered \cup bars
  /\ UNCHANGED <<stored, rechecks, draft, report, made>>

Keep(bars) == [i \in DOMAIN stored \cup bars |-> IF i \in DOMAIN stored THEN stored[i] ELSE minute]

\* The collector stores what it was given.
Collect ==
  /\ \E bars \in SUBSET (offered \ DOMAIN stored) : bars # {} /\ stored' = Keep(bars)
  /\ UNCHANGED <<minute, offered, rechecks, draft, report, made>>

\* A recheck of the session or of its opening asks for what is missing and
\* stores what it gets: all the broker has, or not the oldest bar, or nothing.
\* The clock of the answer may be ahead of the clock of the run.  One page of an
\* opening is no whole window; a final run that leaves bars missing without a
\* whole window is an error, as one that fails.
Recheck(kind, answer, ahead) ==
  LET asked == {i \in SessionBars : i <= minute /\ (kind = "opening" => i = 1)} \ DOMAIN stored
      provided == CASE answer = "whole" -> offered [] answer = "part" -> offered \ {1} [] OTHER -> {}
      final == kind = "final" /\ answer = "whole" /\ minute >= BarCount IN
  /\ Len(rechecks) < MaxRechecks /\ (answer # "whole" => ahead = 0)
  /\ asked # {}
  /\ stored' = Keep(asked \cap provided)
  /\ rechecks' = Append(rechecks,
       [kind |-> kind, finished |-> minute, received |-> minute + ahead,
        expected |-> IF kind = "opening" THEN 1 ELSE ExpectedBars(minute),
        checked |-> answer # "failed", complete |-> answer = "whole" /\ kind = "final",
        flawed |-> \/ answer = "failed"
                   \/ answer = "part" /\ kind = "final" /\ ~(asked \subseteq provided),
        provided |-> provided, absent |-> IF final THEN asked \ provided ELSE {}])
  /\ UNCHANGED <<minute, offered, draft, report, made>>

-----------------------------------------------------------------------------
(* Evidence *)

\* The broker's whole session, asked for after its end, and known by then.
FinalEvidence(run, asOf) ==
  /\ run.expected = BarCount /\ run.kind # "opening"
  /\ run.complete /\ BarCount <= run.received /\ run.received <= asOf

Strength(run, asOf) ==
  CASE FinalEvidence(run, asOf) -> 3
    [] ~run.checked -> 0
    [] run.complete /\ run.provided # {} -> 2
    [] OTHER -> 1

\* The stronger evidence, then the newer; nothing from after the moment asked for.
\* A failed run has no answer and thus no time of receipt.
Preferred(current, run, asOf) ==
  IF run.checked /\ run.received > asOf THEN current
  ELSE IF current = <<>> THEN <<run>>
  ELSE LET old == current[1] IN
    IF \/ Strength(run, asOf) < Strength(old, asOf)
       \/ /\ Strength(run, asOf) = Strength(old, asOf) /\ run.checked /\ old.checked
          /\ run.received < old.received
    THEN current ELSE <<run>>

\* Runs that had finished by then, in their order.
Evidence(asOf) ==
  FoldLeft(LAMBDA current, run : IF run.finished <= asOf THEN Preferred(current, run, asOf) ELSE current,
           <<>>, rechecks)

-----------------------------------------------------------------------------
(* The report *)

\* Bars that were there by then.
Known(asOf) == {i \in DOMAIN stored : stored[i] <= asOf}

\* A report as of now, or of an earlier moment, starts with the bars.
ReadBars(asOf) ==
  /\ draft = NoDraft /\ made < MaxReports /\ asOf <= minute
  /\ made' = made + 1
  /\ draft' = [asOf |-> asOf, missing |-> (1..ExpectedBars(asOf)) \ Known(asOf),
               late |-> \E i \in Known(asOf) : stored[i] > i + 1]
  /\ UNCHANGED <<minute, offered, stored, rechecks, report>>

\* Variant: what no answer mentions is absent.
ClassifiedBoldly(missing, basis, asOf) ==
  LET provided == IF basis = <<>> THEN {} ELSE basis[1].provided
      confirmed == basis # <<>> /\ FinalEvidence(basis[1], asOf)
  IN [absent |-> IF basis = <<>> THEN {} ELSE missing \ provided, gap |-> missing \cap provided,
      unverified |-> IF basis = <<>> THEN missing ELSE {}, confirmed |-> confirmed]

\* Which missing bars the broker has, lacks for good, or may have.
Classified(missing, basis, asOf) ==
  LET provided == IF basis = <<>> THEN {} ELSE basis[1].provided
      confirmed == basis # <<>> /\ FinalEvidence(basis[1], asOf)
      absent == IF confirmed THEN (missing \cap basis[1].absent) \ provided ELSE {}
      gap == missing \cap provided
  IN [absent |-> absent, gap |-> gap, unverified |-> missing \ (absent \cup gap), confirmed |-> confirmed]

Completeness(asOf, missing, gaps) ==
  LET expected == ExpectedBars(asOf) IN
  CASE expected > 0 /\ Cardinality(missing) = expected -> "FAIL"
    [] expected = 0 \/ gaps.gap \cup gaps.unverified # {} -> "WARN"
    [] OTHER -> "PASS"

Failures(asOf) == {n \in DOMAIN rechecks : rechecks[n].finished <= asOf /\ rechecks[n].flawed}

\* The runs are read, and the report takes the place of the day's last one.
WriteReport ==
  LET asOf == draft.asOf
      basis == Evidence(asOf)
      gaps == Classified(draft.missing, basis, asOf) IN
  /\ draft # NoDraft
  /\ report' = [asOf |-> asOf, basis |-> basis, missing |-> draft.missing,
                absent |-> gaps.absent, gap |-> gaps.gap, unverified |-> gaps.unverified,
                confirmed |-> gaps.confirmed,
                completeness |-> Completeness(asOf, draft.missing, gaps),
                health |-> IF draft.late \/ Failures(asOf) # {} THEN "WARN" ELSE "PASS"]
  /\ draft' = NoDraft
  /\ UNCHANGED <<minute, offered, stored, rechecks, made>>

QualityNext ==
  \/ Minute \/ Collect \/ WriteReport
  \/ \E kind \in {"opening", "final"}, answer \in {"whole", "part", "failed"}, ahead \in 0..1 :
       Recheck(kind, answer, ahead)
  \/ \E asOf \in 0..LastClock : ReadBars(asOf)

QualitySpec == QualityInit /\ [][QualityNext]_qualityVars

-----------------------------------------------------------------------------

(* What the report calls absent at the broker was missing in a whole answer   *)
(* of the broker that was received after the session and known at the         *)
(* report's moment; no other gap counts as nobody's fault, so that a report   *)
(* passes only if each expected bar is stored or proven absent                *)
(* (quality_report.py:142-209).                                             *)
AbsenceIsProven ==
  report # NoReport =>
    /\ \A i \in report.absent :
         \E n \in DOMAIN rechecks : LET run == rechecks[n] IN
           /\ run.complete /\ run.kind = "final" /\ run.received \in BarCount..report.asOf
           /\ i \notin run.provided
    /\ report.completeness = "PASS" => report.missing = report.absent

================================================================================
