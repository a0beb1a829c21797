------------------------------- MODULE Collection -------------------------------
(***************************************************************************)
(* One trading day of candle collection (auto_trader/ml/collection_worker.py,  *)
(* gap_repair.py, quality_worker.py and the functions that save candles).  The *)
(* collection worker reads the latest minutes in every minute of the session,  *)
(* looks for gaps after the opening in slices with a budget, and scans the     *)
(* whole session after the close; the quality worker scans it again when that  *)
(* failed, and reports.  Rows, runs and reports are in the database, the rest  *)
(* is lost when the process restarts.                                         *)
(* Time counts half minutes: a regular read is due at every even one of the    *)
(* session, an opening scan may begin at an odd one.                          *)
(***************************************************************************)
EXTENDS Integers, Sequences, SequencesExt

CONSTANTS
  Targets,   \* stocks and market indices, in the order of the settings
  LastBar,   \* bars 0 .. LastBar, one for each minute
  Opening,   \* the minutes of the two opening scans, 09:05 and 09:10
  Limit,     \* the minute after which no opening scan begins anew, 09:12
  Final,     \* the minutes of the final scan and of the report, after the close
  Report,
  Recent,    \* bars in a regular read
  MaxPages,  \* requests in a slice
  Slow,      \* bars <<target, bar>> that the broker publishes late
  MaxTroubles

Openings == DOMAIN Opening
Kinds == Openings \cup {"final"}
Close == 2 * (LastBar + 1)

ASSUME CollectionAssumption ==
  /\ Targets \in Seq(ToSet(Targets))
  /\ {LastBar, Limit, Final, Report} \subseteq Nat /\ {MaxPages, Recent} \subseteq Nat \ {0}
  /\ Opening \in [Openings -> Nat \ {0}] /\ {"final", "regular", "none"} \cap Openings = {}
  /\ \A k \in Openings : Opening[k] < Limit
  /\ 2 * Limit < Close /\ Close < 2 * Final /\ Final < Report
  /\ MaxTroubles \in Nat

VARIABLES
  clock,     \* half minutes since the opening
  published, \* <<target, bar>> the broker returns, the bar in progress included
  rows,      \* the bars <<target, bar>> that are saved
  saved,     \* what the last committed slice of each opening scan left to do
  completed, \* how many final scans have completed
  reported,  \* whether the quality report is saved
  lock,      \* _repair_lock: the worker that scans
  worker,    \* the collection worker: what it is doing
  done, resume, notBefore, lastKind,  \* what it remembers
  quality,   \* the quality worker
  checked,   \* the targets that an opening scan has looked after so far
  sliceAt,   \* when the process began its last slice; Never
  troubles

database == <<rows, saved, completed, reported>>
memory == <<done, resume, notBefore, lastKind>>
observed == <<checked, sliceAt>>
collectionVars == <<clock, published, database, lock, worker, memory, quality, observed, troubles>>

Never == 2 * Report + 100
AllTargets == ToSet(Targets)
AllBars == 0..LastBar
NoTarget == <<>>

Trouble == troubles < MaxTroubles /\ troubles' = troubles + 1

-----------------------------------------------------------------------------
(* The schedule.                                                            *)

\* next_collection_at(): the next even half minute of the session.
NextRegular(t) ==
  LET slot == 2 * (t \div 2 + 1)
  IN IF slot <= Close THEN slot ELSE Never

At(kind) == IF kind = "final" THEN 2 * Final ELSE 2 * Opening[kind] + 1

Latest(a, b) == IF a > b THEN a ELSE b

\* The kinds of scan that may be chosen: an opening scan after 09:12 only when
\* it was deferred, and never after the last regular read.
Eligible(kind) ==
  /\ kind \notin done
  /\ kind \in Openings => clock < Close /\ (clock < 2 * Limit \/ notBefore[kind] # Never)

DueAt(kind) ==
  IF kind = "regular" THEN NextRegular(clock)
  ELSE Latest(Latest(At(kind), clock), IF notBefore[kind] = Never THEN 0 ELSE notBefore[kind])

\* next_worker_event(): the earliest; at the same time regular reads first, and
\* the opening scan that had the last slice last.
NextEvents ==
  LET offered == {"regular"} \cup {k \in Kinds : Eligible(k)}
      first == {k \in offered : \A j \in offered : DueAt(k) <= DueAt(j)}
      scans == IF first = {lastKind} THEN first ELSE first \ {lastKind}
  IN IF "regular" \in first THEN {"regular"}
     ELSE {k \in scans : \A j \in scans : At(k) <= At(j)}

\* Bars that an opening scan expects are those of the minutes before it, even
\* when it runs later; the final scan expects all.
Expected(kind) == IF kind = "final" THEN AllBars ELSE 0..(Opening[kind] - 1)

Missing(target, kind) == {b \in Expected(kind) : <<target, b>> \notin rows}

-----------------------------------------------------------------------------
(* Reading and saving.                                                      *)

Complete(b) == 2 * (b + 1) <= clock
Offered(target) == {b \in AllBars : <<target, b>> \in published}
NewestBars(target) ==
  {b \in Offered(target) : b + Recent > LastBar \/ ~\E c \in Offered(target) : c >= b + Recent}

\* Variant: the bar in progress is saved, too.
StoredAtOnce(target, bars) == rows \cup ({target} \X bars)

\* Bars that have ended become rows.  A row that exists stays as it is.
Stored(target, bars) == rows \cup {<<target, b>> : b \in {c \in bars : Complete(c)}}

-----------------------------------------------------------------------------

Idle == [at |-> "plan", kind |-> "none", due |-> 0, todo |-> <<>>,
         pending |-> <<>>, pages |-> 0, failed |-> FALSE, deadline |-> 0]
Down == [Idle EXCEPT !.at = "down"]

CollectionInit ==
  /\ clock = 0 /\ published = {} /\ rows = {}
  /\ saved = [k \in Openings |-> NoTarget] /\ completed = 0 /\ reported = FALSE
  /\ lock = "free" /\ worker = Down /\ quality = Down
  /\ done = {} /\ resume = [k \in Openings |-> NoTarget]
  /\ notBefore = [k \in Kinds |-> Never] /\ lastKind = "none"
  /\ checked = [k \in Openings |-> {}] /\ sliceAt = Never /\ troubles = 0

\* Time passes while nobody is due.  The broker shows a bar from its first
\* moment, those in Slow later.
Tick ==
  /\ clock < 2 * Report /\ clock' = clock + 1
  /\ worker.at # "plan" /\ ~(worker.at = "sleep" /\ worker.due <= clock)
  /\ published' = published \cup ({p \in AllTargets \X AllBars : 2 * p[2] <= clock'} \ Slow)
  /\ UNCHANGED <<database, lock, worker, memory, quality, observed, troubles>>

\* A slow bar appears before the final scan.
Publish ==
  /\ clock < 2 * Final
  /\ \E p \in Slow \ published : 2 * p[2] <= clock /\ published' = published \cup {p}
  /\ UNCHANGED <<clock, database, lock, worker, memory, quality, observed, troubles>>
MustPublish == clock + 1 = 2 * Final => Slow \subseteq published

\* The process starts: cursors of unfinished opening scans are read back, unless
\* that fails.
Boot ==
  /\ worker.at = "down" /\ worker' = Idle
  /\ quality' = [Down EXCEPT !.at = "wait"]
  /\ done' = {} /\ lastKind' = "none" /\ sliceAt' = Never
  /\ \/ /\ resume' = saved /\ UNCHANGED troubles
        /\ notBefore' = [k \in Kinds |-> IF k \in Openings /\ saved[k] # NoTarget THEN clock ELSE Never]
     \/ /\ \E k \in Openings : saved[k] # NoTarget
        /\ Trouble /\ resume' = [k \in Openings |-> NoTarget]
        /\ notBefore' = [k \in Kinds |-> Never]
  /\ UNCHANGED <<clock, published, database, lock, checked>>

Crash ==
  /\ worker.at # "down" /\ Trouble
  /\ worker' = Down /\ quality' = Down /\ lock' = "free"
  /\ UNCHANGED <<clock, published, database, memory, observed>>

-----------------------------------------------------------------------------
(* The collection worker.                                                   *)

Plan ==
  /\ worker.at = "plan"
  /\ \E k \in NextEvents : worker' = [Idle EXCEPT !.at = "sleep", !.kind = k, !.due = DueAt(k)]
  /\ UNCHANGED <<clock, published, database, lock, memory, quality, observed, troubles>>

Awake(kind) == worker.at = "sleep" /\ worker.due <= clock /\ worker.kind = kind

StartRegular ==
  /\ Awake("regular")
  /\ worker' = [worker EXCEPT !.at = "regular", !.todo = Targets]
  /\ UNCHANGED <<clock, published, database, lock, memory, quality, observed, troubles>>

\* One target of a regular read: its newest bars are saved, or it fails and the
\* others go on.
CollectTarget ==
  /\ worker.at = "regular" /\ worker.todo # <<>>
  /\ \/ rows' = Stored(Head(worker.todo), NewestBars(Head(worker.todo))) /\ UNCHANGED troubles
     \/ Trouble /\ UNCHANGED rows
  /\ worker' = [worker EXCEPT !.todo = Tail(@)]
  /\ UNCHANGED <<clock, published, saved, completed, reported, lock, memory, quality, observed>>

\* The read is over, or is given up because of the calendar or the database.
EndRegular ==
  /\ worker.at = "regular" /\ worker' = Idle
  /\ \/ worker.todo = <<>> /\ UNCHANGED troubles
     \/ worker.todo # <<>> /\ Trouble
  /\ UNCHANGED <<clock, published, database, lock, memory, quality, observed>>

\* Variant: only the scan that had the slice waits for the next read.
WaitsForItself(kind) == [notBefore EXCEPT ![kind] = NextRegular(clock)]

\* One slice in each regular interval, across both scans.
Waits(kind) == [k \in Kinds |-> IF k \in Openings THEN NextRegular(clock) ELSE notBefore[k]]

\* The result of a slice of an opening scan in memory: what is pending comes
\* again after the next regular read.
AfterSlice(kind, isPending) ==
  /\ lastKind' = kind
  /\ IF isPending THEN UNCHANGED done /\ notBefore' = Waits(kind)
     ELSE done' = done \cup {kind} /\ notBefore' = [Waits(kind) EXCEPT ![kind] = Never]

\* A slice begins with what the last one left, with a deadline before the next
\* regular read.  (The other user of the lock only begins after the session.)
StartSlice(kind) ==
  /\ Awake(kind) /\ kind \in Openings /\ lock = "free" /\ lock' = "collection"
  /\ worker' = [worker EXCEPT !.at = "scan", !.deadline = NextRegular(clock),
                  !.todo = IF resume[kind] = NoTarget THEN Targets ELSE resume[kind]]
  /\ sliceAt' = clock
  /\ UNCHANGED <<clock, published, database, memory, quality, checked, troubles>>

\* The regular read is too near, or the calendar does not answer.
DeferSlice(kind) ==
  /\ Awake(kind) /\ kind \in Openings /\ Trouble
  /\ worker' = Idle /\ AfterSlice(kind, TRUE)
  /\ UNCHANGED <<clock, published, database, lock, resume, quality, observed>>

StartFinal ==
  /\ Awake("final")
  /\ \/ worker' = [worker EXCEPT !.at = "enter"] /\ UNCHANGED <<memory, troubles>>
     \/ /\ Trouble /\ worker' = Idle /\ done' = done \cup {"final"}
        /\ resume' = [k \in Openings |-> NoTarget] /\ notBefore' = [k \in Kinds |-> Never]
        /\ UNCHANGED lastKind
  /\ UNCHANGED <<clock, published, database, lock, quality, observed>>

-----------------------------------------------------------------------------
(* A scan, by either worker.  s is its record, me its name.                  *)

\* A scan of the whole session waits for the lock, and is skipped when one has
\* completed already.
Enter(s, me, s2) ==
  /\ s.at = "enter" /\ lock = "free"
  /\ IF completed > 0 THEN s2 = [s EXCEPT !.at = "over"] /\ UNCHANGED lock
     ELSE s2 = [s EXCEPT !.at = "scan", !.todo = Targets] /\ lock' = me
  /\ UNCHANGED rows

Bounded(s) == s.kind \in Openings
Exhausted(s) == Bounded(s) /\ (clock >= s.deadline \/ s.pages = MaxPages)

\* The next target: nothing is missing, or what the broker has of it is saved.
Look(s, s2) ==
  LET target == Head(s.todo)
      missing == Missing(target, s.kind)
  IN /\ s.at = "scan" /\ s.todo # <<>> /\ UNCHANGED lock
     /\ \/ missing = {} /\ UNCHANGED rows /\ s2 = [s EXCEPT !.todo = Tail(@)]
        \/ /\ missing # {} /\ ~Exhausted(s)
           /\ rows' = Stored(target, missing \cap Offered(target))
           /\ s2 = [s EXCEPT !.todo = Tail(@), !.pages = IF Bounded(s) THEN @ + 1 ELSE @]

\* The read of the target fails; an opening scan comes back to it.
Miss(s, s2) ==
  /\ s.at = "scan" /\ s.todo # <<>> /\ Missing(Head(s.todo), s.kind) # {}
  /\ s2 = [s EXCEPT !.todo = Tail(@), !.failed = TRUE, !.pages = IF Bounded(s) THEN @ + 1 ELSE @,
                    !.pending = IF Bounded(s) THEN Append(@, Head(s.todo)) ELSE @]
  /\ UNCHANGED <<rows, lock>>

\* Variant: the slice forgets the targets after the one it stopped at.
LeavesOne(s) == Append(s.pending, Head(s.todo))

\* What is pending when the budget ends at a target.
Leaves(s) == s.pending \o s.todo

-----------------------------------------------------------------------------

ScanOpening ==
  /\ worker.kind \in Openings
  /\ \/ /\ Look(worker, worker') /\ UNCHANGED troubles
        /\ checked' = [checked EXCEPT ![worker.kind] = @ \cup {Head(worker.todo)}]
     \/ ~Exhausted(worker) /\ Miss(worker, worker') /\ Trouble /\ UNCHANGED checked
  /\ UNCHANGED <<clock, published, saved, completed, reported, memory, quality, sliceAt>>

\* The slice is over: its run is committed with what it leaves.
EndSlice(left) ==
  LET kind == worker.kind
  IN /\ saved' = [saved EXCEPT ![kind] = left] /\ resume' = [resume EXCEPT ![kind] = left]
     /\ AfterSlice(kind, left # NoTarget)
     /\ worker' = Idle /\ lock' = "free"
     /\ UNCHANGED <<clock, published, rows, completed, reported, quality, observed, troubles>>

FinishSlice ==
  /\ worker.at = "scan" /\ worker.kind \in Openings
  /\ \/ worker.todo = <<>> /\ EndSlice(worker.pending)
     \/ /\ worker.todo # <<>> /\ Exhausted(worker)
        /\ clock >= worker.deadline \/ Missing(Head(worker.todo), worker.kind) # {}
        /\ EndSlice(Leaves(worker))

\* The database fails: the run stays open, and the slice begins again.
AbortSlice ==
  /\ worker.at = "scan" /\ worker.kind \in Openings /\ Trouble
  /\ AfterSlice(worker.kind, TRUE) /\ worker' = Idle /\ lock' = "free"
  /\ UNCHANGED <<clock, published, database, resume, quality, observed>>

ScanFinal ==
  /\ worker.kind = "final"
  /\ \/ Enter(worker, "collection", worker') /\ UNCHANGED troubles
     \/ Look(worker, worker') /\ UNCHANGED troubles
     \/ Miss(worker, worker') /\ Trouble
  /\ UNCHANGED <<clock, published, saved, completed, reported, memory, quality, observed>>

\* Variant: a scan with errors counts as complete.
CountsAlways(s) == completed + 1

\* A scan without errors is the one that completes the day.
Counts(s) == IF s.failed THEN completed ELSE completed + 1

\* The worker is through with the final scan, whatever came of it.
FinishFinal ==
  /\ worker.kind = "final"
  /\ \/ worker.at = "over" /\ UNCHANGED <<completed, lock, troubles>>
     \/ /\ worker.at = "scan" /\ worker.todo = <<>> /\ lock' = "free"
        /\ completed' = Counts(worker) /\ UNCHANGED troubles
     \/ worker.at = "scan" /\ Trouble /\ lock' = "free" /\ UNCHANGED completed
  /\ worker' = Idle /\ done' = done \cup {"final"}
  /\ resume' = [k \in Openings |-> NoTarget] /\ notBefore' = [k \in Kinds |-> Never]
  /\ UNCHANGED <<clock, published, rows, saved, reported, lastKind, quality, observed>>

-----------------------------------------------------------------------------
(* The quality worker.                                                      *)

\* At its time, or when the process starts after it without a report.
StartReport ==
  /\ quality.at = "wait" /\ clock >= 2 * Report /\ ~reported
  /\ quality' = [quality EXCEPT !.at = "enter", !.kind = "final"]
  /\ UNCHANGED <<clock, published, database, lock, worker, memory, observed, troubles>>

ScanAgain ==
  /\ \/ Enter(quality, "quality", quality') /\ UNCHANGED troubles
     \/ Look(quality, quality') /\ UNCHANGED troubles
     \/ Miss(quality, quality') /\ Trouble
  /\ UNCHANGED <<clock, published, saved, completed, reported, worker, memory, observed>>

FinishAgain ==
  /\ quality.at = "scan" /\ quality.todo = <<>> /\ lock' = "free"
  /\ completed' = Counts(quality) /\ quality' = [quality EXCEPT !.at = "over"]
  /\ UNCHANGED <<clock, published, rows, saved, reported, worker, memory, observed, troubles>>

\* The report is written; a failure waits for the next day, or the next start.
SaveReport ==
  /\ quality.at = "over" /\ reported' = TRUE
  /\ quality' = [Down EXCEPT !.at = "tomorrow"]
  /\ UNCHANGED <<clock, published, rows, saved, completed, lock, worker, memory, observed, troubles>>

FailReport ==
  /\ quality.at \in {"enter", "scan", "over"} /\ Trouble
  /\ quality' = [Down EXCEPT !.at = "tomorrow"]
  /\ lock' = IF quality.at = "scan" THEN "free" ELSE lock
  /\ UNCHANGED <<clock, published, database, worker, memory, observed>>

-----------------------------------------------------------------------------

Worker ==
  \/ Plan \/ StartRegular \/ CollectTarget \/ EndRegular
  \/ \E k \in Openings : StartSlice(k) \/ DeferSlice(k)
  \/ ScanOpening \/ FinishSlice \/ AbortSlice
  \/ StartFinal \/ ScanFinal \/ FinishFinal
Quality == StartReport \/ ScanAgain \/ FinishAgain \/ SaveReport \/ FailReport
CollectionNext == (Tick /\ MustPublish) \/ Publish \/ Boot \/ Crash \/ Worker \/ Quality
CollectionSpec == CollectionInit /\ [][CollectionNext]_collectionVars

-----------------------------------------------------------------------------

\* A row is never of a bar in progress, whose prices would still change while
\* the row does not.
RowsAreFinal == \A row \in rows : Complete(row[2])

\* "One shared slice per regular interval, across both scans": between two
\* slices of one process a regular read was due.
OneSlicePerInterval ==
  [][sliceAt' # sliceAt /\ sliceAt # Never /\ sliceAt' # Never =>
       sliceAt' \div 2 > sliceAt \div 2]_sliceAt

\* An opening scan counts as done only when it has looked after every target,
\* whatever slices, errors and restarts it took.
ScanCoversTargets == \A k \in Openings : k \in done => checked[k] = AllTargets

\* When both workers are through with the day and one thing went wrong at most,
\* a late start included, every bar of the session is a row.
DayIsRecovered ==
  reported /\ "final" \in done /\ troubles <= 1 => rows = AllTargets \X AllBars

===============================================================================
