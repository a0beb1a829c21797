----------------------------- MODULE MacroContext -----------------------------
(***************************************************************************)
(* The collection of exchange rates and of the indicators of the American       *)
(* market (auto_trader/ml/macro_worker.py, macro_pipeline.py).  A worker        *)
(* collects when it starts and at fixed times; sources answer or fail on their   *)
(* own; and a source may revise what it said, so that every version is kept    *)
(* with the time it counts as known from.                                     *)
(***************************************************************************)
EXTENDS Integers, FiniteSets, FiniteSetsExt, Sequences

CONSTANTS
  Single,     \* indicators asked for one by one
  Batched,    \* indicators that one call brings together, or none of them
  Levels,     \* values an indicator takes
  Slots,      \* the times of collection
  LastTime,   \* bound: the clock
  MaxLosses   \* bound: failures

ASSUME MacroAssumption ==
  /\ Slots \subseteq Nat /\ IsFiniteSet(Slots) /\ LastTime \in Nat /\ MaxLosses \in Nat
  /\ Single \cap Batched = {}

VARIABLES
  time,
  says,     \* what each source would answer
  versions,     \* table of observations
  runs,     \* table of collection runs, by status
  round,    \* the collection that runs
  due,      \* when the worker collects next
  heard,    \* history: what the last answer stored of each indicator was
  losses

macroVars == <<time, says, versions, runs, round, due, heard, losses>>

Indicators == Single \cup Batched
Nothing == "nothing"
NoRound == [start |-> -1, ask |-> {}, save |-> << >>, errors |-> {}, stored |-> 0]

MacroInit ==
  /\ time = 0 /\ says \in [Indicators -> Levels]
  /\ versions = {} /\ runs = << >> /\ round = NoRound /\ due = 0
  /\ heard = [i \in Indicators |-> Nothing] /\ losses = 0

Loses == losses < MaxLosses /\ losses' = losses + 1

-----------------------------------------------------------------------------

Clock ==
  /\ time < LastTime /\ time' = time + 1
  /\ UNCHANGED <<says, versions, runs, round, due, heard, losses>>

\* A source revises the value of the event in question.
Revise(i) ==
  /\ \E v \in Levels \ {says[i]} : says' = [says EXCEPT ![i] = v]
  /\ UNCHANGED <<time, versions, runs, round, due, heard, losses>>

BeginRound ==
  /\ round = NoRound /\ due <= time
  /\ round' = [NoRound EXCEPT !.start = time, !.ask = Indicators]
  /\ runs' = Append(runs, "RUNNING")
  /\ UNCHANGED <<time, says, versions, due, heard, losses>>

\* Variant: an event is kept once, whatever its value.
NewByEvent(i, v) == ~\E r \in versions : r.indicator = i

\* Each value of an event is kept once.
New(i, v) == ~\E r \in versions : r.indicator = i /\ r.value = v

\* All of a collection counts as known from its beginning.
KnownFrom == round.start

Store(i, v) ==
  /\ versions' = IF New(i, v) THEN versions \cup {[indicator |-> i, value |-> v, available |-> KnownFrom]}
             ELSE versions
  /\ heard' = [heard EXCEPT ![i] = v]

\* One indicator: asked for and stored, or an error of its own.
CollectOne(i) ==
  /\ i \in round.ask \cap Single
  /\ \/ /\ Store(i, says[i])
        /\ round' = [round EXCEPT !.ask = @ \ {i}, !.stored = @ + 1]
        /\ UNCHANGED losses
     \/ /\ Loses /\ round' = [round EXCEPT !.ask = @ \ {i}, !.errors = @ \cup {i}]
        /\ UNCHANGED <<versions, heard>>
  /\ UNCHANGED <<time, says, runs, due>>

\* The batch comes after the single ones; without an answer, after a second
\* try, all of it is an error.
CollectBatch ==
  /\ round.ask = Batched /\ Batched # {}
  /\ \/ /\ round' = [round EXCEPT !.ask = {}, !.save = [i \in Batched |-> says[i]]]
        /\ UNCHANGED losses
     \/ Loses /\ round' = [round EXCEPT !.ask = {}, !.errors = @ \cup Batched]
  /\ UNCHANGED <<time, says, versions, runs, due, heard>>

Without(f, i) == [j \in DOMAIN f \ {i} |-> f[j]]

SaveOfBatch(i) ==
  /\ i \in DOMAIN round.save
  /\ \/ /\ Store(i, round.save[i])
        /\ round' = [round EXCEPT !.save = Without(@, i), !.stored = @ + 1]
        /\ UNCHANGED losses
     \/ /\ Loses /\ round' = [round EXCEPT !.save = Without(@, i), !.errors = @ \cup {i}]
        /\ UNCHANGED <<versions, heard>>
  /\ UNCHANGED <<time, says, runs, due>>

Outcome ==
  IF round.errors = {} THEN "COMPLETED" ELSE IF round.stored > 0 THEN "PARTIAL" ELSE "FAILED"

\* Strictly after now: a time that passed during a collection is left out.
NextSlot == LET later == {s \in Slots : s > time} IN IF later = {} THEN LastTime + 1 ELSE Min(later)

\* The run is closed; or that fails, too, and it stays as running for ever.
EndRound ==
  /\ round # NoRound /\ round.ask = {} /\ round.save = << >>
  /\ \/ runs' = [runs EXCEPT ![Len(runs)] = Outcome] /\ UNCHANGED losses
     \/ Loses /\ UNCHANGED runs
  /\ round' = NoRound /\ due' = NextSlot
  /\ UNCHANGED <<time, says, versions, heard>>

\* The process ends; the next one, a moment later, collects at once.
NewProcess ==
  /\ Loses /\ time < LastTime /\ time' = time + 1
  /\ round' = NoRound /\ due' = time'
  /\ UNCHANGED <<says, versions, runs, heard>>

MacroNext ==
  \/ Clock \/ BeginRound \/ CollectBatch \/ EndRound \/ NewProcess
  \/ \E i \in Indicators : Revise(i) \/ CollectOne(i) \/ SaveOfBatch(i)

MacroSpec == MacroInit /\ [][MacroNext]_macroVars

-----------------------------------------------------------------------------

\* The version of an indicator as it was known at a time.
Version(i, t) ==
  LET known == {r \in versions : r.indicator = i /\ r.available <= t}
  IN IF known = {} THEN Nothing
     ELSE (CHOOSE r \in known : \A q \in known : q.available <= r.available).value

Repeated(i, v) == \E r \in versions : r.indicator = i /\ r.value = v

(* "Without future leakage": what could be read as of a time before the        *)
(* collection that runs stays what it was; and a value stored for the first    *)
(* time is the version known from then on.  A source that goes back to a value *)
(* it has given before is the exception: no new row is written for it           *)
(* (macro_pipeline.py:1, 76-118, 196-306).                                   *)
VersionsAreDated ==
  [][/\ versions' = versions \/ \A i \in Indicators : \A t \in 0..LastTime :
          t < (IF round = NoRound THEN time ELSE round.start) => Version(i, t)' = Version(i, t)
     /\ \A i \in Indicators :
          heard'[i] # heard[i] /\ ~Repeated(i, heard'[i]) => Version(i, time)' = heard'[i]]_macroVars
===============================================================================
