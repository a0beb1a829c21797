------------------------------ MODULE DataProofs ------------------------------
(***************************************************************************)
(* What is proved of the parts that collect, judge and use data: that what a   *)
(* collection stores is final and complete, that the report calls absent only  *)
(* what is, that samples and replays know nothing of what came later, that a   *)
(* version of the macro context is dated right, and that the button of the     *)
(* long-term scan is honest - for any sizes, horizons, calendars and failures. *)
(* The parts share no state; each has an invariant of its own.                 *)
(***************************************************************************)
EXTENDS Collection, QualityReport, Samples, Replay, MacroContext, LongTermScan, FoldLemmas


(***************************************************************************)
(* The collection of candles (Collection)                                  *)
(***************************************************************************)

Stages == {"plan", "sleep", "regular", "enter", "scan", "over", "down", "wait", "tomorrow"}

ScanRecord ==
  [at : Stages, kind : Kinds \cup {"regular", "none"}, due : Nat, todo : Seq(AllTargets),
   pending : Seq(AllTargets), pages : Nat, failed : BOOLEAN, deadline : Nat]

CollectionTypes ==
  /\ clock \in Nat /\ completed \in Nat /\ troubles \in Nat /\ sliceAt \in Nat
  /\ rows \subseteq AllTargets \X AllBars
  /\ saved \in [Openings -> Seq(AllTargets)] /\ resume \in [Openings -> Seq(AllTargets)]
  /\ worker \in ScanRecord /\ quality \in ScanRecord
  /\ done \subseteq Kinds /\ notBefore \in [Kinds -> Nat]
  /\ checked \in [Openings -> SUBSET AllTargets]
  /\ reported \in BOOLEAN

\* What an opening scan has not looked after yet is in the list it goes by.
Accounts(k, list) == AllTargets \subseteq checked[k] \cup ToSet(list)
NothingIsForgotten ==
  /\ ScanCoversTargets
  /\ \A k \in Openings : /\ saved[k] # NoTarget => Accounts(k, saved[k])
                         /\ resume[k] # NoTarget => Accounts(k, resume[k])
  /\ worker.at = "scan" /\ worker.kind \in Openings => Accounts(worker.kind, worker.pending \o worker.todo)

\* A slice that was begun in this regular interval keeps the next one out of it.
NextInterval == 2 * (sliceAt \div 2 + 1)
SlicesKeepApart ==
  sliceAt # Never =>
    /\ sliceAt <= clock
    /\ worker.at \in {"plan", "sleep", "regular"} =>
         \A k \in Openings \ done : clock >= Close \/ notBefore[k] \in NextInterval..(Never - 1)
    /\ worker.at = "sleep" /\ worker.kind \in Openings => worker.due >= NextInterval

\* The final scan and the report come when all bars are there.
Scanning(s) == s.at \in {"enter", "scan", "over"}
AllIsPublished ==
  /\ clock > 0 => {p \in AllTargets \X AllBars : 2 * p[2] <= clock} \ Slow \subseteq published
  /\ clock >= 2 * Final => Slow \subseteq published
  /\ worker.at = "sleep" /\ worker.kind = "final" => worker.due >= 2 * Final
  /\ Scanning(worker) /\ worker.kind = "final" => clock >= 2 * Final
  /\ worker.at \in {"enter", "over"} => worker.kind = "final"
  /\ Scanning(quality) => clock >= 2 * Final /\ quality.kind = "final"

Whole == AllTargets \X AllBars \subseteq rows

\* A scan of the whole session that did not fail has all bars of the targets behind it.
Progress(s) ==
  /\ s.at = "scan" /\ s.kind = "final" /\ ~s.failed => (AllTargets \ ToSet(s.todo)) \X AllBars \subseteq rows
  /\ s.at = "over" /\ ~s.failed => Whole

\* Each worker that is through without all the bars had a trouble of its own.
WorkerGaveUp == "final" \in done \/ (worker.kind = "final" /\ worker.failed)
QualityGaveUp == reported \/ quality.failed
TroublesExplainGaps ==
  /\ completed > 0 => Whole
  /\ worker.at = "over" => Whole
  /\ Progress(worker) /\ Progress(quality)
  /\ ~Whole => /\ WorkerGaveUp \/ QualityGaveUp => troubles >= 1
               /\ WorkerGaveUp /\ QualityGaveUp => troubles >= 2

CollectionInvariant ==
  CollectionTypes /\ RowsAreFinal /\ NothingIsForgotten /\ SlicesKeepApart /\ AllIsPublished /\ TroublesExplainGaps

-----------------------------------------------------------------------------
\* The elements of a list, taken apart and put together.
LEMMA Lists ==
  ASSUME NEW S, NEW s \in Seq(S)
  PROVE  /\ ToSet(s) \subseteq S /\ ToSet(<<>>) = {}
         /\ s # <<>> => /\ Head(s) \in S /\ Tail(s) \in Seq(S)
                        /\ ToSet(s) = {Head(s)} \cup ToSet(Tail(s))
         /\ \A x \in S : Append(s, x) \in Seq(S) /\ ToSet(Append(s, x)) = ToSet(s) \cup {x}
         /\ \A t \in Seq(S) : s \o t \in Seq(S) /\ ToSet(s \o t) = ToSet(s) \cup ToSet(t)
<1>1. ToSet(s) \subseteq S /\ ToSet(<<>>) = {}
  <2>1. \A i \in DOMAIN s : s[i] \in S
    OBVIOUS
  <2>2. DOMAIN <<>> = {}
    OBVIOUS
  <2> QED BY <2>1, <2>2, Zenon DEF ToSet
<1>0. ASSUME NEW q PROVE \A x : x \in ToSet(q) <=> \E i \in DOMAIN q : x = q[i]
  BY DEF ToSet
<1>2. ASSUME s # <<>>
      PROVE  Head(s) \in S /\ Tail(s) \in Seq(S) /\ ToSet(s) = {Head(s)} \cup ToSet(Tail(s))
  <2>1. Head(s) \in S /\ Tail(s) \in Seq(S) /\ Len(s) \in Nat \ {0} /\ Len(Tail(s)) = Len(s) - 1
        /\ Head(s) = s[1] /\ DOMAIN s = 1..Len(s) /\ DOMAIN Tail(s) = 1..(Len(s) - 1)
    BY <1>2
  <2>2. \A i \in DOMAIN Tail(s) : Tail(s)[i] = s[i + 1]
    BY <1>2
  <2>3. \A i \in DOMAIN s : i = 1 \/ (i - 1 \in DOMAIN Tail(s) /\ s[i] = Tail(s)[i - 1])
    BY <2>1, <2>2
  <2>4. ToSet(s) \subseteq {Head(s)} \cup ToSet(Tail(s))
    <3> SUFFICES ASSUME NEW x \in ToSet(s) PROVE x = Head(s) \/ x \in ToSet(Tail(s))
      OBVIOUS
    <3>1. PICK i \in DOMAIN s : x = s[i]
      BY <1>0
    <3> QED BY <1>0, <2>1, <2>3, <3>1
  <2>5. {Head(s)} \cup ToSet(Tail(s)) \subseteq ToSet(s)
    <3>1. Head(s) \in ToSet(s)
      BY <2>1 DEF ToSet
    <3>2. \A i \in DOMAIN Tail(s) : i + 1 \in DOMAIN s /\ Tail(s)[i] = s[i + 1]
      BY <2>1, <2>2
    <3>3. ToSet(Tail(s)) \subseteq ToSet(s)
      BY <3>2 DEF ToSet
    <3> QED BY <3>1, <3>3
  <2> QED BY <2>1, <2>4, <2>5
<1>3. ASSUME NEW x \in S
      PROVE  Append(s, x) \in Seq(S) /\ ToSet(Append(s, x)) = ToSet(s) \cup {x}
  <2> DEFINE u == Append(s, x)
  <2>0. u \in Seq(S) /\ Len(u) = Len(s) + 1 /\ u[Len(s) + 1] = x /\ Len(s) \in Nat
        /\ DOMAIN s = 1..Len(s) /\ DOMAIN u = 1..Len(u)
    OBVIOUS
  <2>1. /\ u \in Seq(S) /\ DOMAIN u = DOMAIN s \cup {Len(s) + 1} /\ u[Len(s) + 1] = x
        /\ \A i \in DOMAIN s : u[i] = s[i]
    BY <2>0
  <2> HIDE DEF u
  <2>2. ToSet(u) = ToSet(s) \cup {x}
    BY <2>1 DEF ToSet
  <2> QED BY <2>1, <2>2 DEF u
<1>4. ASSUME NEW t \in Seq(S)
      PROVE  s \o t \in Seq(S) /\ ToSet(s \o t) = ToSet(s) \cup ToSet(t)
  <2> DEFINE u == s \o t
  <2>1. /\ u \in Seq(S) /\ DOMAIN u = 1..(Len(s) + Len(t)) /\ DOMAIN s = 1..Len(s) /\ DOMAIN t = 1..Len(t)
        /\ Len(s) \in Nat /\ Len(t) \in Nat
    OBVIOUS
  <2>2. \A i \in DOMAIN u : u[i] = IF i <= Len(s) THEN s[i] ELSE t[i - Len(s)]
    OBVIOUS
  <2> HIDE DEF u
  <2>3. \A i \in DOMAIN s : i \in DOMAIN u /\ u[i] = s[i]
    BY <2>1, <2>2
  <2>4. \A i \in DOMAIN t : i + Len(s) \in DOMAIN u /\ u[i + Len(s)] = t[i]
    <3> TAKE i \in DOMAIN t
    <3>1. i + Len(s) \in DOMAIN u /\ ~(i + Len(s) <= Len(s)) /\ i + Len(s) - Len(s) = i
      BY <2>1
    <3> QED BY <2>2, <3>1
  <2>5. \A i \in DOMAIN u : (i \in DOMAIN s /\ u[i] = s[i]) \/ (i - Len(s) \in DOMAIN t /\ u[i] = t[i - Len(s)])
    BY <2>1, <2>2
  <2>6. ToSet(u) \subseteq ToSet(s) \cup ToSet(t)
    BY <2>5 DEF ToSet
  <2>7. ToSet(s) \subseteq ToSet(u) /\ ToSet(t) \subseteq ToSet(u)
    BY <2>3, <2>4 DEF ToSet
  <2> QED BY <2>1, <2>6, <2>7 DEF u
<1> QED BY <1>1, <1>2, <1>3, <1>4

\* What is saved is of the session, and has ended.
LEMMA SavedRows ==
  ASSUME CollectionTypes, RowsAreFinal, NEW target \in AllTargets, NEW bars \in SUBSET AllBars,
         rows' = Stored(target, bars), UNCHANGED clock
  PROVE  /\ rows \subseteq rows' /\ rows' \subseteq AllTargets \X AllBars /\ RowsAreFinal'
         /\ \A b \in bars : Complete(b) => <<target, b>> \in rows'
<1>1. \A row : row \in rows' <=> row \in rows \/ \E b \in bars : Complete(b) /\ row = <<target, b>>
  BY DEF Stored
<1>2. \A b : Complete(b)' = Complete(b)
  BY DEF Complete
<1> QED BY <1>1, <1>2 DEF CollectionTypes, RowsAreFinal

\* A look at a target keeps what was saved, and goes on to the next one.
LEMMA LookStep ==
  ASSUME CollectionTypes, RowsAreFinal, NEW s \in ScanRecord, s.kind \in Kinds, NEW s2,
         Look(s, s2), UNCHANGED clock
  PROVE  /\ s.at = "scan" /\ s.todo # <<>> /\ Head(s.todo) \in AllTargets
         /\ s2 \in ScanRecord /\ s2.todo = Tail(s.todo) /\ s2.at = s.at /\ s2.kind = s.kind
         /\ s2.failed = s.failed /\ s2.pending = s.pending
         /\ rows \subseteq rows' /\ rows' \subseteq AllTargets \X AllBars /\ RowsAreFinal'
<1>1. s.at = "scan" /\ s.todo # <<>> /\ s.todo \in Seq(AllTargets)
  BY DEF Look, ScanRecord
<1>2. Head(s.todo) \in AllTargets /\ Tail(s.todo) \in Seq(AllTargets)
  BY <1>1, Lists
<1>3. s2 = [s EXCEPT !.todo = Tail(@)]
      \/ s2 = [s EXCEPT !.todo = Tail(@), !.pages = IF Bounded(s) THEN @ + 1 ELSE @]
  BY DEF Look
<1>4. s.pages + 1 \in Nat
  BY DEF ScanRecord
<1>5. /\ s2 \in ScanRecord /\ s2.todo = Tail(s.todo) /\ s2.at = s.at /\ s2.kind = s.kind
      /\ s2.failed = s.failed /\ s2.pending = s.pending
  BY <1>2, <1>3, <1>4 DEF ScanRecord
<1>6. rows' = rows \/ rows' = Stored(Head(s.todo), Missing(Head(s.todo), s.kind) \cap Offered(Head(s.todo)))
  BY DEF Look
<1>7. Missing(Head(s.todo), s.kind) \cap Offered(Head(s.todo)) \in SUBSET AllBars
  BY DEF Offered
<1>8. rows' = rows => rows' \subseteq AllTargets \X AllBars /\ RowsAreFinal'
  BY DEF CollectionTypes, RowsAreFinal, Complete
<1> QED BY <1>1, <1>2, <1>5, <1>6, <1>7, <1>8, SavedRows

\* A read that fails saves nothing; a bounded scan comes back to the target.
LEMMA MissStep ==
  ASSUME CollectionTypes, NEW s \in ScanRecord, NEW s2, Miss(s, s2)
  PROVE  /\ s.at = "scan" /\ s.todo # <<>> /\ Head(s.todo) \in AllTargets
         /\ s2 \in ScanRecord /\ s2.todo = Tail(s.todo) /\ s2.at = s.at /\ s2.kind = s.kind
         /\ s2.failed = TRUE
         /\ s2.pending = IF Bounded(s) THEN Append(s.pending, Head(s.todo)) ELSE s.pending
         /\ UNCHANGED <<rows, lock>>
<1>1. s.at = "scan" /\ s.todo # <<>> /\ s.todo \in Seq(AllTargets) /\ s.pending \in Seq(AllTargets)
      /\ UNCHANGED <<rows, lock>>
  BY DEF Miss, ScanRecord
<1>2. Head(s.todo) \in AllTargets /\ Tail(s.todo) \in Seq(AllTargets)
  BY <1>1, Lists
<1>3. Append(s.pending, Head(s.todo)) \in Seq(AllTargets)
  BY <1>1, <1>2, Lists
<1>4. s2 = [s EXCEPT !.todo = Tail(@), !.failed = TRUE, !.pages = IF Bounded(s) THEN @ + 1 ELSE @,
                    !.pending = IF Bounded(s) THEN Append(@, Head(s.todo)) ELSE @]
  BY DEF Miss
<1>5. s.pages + 1 \in Nat
  BY DEF ScanRecord
<1>6. s2 \in ScanRecord /\ s2.todo = Tail(s.todo) /\ s2.at = s.at /\ s2.kind = s.kind
  BY <1>2, <1>3, <1>4, <1>5 DEF ScanRecord
<1>7. s2.failed = TRUE /\ s2.pending = IF Bounded(s) THEN Append(s.pending, Head(s.todo)) ELSE s.pending
  BY <1>4 DEF ScanRecord
<1> QED BY <1>1, <1>2, <1>6, <1>7

\* A scan of the whole session begins with all targets, or is not needed.
LEMMA EnterStep ==
  ASSUME CollectionTypes, NEW s \in ScanRecord, NEW me, NEW s2, Enter(s, me, s2)
  PROVE  /\ s.at = "enter" /\ s2 \in ScanRecord /\ s2.kind = s.kind /\ s2.failed = s.failed
         /\ UNCHANGED rows
         /\ \/ completed > 0 /\ s2.at = "over"
            \/ s2.at = "scan" /\ s2.todo = Targets
<1>1. Targets \in Seq(AllTargets)
  BY CollectionAssumption DEF AllTargets
<1>2. \/ completed > 0 /\ s2 = [s EXCEPT !.at = "over"]
      \/ s2 = [s EXCEPT !.at = "scan", !.todo = Targets]
  BY DEF Enter
<1>3. s.at = "enter" /\ UNCHANGED rows
  BY DEF Enter
<1>5. CASE completed > 0 /\ s2 = [s EXCEPT !.at = "over"]
  BY <1>3, <1>5 DEF ScanRecord, Stages
<1>6. CASE s2 = [s EXCEPT !.at = "scan", !.todo = Targets]
  <2> DEFINE a == [s EXCEPT !.at = "scan"]
  <2>1. a \in ScanRecord /\ a.kind = s.kind /\ a.failed = s.failed /\ a.at = "scan"
    BY DEF ScanRecord, Stages
  <2>2. s2 = [a EXCEPT !.todo = Targets]
    BY <1>6
  <2> HIDE DEF a
  <2>3. s2 \in ScanRecord
    BY <2>1, <2>2, <1>1 DEF ScanRecord, Stages
  <2>4. s2.kind = a.kind /\ s2.failed = a.failed /\ s2.at = a.at /\ s2.todo = Targets
    BY <2>1, <2>2 DEF ScanRecord, Stages
  <2> QED BY <1>3, <2>1, <2>3, <2>4
<1> QED BY <1>2, <1>5, <1>6

-----------------------------------------------------------------------------
(* The schedule.                                                            *)

\* The next regular pass is in the session, and nothing comes due before now.
LEMMA Schedule ==
  ASSUME CollectionTypes
  PROVE  /\ NextRegular(clock) \in Nat /\ Close \in Nat /\ Never \in Nat
         /\ clock < Close => NextRegular(clock) = 2 * (clock \div 2 + 1) /\ NextRegular(clock) <= Close
         /\ Close < 2 * Final /\ 2 * Final < Never
         /\ \A k \in Kinds : At(k) \in Nat
         /\ \A k \in Kinds : k # "regular" =>
              /\ DueAt(k) \in Nat /\ DueAt(k) >= At(k) /\ DueAt(k) >= clock
              /\ notBefore[k] # Never => DueAt(k) >= notBefore[k]
         /\ DueAt("regular") = NextRegular(clock)
<1>1. clock \in Nat /\ LastBar \in Nat /\ Report \in Nat /\ Final \in Nat /\ Limit \in Nat
      /\ notBefore \in [Kinds -> Nat]
  BY CollectionAssumption DEF CollectionTypes
<1>2. Close = 2 * (LastBar + 1) /\ Never = 2 * Report + 100
  BY DEF Close, Never
<1>3. Close \in Nat /\ Never \in Nat
  BY <1>1, <1>2
<1>4. Close < 2 * Final /\ Final < Report
  BY CollectionAssumption
<1>5. clock \div 2 \in Nat /\ 2 * (clock \div 2 + 1) <= clock + 2
  BY <1>1
<1>6. clock < Close => 2 * (clock \div 2 + 1) <= Close
  BY <1>1, <1>2
<1>7. NextRegular(clock) = IF 2 * (clock \div 2 + 1) <= Close THEN 2 * (clock \div 2 + 1) ELSE Never
  BY DEF NextRegular
<1>8. ASSUME NEW k \in Kinds PROVE At(k) \in Nat
  BY <1>1, CollectionAssumption DEF At, Kinds
<1>9. ASSUME NEW k \in Kinds, k # "regular"
      PROVE  /\ DueAt(k) \in Nat /\ DueAt(k) >= At(k) /\ DueAt(k) >= clock
             /\ notBefore[k] # Never => DueAt(k) >= notBefore[k]
  <2>1. At(k) \in Nat /\ notBefore[k] \in Nat
    BY <1>1, <1>8
  <2>2. DueAt(k) = Latest(Latest(At(k), clock), IF notBefore[k] = Never THEN 0 ELSE notBefore[k])
    BY <1>9 DEF DueAt
  <2> QED BY <1>1, <1>3, <2>1, <2>2 DEF Latest
<1>10. DueAt("regular") = NextRegular(clock)
  BY DEF DueAt
<1>11. 2 * (clock \div 2 + 1) \in Nat
  BY <1>5
<1>12. NextRegular(clock) \in Nat
  BY <1>3, <1>7, <1>11
<1>13. 2 * Final < Never
  BY <1>1, <1>2, <1>4
<1>14. clock < Close => NextRegular(clock) = 2 * (clock \div 2 + 1) /\ NextRegular(clock) <= Close
  BY <1>6, <1>7
<1> QED BY <1>3, <1>4, <1>8, <1>9, <1>10, <1>12, <1>13, <1>14

\* What may come next: a regular read, or a scan that may be chosen.
LEMMA NextEventsChosen ==
  ASSUME NEW k \in NextEvents
  PROVE  k = "regular" \/ (k \in Kinds /\ Eligible(k))
<1> DEFINE allowed == {"regular"} \cup {j \in Kinds : Eligible(j)}
           first == {i \in allowed : \A j \in allowed : DueAt(i) <= DueAt(j)}
           scans == IF first = {lastKind} THEN first ELSE first \ {lastKind}
<1>1. k \in IF "regular" \in first THEN {"regular"}
            ELSE {i \in scans : \A j \in scans : At(i) <= At(j)}
  BY DEF NextEvents
<1>2. scans \subseteq first /\ first \subseteq allowed
  OBVIOUS
<1>3. k \in allowed
  <2> HIDE DEF scans, first, allowed
  <2>1. "regular" \in first => k \in first
    BY <1>1
  <2>2. "regular" \notin first => k \in scans
    BY <1>1
  <2> QED BY <1>2, <2>1, <2>2
<1> QED BY <1>3

\* What the tasks hold stays within their types.
LEMMA Records ==
  ASSUME NEW s \in ScanRecord, NEW x \in Stages, NEW k \in Kinds \cup {"regular", "none"}, NEW d \in Nat
  PROVE  /\ Idle \in ScanRecord /\ Down \in ScanRecord /\ [Down EXCEPT !.at = x] \in ScanRecord
         /\ [s EXCEPT !.at = x] \in ScanRecord
         /\ [Idle EXCEPT !.at = x, !.kind = k, !.due = d] \in ScanRecord
<1>1. <<>> \in Seq(AllTargets) /\ "none" \in Kinds \cup {"regular", "none"}
  OBVIOUS
<1>2. Idle \in ScanRecord
  BY <1>1 DEF Idle, ScanRecord, Stages
<1>3. ASSUME NEW r \in ScanRecord PROVE [r EXCEPT !.at = x] \in ScanRecord
  BY DEF ScanRecord
<1>4. "down" \in Stages
  BY DEF Stages
<1>5. Down \in ScanRecord
  <2>1. [Idle EXCEPT !.at = "down"] \in ScanRecord
    BY <1>2, <1>4 DEF ScanRecord
  <2> QED BY <2>1 DEF Down
<1>6. [Idle EXCEPT !.at = x, !.kind = k, !.due = d] \in ScanRecord
  <2> DEFINE a == [Idle EXCEPT !.at = x]
             b == [a EXCEPT !.kind = k]
  <2>1. a \in ScanRecord
    BY <1>2, <1>3
  <2>2. b \in ScanRecord
    <3> HIDE DEF a
    <3> QED BY <2>1 DEF ScanRecord
  <2>3. [b EXCEPT !.due = d] \in ScanRecord
    <3> HIDE DEF b
    <3> QED BY <2>2 DEF ScanRecord
  <2>4. [Idle EXCEPT !.at = x, !.kind = k, !.due = d] = [b EXCEPT !.due = d]
    OBVIOUS
  <2> QED BY <2>3, <2>4
<1> QED BY <1>2, <1>3, <1>5, <1>6

\* The rows of the past are as final as they were.
LEMMA OldRows ==
  ASSUME CollectionTypes, RowsAreFinal, UNCHANGED rows, clock' \in Nat, clock' >= clock
  PROVE  rows' \subseteq AllTargets \X AllBars /\ RowsAreFinal'
<1>1. \A row \in rows : row[2] \in Int /\ 2 * (row[2] + 1) <= clock
  BY DEF CollectionTypes, RowsAreFinal, Complete, AllBars
<1>2. \A row \in rows : 2 * (row[2] + 1) <= clock'
  BY <1>1 DEF CollectionTypes
<1> QED BY <1>2 DEF CollectionTypes, RowsAreFinal, Complete

\* The waiting times after a slice.
LEMMA AfterSliceStep ==
  ASSUME CollectionTypes, NEW k \in Openings, NEW p \in BOOLEAN, AfterSlice(k, p)
  PROVE  /\ notBefore' \in [Kinds -> Nat]
         /\ p => UNCHANGED done
         /\ ~p => done' = done \cup {k}
         /\ \A j \in Openings \ done' : notBefore'[j] = NextRegular(clock)
<1>1. NextRegular(clock) \in Nat /\ Never \in Nat /\ notBefore \in [Kinds -> Nat]
  BY Schedule DEF CollectionTypes
<1>2. Waits(k) \in [Kinds -> Nat] /\ \A j \in Openings : Waits(k)[j] = NextRegular(clock)
  BY <1>1 DEF Waits, Kinds
<1>3. IF p THEN UNCHANGED done /\ notBefore' = Waits(k)
      ELSE done' = done \cup {k} /\ notBefore' = [Waits(k) EXCEPT ![k] = Never]
  BY DEF AfterSlice
<1>4. CASE p
  BY <1>2, <1>3, <1>4
<1>5. CASE ~p
  BY <1>1, <1>2, <1>3, <1>5 DEF Kinds
<1> QED BY <1>4, <1>5

\* The final scans go by their own kind.
LEMMA TypesKept ==
  ASSUME CollectionTypes, RowsAreFinal, Scanning(quality) => quality.kind = "final", [CollectionNext]_collectionVars
  PROVE  CollectionTypes' /\ RowsAreFinal'
<1>0. /\ clock \in Nat /\ completed \in Nat /\ troubles \in Nat /\ sliceAt \in Nat
      /\ saved \in [Openings -> Seq(AllTargets)] /\ resume \in [Openings -> Seq(AllTargets)]
      /\ worker \in ScanRecord /\ quality \in ScanRecord
      /\ done \subseteq Kinds /\ notBefore \in [Kinds -> Nat]
      /\ checked \in [Openings -> SUBSET AllTargets] /\ reported \in BOOLEAN
  BY DEF CollectionTypes
<1> DEFINE none == [k \in Openings |-> NoTarget]
           free == [k \in Kinds |-> Never]
<1>1. /\ Never \in Nat /\ none \in [Openings -> Seq(AllTargets)] /\ free \in [Kinds -> Nat]
      /\ "final" \in Kinds /\ Openings \subseteq Kinds /\ NextRegular(clock) \in Nat
      /\ Targets \in Seq(AllTargets)
  <2>1. <<>> \in Seq(AllTargets)
    OBVIOUS
  <2>2. Targets \in Seq(AllTargets)
    BY CollectionAssumption DEF AllTargets
  <2>3. Never \in Nat /\ NextRegular(clock) \in Nat
    BY Schedule
  <2> QED BY <2>1, <2>2, <2>3 DEF NoTarget, Kinds
<1>2. /\ Idle \in ScanRecord /\ Down \in ScanRecord
      /\ \A x \in Stages : [Down EXCEPT !.at = x] \in ScanRecord
      /\ \A s \in ScanRecord, x \in Stages : [s EXCEPT !.at = x] \in ScanRecord
      /\ \A x \in Stages, k \in Kinds \cup {"regular", "none"}, d \in Nat :
           [Idle EXCEPT !.at = x, !.kind = k, !.due = d] \in ScanRecord
  <2>1. "down" \in Stages
    BY DEF Stages
  <2>2. Idle \in ScanRecord /\ Down \in ScanRecord
    BY <1>0, <1>1, <2>1, Records
  <2>3. ASSUME NEW x \in Stages, NEW s \in ScanRecord
        PROVE  [Down EXCEPT !.at = x] \in ScanRecord /\ [s EXCEPT !.at = x] \in ScanRecord
    BY <1>0, <1>1, Records
  <2>4. ASSUME NEW x \in Stages, NEW k \in Kinds \cup {"regular", "none"}, NEW d \in Nat
        PROVE  [Idle EXCEPT !.at = x, !.kind = k, !.due = d] \in ScanRecord
    BY <1>0, Records
  <2> QED BY <2>2, <2>3, <2>4
<1>3. Trouble => troubles' \in Nat
  BY <1>0 DEF Trouble
<1> HIDE DEF none, free
<1>4. CASE Tick
  <2>1. clock' = clock + 1 /\ UNCHANGED <<database, lock, worker, memory, quality, observed, troubles>>
    BY <1>4 DEF Tick
  <2>2. rows' \subseteq AllTargets \X AllBars /\ RowsAreFinal'
    BY <1>0, <2>1, OldRows DEF database
  <2> QED BY <1>0, <2>1, <2>2 DEF CollectionTypes, database, memory, observed
<1>5. ASSUME UNCHANGED <<clock, rows, saved, completed, reported, checked>>,
             worker' \in ScanRecord, quality' \in ScanRecord, troubles' \in Nat,
             sliceAt' \in Nat, resume' \in [Openings -> Seq(AllTargets)],
             done' \subseteq Kinds, notBefore' \in [Kinds -> Nat]
      PROVE  CollectionTypes' /\ RowsAreFinal'
  <2>1. rows' \subseteq AllTargets \X AllBars /\ RowsAreFinal'
    BY <1>0, <1>5, OldRows
  <2> QED BY <1>0, <1>5, <2>1 DEF CollectionTypes
<1>6. CASE Publish
  BY <1>0, <1>5, <1>6 DEF Publish, database, memory, observed
<1>7. CASE Boot
  <2>1. /\ worker' = Idle /\ quality' = [Down EXCEPT !.at = "wait"] /\ done' = {} /\ sliceAt' = Never
        /\ UNCHANGED <<clock, published, database, lock, checked>>
    BY <1>7 DEF Boot
  <2>2. resume' \in [Openings -> Seq(AllTargets)] /\ notBefore' \in [Kinds -> Nat] /\ troubles' \in Nat
    <3>1. \/ resume' = saved /\ UNCHANGED troubles
             /\ notBefore' = [k \in Kinds |-> IF k \in Openings /\ saved[k] # NoTarget THEN clock ELSE Never]
          \/ Trouble /\ resume' = none /\ notBefore' = free
      BY <1>7 DEF Boot, none, free
    <3> QED BY <1>0, <1>1, <1>3, <3>1
  <2>3. quality' \in ScanRecord
    <3>1. "wait" \in Stages
      BY DEF Stages
    <3> QED BY <1>2, <2>1, <3>1
  <2> QED BY <1>0, <1>1, <1>2, <1>5, <2>1, <2>2, <2>3 DEF database
<1>8. CASE Crash
  BY <1>0, <1>2, <1>3, <1>5, <1>8 DEF Crash, database, memory, observed
<1>9. CASE Plan
  <2>1. PICK k \in NextEvents : worker' = [Idle EXCEPT !.at = "sleep", !.kind = k, !.due = DueAt(k)]
    BY <1>9 DEF Plan
  <2>2. k \in Kinds \cup {"regular", "none"}
    BY NextEventsChosen
  <2>3. DueAt(k) \in Nat
    BY Schedule, NextEventsChosen
  <2>4. worker' \in ScanRecord
    <3>1. "sleep" \in Stages
      BY DEF Stages
    <3> QED BY <1>2, <2>1, <2>2, <2>3, <3>1
  <2> QED BY <1>0, <1>5, <1>9, <2>4 DEF Plan, database, memory, observed
<1>10. CASE StartRegular
  <2>1. worker' = [worker EXCEPT !.at = "regular", !.todo = Targets]
    BY <1>10 DEF StartRegular
  <2>2. worker' \in ScanRecord
    BY <1>0, <1>1, <2>1 DEF ScanRecord, Stages
  <2> QED BY <1>0, <1>5, <1>10, <2>2 DEF StartRegular, database, memory, observed
<1>11. CASE CollectTarget
  <2>1. /\ worker.todo # <<>> /\ worker' = [worker EXCEPT !.todo = Tail(@)]
        /\ UNCHANGED <<clock, published, saved, completed, reported, lock, memory, quality, observed>>
        /\ \/ rows' = Stored(Head(worker.todo), NewestBars(Head(worker.todo))) /\ UNCHANGED troubles
           \/ Trouble /\ UNCHANGED rows
    BY <1>11 DEF CollectTarget
  <2>2. Head(worker.todo) \in AllTargets /\ Tail(worker.todo) \in Seq(AllTargets)
    <3>1. worker.todo \in Seq(AllTargets)
      BY <1>0 DEF ScanRecord
    <3> QED BY <2>1, <3>1, Lists
  <2>3. NewestBars(Head(worker.todo)) \in SUBSET AllBars
    BY DEF NewestBars, Offered
  <2>4. rows' \subseteq AllTargets \X AllBars /\ RowsAreFinal'
    <3>1. CASE rows' = Stored(Head(worker.todo), NewestBars(Head(worker.todo)))
      BY <2>1, <2>2, <2>3, <3>1, SavedRows
    <3>2. CASE UNCHANGED rows
      BY <1>0, <2>1, <3>2, OldRows
    <3> QED BY <2>1, <3>1, <3>2
  <2>5. worker' \in ScanRecord
    BY <1>0, <2>1, <2>2 DEF ScanRecord
  <2> QED BY <1>0, <1>3, <2>1, <2>4, <2>5 DEF CollectionTypes, memory, observed
<1>12. CASE EndRegular
  BY <1>0, <1>2, <1>3, <1>5, <1>12 DEF EndRegular, database, memory, observed
<1>13. ASSUME NEW k \in Openings, StartSlice(k)
       PROVE  CollectionTypes' /\ RowsAreFinal'
  <2> DEFINE left == IF resume[k] = NoTarget THEN Targets ELSE resume[k]
  <2>1. /\ worker' = [worker EXCEPT !.at = "scan", !.deadline = NextRegular(clock), !.todo = left]
        /\ sliceAt' = clock /\ UNCHANGED <<clock, published, database, memory, quality, checked, troubles>>
    BY <1>13 DEF StartSlice
  <2>2. left \in Seq(AllTargets)
    BY <1>0, <1>1
  <2> HIDE DEF left
  <2>3. worker' \in ScanRecord
    <3> DEFINE a == [worker EXCEPT !.at = "scan"]
               b == [a EXCEPT !.deadline = NextRegular(clock)]
    <3>1. a \in ScanRecord
      BY <1>0 DEF ScanRecord, Stages
    <3>2. b \in ScanRecord
      <4> HIDE DEF a
      <4> QED BY <1>1, <3>1 DEF ScanRecord
    <3>3. [b EXCEPT !.todo = left] \in ScanRecord
      <4> HIDE DEF b
      <4> QED BY <2>2, <3>2 DEF ScanRecord
    <3> QED BY <2>1, <3>3
  <2> QED BY <1>0, <1>5, <2>1, <2>3 DEF database, memory
<1>14. ASSUME NEW k \in Openings, DeferSlice(k)
       PROVE  CollectionTypes' /\ RowsAreFinal'
  <2>1. Trouble /\ worker' = Idle /\ AfterSlice(k, TRUE)
        /\ UNCHANGED <<clock, published, database, lock, resume, quality, observed>>
    BY <1>14 DEF DeferSlice
  <2>2. notBefore' \in [Kinds -> Nat] /\ done' = done
    BY <2>1, AfterSliceStep
  <2> QED BY <1>0, <1>2, <1>3, <1>5, <2>1, <2>2 DEF database, observed
<1>15. CASE ScanOpening
  <2>1. /\ worker.kind \in Openings /\ worker.kind \in Kinds
        /\ UNCHANGED <<clock, published, saved, completed, reported, memory, quality, sliceAt>>
    BY <1>1, <1>15 DEF ScanOpening
  <2>2. CASE Look(worker, worker')
    <3>1. \/ UNCHANGED troubles /\ checked' = [checked EXCEPT ![worker.kind] = @ \cup {Head(worker.todo)}]
          \/ Trouble /\ UNCHANGED checked
      BY <1>15 DEF ScanOpening
    <3>2. Head(worker.todo) \in AllTargets /\ worker' \in ScanRecord
          /\ rows' \subseteq AllTargets \X AllBars /\ RowsAreFinal'
      BY <1>0, <2>1, <2>2, LookStep
    <3>3. checked' \in [Openings -> SUBSET AllTargets]
      <4>1. checked[worker.kind] \cup {Head(worker.todo)} \in SUBSET AllTargets
        BY <1>0, <2>1, <3>2
      <4>2. checked' = checked \/ checked' = [checked EXCEPT ![worker.kind] = @ \cup {Head(worker.todo)}]
        BY <3>1
      <4> QED BY <1>0, <2>1, <4>1, <4>2
    <3> QED BY <1>0, <1>3, <2>1, <3>1, <3>2, <3>3 DEF CollectionTypes, memory
  <2>3. CASE Miss(worker, worker') /\ Trouble /\ UNCHANGED checked
    <3>1. worker' \in ScanRecord /\ UNCHANGED rows
      BY <1>0, <2>3, MissStep
    <3> QED BY <1>0, <1>3, <1>5, <2>1, <2>3, <3>1 DEF memory
  <2> QED BY <1>15, <2>2, <2>3 DEF ScanOpening
<1>16. CASE FinishSlice
  <2>1. PICK left : left \in Seq(AllTargets) /\ EndSlice(left)
    <3>1. worker.pending \in Seq(AllTargets) /\ worker.todo \in Seq(AllTargets)
      BY <1>0 DEF ScanRecord
    <3>2. Leaves(worker) \in Seq(AllTargets)
      BY <3>1, Lists DEF Leaves
    <3> QED BY <1>16, <3>1, <3>2 DEF FinishSlice
  <2>2. worker.kind \in Openings
    BY <1>16 DEF FinishSlice
  <2>3. /\ saved' = [saved EXCEPT ![worker.kind] = left] /\ resume' = [resume EXCEPT ![worker.kind] = left]
        /\ AfterSlice(worker.kind, left # NoTarget) /\ worker' = Idle
        /\ UNCHANGED <<clock, published, rows, completed, reported, quality, observed, troubles>>
    BY <2>1 DEF EndSlice
  <2>4. notBefore' \in [Kinds -> Nat] /\ done' \subseteq Kinds
    <3>1. (left # NoTarget) \in BOOLEAN
      OBVIOUS
    <3>2. notBefore' \in [Kinds -> Nat] /\ (done' = done \/ done' = done \cup {worker.kind})
      BY <2>2, <2>3, <3>1, AfterSliceStep
    <3> QED BY <1>0, <1>1, <2>2, <3>2
  <2>5. saved' \in [Openings -> Seq(AllTargets)] /\ resume' \in [Openings -> Seq(AllTargets)]
    BY <1>0, <2>1, <2>3
  <2>6. rows' \subseteq AllTargets \X AllBars /\ RowsAreFinal'
    BY <1>0, <2>3, OldRows
  <2> QED BY <1>0, <1>2, <2>3, <2>4, <2>5, <2>6 DEF CollectionTypes, observed
<1>17. CASE AbortSlice
  <2>1. Trouble /\ worker' = Idle /\ AfterSlice(worker.kind, TRUE) /\ worker.kind \in Openings
        /\ UNCHANGED <<clock, published, database, resume, quality, observed>>
    BY <1>17 DEF AbortSlice
  <2>2. notBefore' \in [Kinds -> Nat] /\ done' = done
    BY <2>1, AfterSliceStep
  <2> QED BY <1>0, <1>2, <1>3, <1>5, <2>1, <2>2 DEF database, observed
<1>18. CASE StartFinal
  <2>1. UNCHANGED <<clock, published, database, lock, quality, observed>>
    BY <1>18 DEF StartFinal
  <2>2. CASE worker' = [worker EXCEPT !.at = "enter"] /\ UNCHANGED <<memory, troubles>>
    <3>1. "enter" \in Stages
      BY DEF Stages
    <3>2. worker' \in ScanRecord
      BY <1>0, <1>2, <2>2, <3>1
    <3> QED BY <1>0, <1>5, <2>1, <2>2, <3>2 DEF database, memory, observed
  <2>3. CASE Trouble /\ worker' = Idle /\ done' = done \cup {"final"} /\ resume' = none /\ notBefore' = free
    BY <1>0, <1>1, <1>2, <1>3, <1>5, <2>1, <2>3 DEF database, observed
  <2> QED BY <1>18, <2>2, <2>3 DEF StartFinal, none, free
<1>19. ASSUME NEW s \in ScanRecord, NEW s2, NEW me, s.kind = "final", troubles' = troubles \/ Trouble,
              Enter(s, me, s2) \/ Look(s, s2) \/ Miss(s, s2), UNCHANGED clock
       PROVE  s2 \in ScanRecord /\ troubles' \in Nat /\ rows' \subseteq AllTargets \X AllBars /\ RowsAreFinal'
  <2>1. CASE Enter(s, me, s2)
    <3>1. s2 \in ScanRecord /\ UNCHANGED rows
      BY <1>19, <2>1, EnterStep
    <3> QED BY <1>0, <1>3, <1>19, <3>1, OldRows
  <2>2. CASE Look(s, s2)
    BY <1>0, <1>1, <1>3, <1>19, <2>2, LookStep
  <2>3. CASE Miss(s, s2)
    <3>1. s2 \in ScanRecord /\ UNCHANGED rows
      BY <1>19, <2>3, MissStep
    <3> QED BY <1>0, <1>3, <1>19, <3>1, OldRows
  <2> QED BY <1>19, <2>1, <2>2, <2>3
<1>20. CASE ScanFinal
  <2>1. /\ worker.kind = "final" /\ (troubles' = troubles \/ Trouble)
        /\ Enter(worker, "collection", worker') \/ Look(worker, worker') \/ Miss(worker, worker')
        /\ UNCHANGED <<clock, published, saved, completed, reported, memory, quality, observed>>
    BY <1>20 DEF ScanFinal
  <2>2. worker' \in ScanRecord /\ troubles' \in Nat /\ rows' \subseteq AllTargets \X AllBars /\ RowsAreFinal'
    <3>1. worker \in ScanRecord /\ UNCHANGED clock
      BY <1>0, <2>1
    <3>2. worker.kind = "final" /\ (troubles' = troubles \/ Trouble)
      BY <2>1
    <3> QED BY <1>19, <2>1, <3>1, <3>2
  <2> QED BY <1>0, <2>1, <2>2 DEF CollectionTypes, memory, observed
<1>21. CASE FinishFinal
  <2>1. /\ worker' = Idle /\ done' = done \cup {"final"} /\ resume' = none /\ notBefore' = free
        /\ completed' \in {completed, completed + 1} /\ (troubles' = troubles \/ Trouble)
        /\ UNCHANGED <<clock, published, rows, saved, reported, lastKind, quality, observed>>
    BY <1>21 DEF FinishFinal, Counts, none, free
  <2>2. rows' \subseteq AllTargets \X AllBars /\ RowsAreFinal'
    BY <1>0, <2>1, OldRows
  <2>3. completed' \in Nat /\ troubles' \in Nat
    BY <1>0, <1>3, <2>1
  <2>4. done' \subseteq Kinds /\ UNCHANGED <<sliceAt, checked>>
    BY <1>0, <1>1, <2>1 DEF observed
  <2> QED BY <1>0, <1>1, <1>2, <2>1, <2>2, <2>3, <2>4 DEF CollectionTypes
<1>22. CASE StartReport
  <2>1. quality' = [quality EXCEPT !.at = "enter", !.kind = "final"]
    BY <1>22 DEF StartReport
  <2>2. quality' \in ScanRecord
    BY <1>0, <1>1, <2>1 DEF ScanRecord, Stages
  <2> QED BY <1>0, <1>5, <1>22, <2>2 DEF StartReport, database, memory, observed
<1>23. CASE ScanAgain
  <2>1. /\ troubles' = troubles \/ Trouble
        /\ Enter(quality, "quality", quality') \/ Look(quality, quality') \/ Miss(quality, quality')
        /\ UNCHANGED <<clock, published, saved, completed, reported, worker, memory, observed>>
    BY <1>23 DEF ScanAgain
  <2>2. quality.kind = "final"
    BY <2>1 DEF Enter, Look, Miss, Scanning
  <2>3. quality' \in ScanRecord /\ troubles' \in Nat /\ rows' \subseteq AllTargets \X AllBars /\ RowsAreFinal'
    BY <1>0, <1>19, <2>1, <2>2
  <2> QED BY <1>0, <2>1, <2>3 DEF CollectionTypes, memory, observed
<1>24. CASE FinishAgain
  <2>1. /\ quality' = [quality EXCEPT !.at = "over"] /\ completed' \in {completed, completed + 1}
        /\ UNCHANGED <<clock, published, rows, saved, reported, worker, memory, observed, troubles>>
    BY <1>24 DEF FinishAgain, Counts
  <2>2. rows' \subseteq AllTargets \X AllBars /\ RowsAreFinal'
    BY <1>0, <2>1, OldRows
  <2>3. quality' \in ScanRecord
    <3>1. "over" \in Stages
      BY DEF Stages
    <3> QED BY <1>0, <1>2, <2>1, <3>1
  <2> QED BY <1>0, <2>1, <2>2, <2>3 DEF CollectionTypes, memory, observed
<1>25. "tomorrow" \in Stages
  BY DEF Stages
<1>26. CASE SaveReport
  <2>1. /\ quality' = [Down EXCEPT !.at = "tomorrow"] /\ reported' = TRUE
        /\ UNCHANGED <<clock, published, rows, saved, completed, lock, worker, memory, observed, troubles>>
    BY <1>26 DEF SaveReport
  <2>2. rows' \subseteq AllTargets \X AllBars /\ RowsAreFinal'
    BY <1>0, <2>1, OldRows
  <2> QED BY <1>0, <1>2, <1>25, <2>1, <2>2 DEF CollectionTypes, memory, observed
<1>27. CASE FailReport
  <2>1. /\ quality' = [Down EXCEPT !.at = "tomorrow"] /\ Trouble
        /\ UNCHANGED <<clock, published, database, worker, memory, observed>>
    BY <1>27 DEF FailReport
  <2>2. quality' \in ScanRecord
    BY <1>2, <1>25, <2>1
  <2> QED BY <1>0, <1>3, <1>5, <2>1, <2>2 DEF database, memory, observed
<1>28. CASE UNCHANGED collectionVars
  BY <1>0, <1>5, <1>28 DEF collectionVars, database, memory, observed
<1> QED
  BY <1>4, <1>6, <1>7, <1>8, <1>9, <1>10, <1>11, <1>12, <1>13, <1>14, <1>15, <1>16, <1>17, <1>18,
     <1>20, <1>21, <1>22, <1>23, <1>24, <1>26, <1>27, <1>28 DEF CollectionNext, Worker, Quality

-----------------------------------------------------------------------------
(* The opening scans.                                                       *)

\* A list accounts for the targets as far as its parts do.
LEMMA ListsAccount ==
  ASSUME CollectionTypes, NEW k \in Openings, NEW s \in Seq(AllTargets), NEW t \in Seq(AllTargets)
  PROVE  /\ Accounts(k, s \o t) <=> AllTargets \subseteq checked[k] \cup ToSet(s) \cup ToSet(t)
         /\ Accounts(k, <<>>) <=> checked[k] = AllTargets
         /\ Accounts(k, s) => Accounts(k, t \o s)
<1>1. ToSet(s \o t) = ToSet(s) \cup ToSet(t) /\ ToSet(t \o s) = ToSet(s) \cup ToSet(t) /\ ToSet(<<>>) = {}
  BY Lists
<1>2. checked[k] \subseteq AllTargets
  BY DEF CollectionTypes
<1> QED BY <1>1, <1>2 DEF Accounts

\* What holds of the lists goes on to hold while they and what was looked
\* after stay, and no opening scan begins or counts as done.
LEMMA AccountsStay ==
  ASSUME CollectionTypes, NothingIsForgotten, UNCHANGED <<saved, checked>>,
         \A k \in Openings : resume'[k] = resume[k] \/ resume'[k] = saved[k] \/ resume'[k] = NoTarget,
         \A k \in Openings : k \in done' => k \in done,
         UNCHANGED worker \/ ~(worker'.at = "scan" /\ worker'.kind \in Openings)
  PROVE  NothingIsForgotten'
<1>2. \A k \in Openings : k \in done' => checked'[k] = AllTargets
  BY DEF NothingIsForgotten, ScanCoversTargets
<1>3. \A k \in Openings : /\ saved'[k] # NoTarget => Accounts(k, saved[k])'
                          /\ resume'[k] # NoTarget => Accounts(k, resume[k])'
  BY DEF NothingIsForgotten, Accounts
<1>4. worker'.at = "scan" /\ worker'.kind \in Openings => Accounts(worker.kind, worker.pending \o worker.todo)'
  BY DEF NothingIsForgotten, Accounts
<1> QED BY <1>2, <1>3, <1>4 DEF NothingIsForgotten, ScanCoversTargets

\* No step forgets a target.
LEMMA NothingIsForgottenStep ==
  ASSUME CollectionTypes, RowsAreFinal, NothingIsForgotten, [CollectionNext]_collectionVars
  PROVE  NothingIsForgotten'
<1>0. /\ saved \in [Openings -> Seq(AllTargets)] /\ resume \in [Openings -> Seq(AllTargets)]
      /\ worker \in ScanRecord /\ checked \in [Openings -> SUBSET AllTargets]
      /\ worker.todo \in Seq(AllTargets) /\ worker.pending \in Seq(AllTargets)
  BY DEF CollectionTypes, ScanRecord
<1> DEFINE Joined(s, t) == ToSet(s \o t) = ToSet(s) \cup ToSet(t)
<1>a. \A s, t \in Seq(AllTargets) : Joined(s, t)
  BY Lists
<1>1. Idle.at = "plan" /\ Down.at = "down" /\ "final" \notin Openings
  BY CollectionAssumption DEF Idle, Down
<1>2. ASSUME UNCHANGED <<worker, memory, saved, checked>> PROVE NothingIsForgotten'
  BY <1>2, AccountsStay DEF memory
<1>3. ASSUME UNCHANGED <<memory, saved, checked>>, worker' \in ScanRecord, worker'.at # "scan"
      PROVE  NothingIsForgotten'
  BY <1>3, AccountsStay DEF memory
<1>4. CASE Tick
  BY <1>2, <1>4 DEF Tick, database, observed
<1>5. CASE Publish
  BY <1>2, <1>5 DEF Publish, database, observed
<1>6. CASE Boot
  <2>1. worker' = Idle /\ done' = {} /\ UNCHANGED <<database, checked>>
    BY <1>6 DEF Boot
  <2>2. resume' = saved \/ resume' = [k \in Openings |-> NoTarget]
    BY <1>6 DEF Boot
  <2>3. \A k \in Openings : resume'[k] = saved[k] \/ resume'[k] = NoTarget
    BY <2>2
  <2> QED BY <1>1, <2>1, <2>3, AccountsStay DEF database
<1>7. CASE Crash
  <2>1. UNCHANGED <<memory, saved, checked>> /\ worker' = Down
    BY <1>7 DEF Crash, database, observed
  <2> QED BY <1>1, <2>1, AccountsStay DEF memory
<1>8. CASE Plan
  <2>1. PICK k, d : worker' = [Idle EXCEPT !.at = "sleep", !.kind = k, !.due = d]
    BY <1>8 DEF Plan
  <2>2. worker'.at = "sleep"
    BY <2>1 DEF Idle
  <2> QED BY <1>8, <2>2, AccountsStay DEF Plan, database, memory, observed
<1>9. CASE StartRegular
  <2>1. worker'.at = "regular"
    BY <1>0, <1>9 DEF StartRegular, ScanRecord
  <2> QED BY <1>9, <2>1, AccountsStay DEF StartRegular, database, memory, observed
<1>10. CASE CollectTarget
  <2>1. worker'.at = "regular"
    BY <1>0, <1>10 DEF CollectTarget, ScanRecord
  <2> QED BY <1>10, <2>1, AccountsStay DEF CollectTarget, memory, observed
<1>11. CASE EndRegular
  BY <1>1, <1>11, AccountsStay DEF EndRegular, database, memory, observed
<1>12. ASSUME NEW k \in Openings, StartSlice(k)
       PROVE  NothingIsForgotten'
  <2> DEFINE left == IF resume[k] = NoTarget THEN Targets ELSE resume[k]
  <2>1. /\ worker' = [worker EXCEPT !.at = "scan", !.deadline = NextRegular(clock), !.todo = left]
        /\ worker.kind = k /\ UNCHANGED <<saved, checked, memory>>
    BY <1>12 DEF StartSlice, Awake, database
  <2>2. Targets \in Seq(AllTargets) /\ AllTargets = ToSet(Targets)
    BY CollectionAssumption DEF AllTargets
  <2>3. left \in Seq(AllTargets) /\ Accounts(k, left)
    <3>1. CASE resume[k] = NoTarget
      BY <2>2, <3>1 DEF Accounts
    <3>2. CASE resume[k] # NoTarget
      BY <1>0, <3>2 DEF NothingIsForgotten
    <3> QED BY <3>1, <3>2
  <2> HIDE DEF left
  <2>4. worker'.kind = k /\ worker'.todo = left /\ worker'.pending = worker.pending
    BY <1>0, <2>1 DEF ScanRecord
  <2>5. Accounts(k, worker.pending \o left)
    BY <1>0, <2>3, ListsAccount
  <2>6. Accounts(worker.kind, worker.pending \o worker.todo)'
    BY <2>1, <2>4, <2>5 DEF Accounts
  <2> QED BY <2>1, <2>6 DEF NothingIsForgotten, ScanCoversTargets, Accounts, memory
<1>13. ASSUME NEW k \in Openings, AfterSlice(k, TRUE), worker' = Idle, UNCHANGED <<saved, resume, checked>>
       PROVE  NothingIsForgotten'
  <2>1. UNCHANGED done
    BY <1>13, AfterSliceStep
  <2> QED BY <1>1, <1>13, <2>1, AccountsStay
<1>14. ASSUME NEW k \in Openings, DeferSlice(k)
       PROVE  NothingIsForgotten'
  BY <1>13, <1>14 DEF DeferSlice, database, observed
<1>15. CASE ScanOpening
  <2> DEFINE k == worker.kind
             target == Head(worker.todo)
  <2>1. k \in Openings /\ UNCHANGED <<saved, resume, done>>
    BY <1>15 DEF ScanOpening, memory
  <2>2. k \in Kinds /\ UNCHANGED clock
    BY <1>15, <2>1 DEF Kinds, ScanOpening
  <2>3. \/ Look(worker, worker') /\ checked' = [checked EXCEPT ![k] = @ \cup {target}]
        \/ Miss(worker, worker') /\ UNCHANGED checked
    BY <1>15 DEF ScanOpening
  <2>4. /\ worker.at = "scan" /\ worker.todo # <<>> /\ target \in AllTargets
        /\ worker'.todo = Tail(worker.todo) /\ worker'.kind = k
    BY <1>0, <2>2, <2>3, LookStep, MissStep
  <2>5. Tail(worker.todo) \in Seq(AllTargets) /\ ToSet(worker.todo) = {target} \cup ToSet(Tail(worker.todo))
    BY <1>0, <2>4, Lists
  <2>6. AllTargets \subseteq checked[k] \cup ToSet(worker.pending) \cup ToSet(worker.todo)
    BY <1>0, <2>1, <2>4, ListsAccount DEF NothingIsForgotten
  <2> HIDE DEF k, target
  <2>7. \A j \in Openings : checked[j] \subseteq checked'[j] /\ checked'[j] \subseteq AllTargets
    <3> TAKE j \in Openings
    <3>1. checked'[j] \in {checked[j], checked[j] \cup {target}}
      BY <1>0, <2>1, <2>3
    <3> QED BY <1>0, <2>4, <3>1
  <2>8. AllTargets \subseteq checked'[k] \cup ToSet(worker'.pending \o worker'.todo)
    <3>1. CASE Look(worker, worker') /\ checked' = [checked EXCEPT ![k] = @ \cup {target}]
      <4>1. worker'.pending = worker.pending
        BY <1>0, <2>2, <3>1, LookStep DEF k
      <4>2. checked'[k] = checked[k] \cup {target}
        BY <1>0, <2>1, <3>1
      <4>3. ToSet(worker'.pending \o worker'.todo) = ToSet(worker.pending) \cup ToSet(Tail(worker.todo))
        <5>1. worker'.pending \o worker'.todo = worker.pending \o Tail(worker.todo)
          BY <2>4, <4>1
        <5>2. Joined(worker.pending, Tail(worker.todo))
          <6> HIDE DEF Joined
          <6> QED BY <1>0, <1>a, <2>5
        <5> QED BY <5>1, <5>2
      <4> QED BY <2>5, <2>6, <4>2, <4>3
    <3>2. CASE Miss(worker, worker') /\ UNCHANGED checked
      <4>1. worker'.pending = Append(worker.pending, target)
        BY <1>0, <2>1, <3>2, MissStep DEF Bounded, k, target
      <4>2. Append(worker.pending, target) \in Seq(AllTargets)
            /\ ToSet(Append(worker.pending, target)) = ToSet(worker.pending) \cup {target}
        BY <1>0, <2>4, Lists
      <4>3. ToSet(worker'.pending \o worker'.todo) = ToSet(worker.pending) \cup {target} \cup ToSet(Tail(worker.todo))
        <5>1. worker'.pending \o worker'.todo = Append(worker.pending, target) \o Tail(worker.todo)
          BY <2>4, <4>1
        <5> HIDE DEF target
        <5>2. ToSet(Append(worker.pending, target) \o Tail(worker.todo))
              = ToSet(Append(worker.pending, target)) \cup ToSet(Tail(worker.todo))
          <6>1. Joined(Append(worker.pending, target), Tail(worker.todo))
            <7> HIDE DEF Joined
            <7> QED BY <1>a, <2>5, <4>2
          <6> QED BY <6>1
        <5> QED BY <4>2, <5>1, <5>2
      <4> QED BY <2>5, <2>6, <3>2, <4>3
    <3> QED BY <2>3, <3>1, <3>2
  <2>9. \A j \in Openings : j \in done' => checked'[j] = AllTargets
    BY <1>0, <2>1, <2>7 DEF NothingIsForgotten, ScanCoversTargets
  <2>10. \A j \in Openings : /\ saved'[j] # NoTarget => Accounts(j, saved[j])'
                             /\ resume'[j] # NoTarget => Accounts(j, resume[j])'
    BY <2>1, <2>7 DEF NothingIsForgotten, Accounts
  <2> QED BY <2>4, <2>8, <2>9, <2>10 DEF NothingIsForgotten, ScanCoversTargets, Accounts
<1>16. CASE FinishSlice
  <2> DEFINE k == worker.kind
  <2>1. PICK left \in Seq(AllTargets) : EndSlice(left) /\ Accounts(k, left)
    <3>1. worker.at = "scan" /\ k \in Openings
      BY <1>16 DEF FinishSlice
    <3>2. AllTargets \subseteq checked[k] \cup ToSet(worker.pending) \cup ToSet(worker.todo)
      BY <1>0, <3>1, ListsAccount DEF NothingIsForgotten
    <3>3. CASE worker.todo = <<>> /\ EndSlice(worker.pending)
      <4>1. ToSet(worker.todo) = {}
        BY <1>0, <3>3, Lists
      <4> QED BY <1>0, <3>2, <3>3, <4>1 DEF Accounts
    <3>4. CASE EndSlice(Leaves(worker))
      <4>1. Leaves(worker) \in Seq(AllTargets) /\ Accounts(k, Leaves(worker))
        BY <1>0, <3>1, Lists DEF Leaves, NothingIsForgotten
      <4> QED BY <3>4, <4>1
    <3> QED BY <1>16, <3>3, <3>4 DEF FinishSlice
  <2>2. /\ k \in Openings /\ saved' = [saved EXCEPT ![k] = left] /\ resume' = [resume EXCEPT ![k] = left]
        /\ worker' = Idle /\ UNCHANGED checked
    BY <1>16, <2>1 DEF FinishSlice, EndSlice, observed
  <2>3. IF left = NoTarget THEN done' = done \cup {k} ELSE done' = done
    <3>1. AfterSlice(k, left # NoTarget) /\ (left # NoTarget) \in BOOLEAN
      BY <2>1 DEF EndSlice
    <3> QED BY <2>2, <3>1, AfterSliceStep
  <2> HIDE DEF k
  <2>4. \A j \in Openings : /\ saved'[j] # NoTarget => Accounts(j, saved'[j])
                            /\ resume'[j] # NoTarget => Accounts(j, resume'[j])
    <3> TAKE j \in Openings
    <3>1. saved'[j] = (IF j = k THEN left ELSE saved[j]) /\ resume'[j] = (IF j = k THEN left ELSE resume[j])
      BY <1>0, <2>2
    <3> QED BY <2>1, <3>1 DEF NothingIsForgotten
  <2>5. \A j \in Openings : j \in done' => checked[j] = AllTargets
    <3>1. left = NoTarget => checked[k] = AllTargets
      BY <2>1, <2>2, ListsAccount DEF NoTarget
    <3> QED BY <2>2, <2>3, <3>1 DEF NothingIsForgotten, ScanCoversTargets
  <2> QED BY <1>1, <2>2, <2>4, <2>5 DEF NothingIsForgotten, ScanCoversTargets, Accounts
<1>17. CASE AbortSlice
  BY <1>13, <1>17 DEF AbortSlice, database, observed
<1>18. ASSUME worker' = Idle, done' = done \cup {"final"}, resume' = [k \in Openings |-> NoTarget],
              UNCHANGED <<saved, checked>>
       PROVE  NothingIsForgotten'
  BY <1>1, <1>18, AccountsStay
<1>19. CASE StartFinal
  <2>1. UNCHANGED <<saved, checked>>
    BY <1>19 DEF StartFinal, database, observed
  <2>2. CASE worker' = [worker EXCEPT !.at = "enter"] /\ UNCHANGED memory
    <3>1. worker'.at = "enter"
      BY <1>0, <2>2 DEF ScanRecord
    <3> QED BY <2>1, <2>2, <3>1, AccountsStay DEF memory
  <2> QED BY <1>18, <1>19, <2>1, <2>2 DEF StartFinal
<1>20. CASE ScanFinal
  <2>1. /\ worker.kind = "final" /\ UNCHANGED <<memory, saved, checked>>
        /\ Enter(worker, "collection", worker') \/ Look(worker, worker') \/ Miss(worker, worker')
    BY <1>20 DEF ScanFinal, observed
  <2>2. worker'.kind = "final"
    <3>1. worker.kind \in Kinds /\ UNCHANGED clock
      BY <1>20, <2>1 DEF Kinds, ScanFinal
    <3>2. Enter(worker, "collection", worker') => worker'.kind = worker.kind
      BY <1>0, EnterStep
    <3>3. Look(worker, worker') => worker'.kind = worker.kind
      BY <1>0, <3>1, LookStep
    <3>4. Miss(worker, worker') => worker'.kind = worker.kind
      BY <1>0, MissStep
    <3> QED BY <2>1, <3>2, <3>3, <3>4
  <2> QED BY <1>1, <2>1, <2>2, AccountsStay DEF memory
<1>21. CASE FinishFinal
  BY <1>18, <1>21 DEF FinishFinal, observed
<1>22. CASE Quality
  BY <1>2, <1>22 DEF Quality, StartReport, ScanAgain, FinishAgain, SaveReport, FailReport, database, observed
<1>23. CASE UNCHANGED collectionVars
  BY <1>2, <1>23 DEF collectionVars, database, observed
<1> QED
  BY <1>4, <1>5, <1>6, <1>7, <1>8, <1>9, <1>10, <1>11, <1>12, <1>14, <1>15, <1>16, <1>17, <1>19,
     <1>20, <1>21, <1>22, <1>23 DEF CollectionNext, Worker

-----------------------------------------------------------------------------
(* Slices and intervals.                                                    *)

\* What keeps slices apart stays while time goes on and nothing new is planned.
LEMMA SlicesStay ==
  ASSUME CollectionTypes, SlicesKeepApart, UNCHANGED <<sliceAt, done, notBefore>>,
         clock' \in Nat, clock' >= clock,
         worker'.at \in {"plan", "sleep", "regular"} => worker.at \in {"plan", "sleep", "regular"},
         worker'.at = "sleep" /\ worker'.kind \in Openings =>
           worker.at = "sleep" /\ worker.kind \in Openings /\ worker'.due = worker.due
  PROVE  SlicesKeepApart'
<1>1. clock \in Nat /\ sliceAt \in Nat /\ Close \in Nat
  BY Schedule DEF CollectionTypes
<1> HIDE DEF Close, Openings
<1> QED BY <1>1 DEF SlicesKeepApart, NextInterval

\* Numbers of intervals grow with the time.
LEMMA Intervals ==
  ASSUME NEW s \in Nat, NEW t \in Nat
  PROVE  /\ s <= t => 2 * (t \div 2 + 1) >= 2 * (s \div 2 + 1)
         /\ t >= 2 * (s \div 2 + 1) => t \div 2 > s \div 2
OBVIOUS

\* After a slice the next one waits for the next interval.
LEMMA SlicesWait ==
  ASSUME CollectionTypes, SlicesKeepApart, NEW k \in Openings, NEW p \in BOOLEAN, AfterSlice(k, p),
         worker' = Idle, UNCHANGED <<clock, sliceAt>>
  PROVE  SlicesKeepApart'
<1> SUFFICES ASSUME sliceAt # Never PROVE SlicesKeepApart'
  BY DEF SlicesKeepApart
<1>1. clock \in Nat /\ sliceAt \in Nat /\ sliceAt <= clock
  BY DEF SlicesKeepApart, CollectionTypes
<1>2. \A j \in Openings \ done' : notBefore'[j] = NextRegular(clock)
  BY AfterSliceStep
<1>3. clock < Close => NextRegular(clock) \in NextInterval..(Never - 1)
  <2>1. /\ NextRegular(clock) \in Nat /\ Close \in Nat /\ Never \in Nat /\ Close < Never
        /\ clock < Close => NextRegular(clock) = 2 * (clock \div 2 + 1) /\ NextRegular(clock) <= Close
    <3>1. /\ NextRegular(clock) \in Nat /\ Close \in Nat /\ Never \in Nat
          /\ Close < 2 * Final /\ 2 * Final < Never
          /\ clock < Close => NextRegular(clock) = 2 * (clock \div 2 + 1) /\ NextRegular(clock) <= Close
      BY Schedule
    <3>2. Final \in Nat
      BY CollectionAssumption
    <3> QED BY <3>1, <3>2
  <2>2. 2 * (clock \div 2 + 1) >= NextInterval /\ NextInterval \in Int
    BY <1>1, Intervals DEF NextInterval
  <2> QED BY <2>1, <2>2
<1>4. clock >= Close \/ clock < Close
  BY <1>1, Schedule
<1>5. worker'.at = "plan"
  BY DEF Idle
<1>6. NextInterval' = NextInterval /\ Never' = Never /\ Close' = Close
  BY DEF NextInterval, Never, Close
<1> QED BY <1>1, <1>2, <1>3, <1>4, <1>5, <1>6 DEF SlicesKeepApart

\* No step brings two slices together.
LEMMA SlicesKeepApartStep ==
  ASSUME CollectionTypes, RowsAreFinal, SlicesKeepApart, AllIsPublished, [CollectionNext]_collectionVars
  PROVE  /\ SlicesKeepApart'
         /\ sliceAt' # sliceAt /\ sliceAt # Never /\ sliceAt' # Never => sliceAt' \div 2 > sliceAt \div 2
<1>0. clock \in Nat /\ sliceAt \in Nat /\ worker \in ScanRecord /\ quality \in ScanRecord
  BY DEF CollectionTypes
<1>1. /\ Close \in Nat /\ 2 * Final \in Nat /\ Close < 2 * Final /\ "final" \notin Openings /\ "regular" \notin Openings
      /\ Openings \subseteq Kinds
  BY Schedule, CollectionAssumption DEF Kinds
<1>2. Idle.at = "plan" /\ Down.at = "down"
  BY DEF Idle, Down
<1> HIDE DEF Close
<1>3. ASSUME UNCHANGED <<worker, memory, sliceAt>>, clock' \in Nat, clock' >= clock
      PROVE  SlicesKeepApart'
  BY <1>0, <1>3, SlicesStay DEF memory
<1>4. CASE Tick
  BY <1>0, <1>3, <1>4 DEF Tick, observed
<1>5. CASE Publish
  BY <1>0, <1>3, <1>5 DEF Publish, observed
<1>6. CASE Boot
  BY <1>6 DEF Boot, SlicesKeepApart
<1>7. CASE Crash
  BY <1>0, <1>2, <1>7, SlicesStay DEF Crash, memory, observed
<1>8. CASE Plan
  <2>1. PICK k \in NextEvents : worker' = [Idle EXCEPT !.at = "sleep", !.kind = k, !.due = DueAt(k)]
    BY <1>8 DEF Plan
  <2>2. worker.at = "plan" /\ UNCHANGED <<clock, sliceAt, done, notBefore>>
    BY <1>8 DEF Plan, memory, observed
  <2>3. worker'.at = "sleep" /\ worker'.kind = k /\ worker'.due = DueAt(k)
    BY <2>1 DEF Idle
  <2>4. ASSUME sliceAt # Never, k \in Openings PROVE DueAt(k) >= NextInterval
    <3>1. Eligible(k)
      BY <1>1, <2>4, NextEventsChosen
    <3>2. k \notin done /\ clock < Close
      BY <2>4, <3>1 DEF Eligible
    <3>3. clock >= Close \/ notBefore[k] \in NextInterval..(Never - 1)
      BY <2>2, <2>4, <3>2 DEF SlicesKeepApart
    <3>4. notBefore[k] \in NextInterval..(Never - 1) /\ Never \in Nat /\ NextInterval \in Int
      BY <1>0, <1>1, <3>2, <3>3, Schedule DEF NextInterval
    <3>5. DueAt(k) \in Nat /\ (notBefore[k] # Never => DueAt(k) >= notBefore[k])
      BY <1>1, <2>4, Schedule
    <3> QED BY <3>4, <3>5
  <2>5. NextInterval' = NextInterval /\ Never' = Never /\ Close' = Close
    BY <2>2 DEF NextInterval, Never, Close
  <2> QED BY <2>2, <2>3, <2>4, <2>5 DEF SlicesKeepApart
<1>9. CASE StartRegular
  <2>1. worker'.at = "regular" /\ worker.at = "sleep"
    BY <1>0, <1>9 DEF StartRegular, ScanRecord, Awake
  <2> QED BY <1>0, <1>9, <2>1, SlicesStay DEF StartRegular, memory, observed
<1>10. CASE CollectTarget
  <2>1. worker'.at = "regular" /\ worker.at = "regular"
    BY <1>0, <1>10 DEF CollectTarget, ScanRecord
  <2> QED BY <1>0, <1>10, <2>1, SlicesStay DEF CollectTarget, memory, observed
<1>11. CASE EndRegular
  BY <1>0, <1>2, <1>11, SlicesStay DEF EndRegular, memory, observed
<1>12. ASSUME NEW k \in Openings, StartSlice(k)
       PROVE  /\ SlicesKeepApart'
              /\ sliceAt # Never => sliceAt' \div 2 > sliceAt \div 2
  <2>1. worker'.at = "scan" /\ sliceAt' = clock /\ clock' = clock
        /\ worker.at = "sleep" /\ worker.due <= clock /\ worker.kind = k
    BY <1>0, <1>12 DEF StartSlice, ScanRecord, Awake
  <2>2. sliceAt # Never => clock >= 2 * (sliceAt \div 2 + 1)
    <3>1. sliceAt # Never => worker.due >= NextInterval
      BY <2>1 DEF SlicesKeepApart
    <3>2. worker.due \in Nat
      BY <1>0 DEF ScanRecord
    <3> QED BY <1>0, <2>1, <3>1, <3>2 DEF NextInterval
  <2>3. sliceAt # Never => sliceAt' \div 2 > sliceAt \div 2
    BY <1>0, <2>1, <2>2, Intervals
  <2> QED BY <1>0, <2>1, <2>3 DEF SlicesKeepApart
<1>13. ASSUME NEW k \in Openings, DeferSlice(k)
       PROVE  SlicesKeepApart' /\ UNCHANGED sliceAt
  BY <1>13, SlicesWait DEF DeferSlice, observed
<1>14. CASE ScanOpening
  <2>1. worker.kind \in Openings /\ UNCHANGED <<clock, memory, sliceAt>>
    BY <1>14 DEF ScanOpening
  <2>2. Look(worker, worker') \/ Miss(worker, worker')
    BY <1>14 DEF ScanOpening
  <2>3. worker'.at = "scan"
    <3>1. Look(worker, worker') => worker'.at = "scan"
      BY <1>0, <1>1, <2>1, LookStep
    <3>2. Miss(worker, worker') => worker'.at = "scan"
      BY <1>0, MissStep
    <3> QED BY <2>2, <3>1, <3>2
  <2> QED BY <1>0, <2>1, <2>3, SlicesStay DEF memory
<1>15. CASE FinishSlice
  <2>1. PICK left : EndSlice(left)
    BY <1>15 DEF FinishSlice
  <2>2. worker.kind \in Openings /\ (left # NoTarget) \in BOOLEAN
    BY <1>15 DEF FinishSlice
  <2> QED BY <2>1, <2>2, SlicesWait DEF EndSlice, observed
<1>16. CASE AbortSlice
  BY <1>16, SlicesWait DEF AbortSlice, observed
<1>17. ASSUME clock >= Close, UNCHANGED <<clock, sliceAt>>, worker' = Idle
       PROVE  SlicesKeepApart'
  BY <1>0, <1>2, <1>17 DEF SlicesKeepApart, Close, Never, NextInterval
<1>18. CASE StartFinal
  <2>1. UNCHANGED <<clock, sliceAt>> /\ worker.at = "sleep" /\ worker.due <= clock /\ worker.kind = "final"
    BY <1>18 DEF StartFinal, Awake, observed
  <2>2. clock >= Close
    <3>1. worker.due >= 2 * Final /\ worker.due \in Nat
      BY <1>0, <2>1 DEF AllIsPublished, ScanRecord
    <3> QED BY <1>0, <1>1, <2>1, <3>1
  <2>3. CASE worker' = [worker EXCEPT !.at = "enter"] /\ UNCHANGED memory
    <3>1. worker'.at = "enter"
      BY <1>0, <2>3 DEF ScanRecord
    <3> QED BY <1>0, <2>1, <2>3, <3>1, SlicesStay DEF memory
  <2> QED BY <1>17, <1>18, <2>1, <2>2, <2>3 DEF StartFinal
<1>19. CASE ScanFinal
  <2>1. /\ worker.kind = "final" /\ UNCHANGED <<clock, memory, sliceAt>>
        /\ Enter(worker, "collection", worker') \/ Look(worker, worker') \/ Miss(worker, worker')
    BY <1>19 DEF ScanFinal, observed
  <2>2. worker'.at \in {"over", "scan"}
    <3>1. Enter(worker, "collection", worker') => worker'.at \in {"over", "scan"}
      BY <1>0, EnterStep
    <3>2. Look(worker, worker') => worker'.at = "scan"
      <4>1. worker.kind \in Kinds
        BY <2>1 DEF Kinds
      <4> QED BY <1>0, <2>1, <4>1, LookStep
    <3>3. Miss(worker, worker') => worker'.at = "scan"
      BY <1>0, MissStep
    <3> QED BY <2>1, <3>1, <3>2, <3>3
  <2> QED BY <1>0, <2>1, <2>2, SlicesStay DEF memory
<1>20. CASE FinishFinal
  <2>1. UNCHANGED <<clock, sliceAt>> /\ worker' = Idle /\ worker.kind = "final" /\ worker.at \in {"over", "scan"}
    BY <1>20 DEF FinishFinal, observed
  <2>2. clock >= Close
    BY <1>0, <1>1, <2>1 DEF AllIsPublished, Scanning
  <2> QED BY <1>17, <2>1, <2>2
<1>21. CASE Quality
  <2>1. UNCHANGED <<clock, worker, memory, sliceAt>>
    BY <1>21 DEF Quality, StartReport, ScanAgain, FinishAgain, SaveReport, FailReport, observed
  <2> QED BY <1>0, <1>3, <2>1
<1>22. CASE UNCHANGED collectionVars
  BY <1>0, <1>3, <1>22 DEF collectionVars, observed
<1>23. SlicesKeepApart'
  BY <1>4, <1>5, <1>6, <1>7, <1>8, <1>9, <1>10, <1>11, <1>12, <1>13, <1>14, <1>15, <1>16, <1>18,
     <1>19, <1>20, <1>21, <1>22 DEF CollectionNext, Worker
<1>24. sliceAt' = sliceAt \/ sliceAt' = Never \/ \E k \in Openings : StartSlice(k)
  BY <1>13 DEF CollectionNext, Worker, Quality, Tick, Publish, Boot, Crash, Plan, StartRegular, CollectTarget,
     EndRegular, ScanOpening, FinishSlice, EndSlice, AbortSlice, StartFinal, ScanFinal, FinishFinal,
     StartReport, ScanAgain, FinishAgain, SaveReport, FailReport, observed, collectionVars
<1> QED BY <1>12, <1>23, <1>24

-----------------------------------------------------------------------------
(* The whole session.                                                       *)

\* Bars go on to be published, and a scan of the whole session that has begun
\* came late enough.
LEMMA PublishedStays ==
  ASSUME CollectionTypes, AllIsPublished, UNCHANGED clock, published \subseteq published',
         worker'.at = "sleep" /\ worker'.kind = "final" =>
           worker'.due >= 2 * Final \/ UNCHANGED worker,
         Scanning(worker') /\ worker'.kind = "final" =>
           (Scanning(worker) /\ worker.kind = "final") \/ clock >= 2 * Final,
         worker'.at \in {"enter", "over"} => worker'.kind = "final",
         Scanning(quality') => \/ Scanning(quality) /\ quality'.kind = quality.kind
                               \/ clock >= 2 * Final /\ quality'.kind = "final"
  PROVE  AllIsPublished'
BY DEF AllIsPublished, Scanning

\* No step publishes a scan that left a target out.
LEMMA AllIsPublishedStep ==
  ASSUME CollectionTypes, RowsAreFinal, AllIsPublished, [CollectionNext]_collectionVars
  PROVE  AllIsPublished'
<1>0. clock \in Nat /\ worker \in ScanRecord /\ quality \in ScanRecord
  BY DEF CollectionTypes
<1>1. /\ 2 * Final \in Nat /\ 2 * Report \in Nat /\ 2 * Final < 2 * Report
      /\ "final" \notin Openings /\ "final" \in Kinds /\ "regular" \notin Openings
  BY CollectionAssumption DEF Kinds
<1>2. Idle.at = "plan" /\ Down.at = "down" /\ Idle.kind = "none" /\ Down.kind = "none"
  BY DEF Idle, Down
<1>3. ASSUME NEW s \in ScanRecord, s.kind = "final", NEW s2, NEW me, UNCHANGED clock,
             Enter(s, me, s2) \/ Look(s, s2) \/ Miss(s, s2)
      PROVE  Scanning(s) /\ s2.at \in {"over", "scan"} /\ s2.kind = "final"
  <2>1. CASE Enter(s, me, s2)
    BY <1>0, <1>3, <2>1, EnterStep DEF Scanning
  <2>2. CASE Look(s, s2)
    BY <1>1, <1>3, <2>2, LookStep DEF Scanning
  <2>3. CASE Miss(s, s2)
    BY <1>3, <2>3, MissStep DEF Scanning
  <2> QED BY <1>3, <2>1, <2>2, <2>3
<1>4. CASE Tick /\ MustPublish
  <2>1. /\ clock' = clock + 1 /\ UNCHANGED <<worker, quality>>
        /\ published' = published \cup ({p \in AllTargets \X AllBars : 2 * p[2] <= clock'} \ Slow)
        /\ clock + 1 = 2 * Final => Slow \subseteq published
    BY <1>4 DEF Tick, MustPublish
  <2>2. clock' > 0 => {p \in AllTargets \X AllBars : 2 * p[2] <= clock'} \ Slow \subseteq published'
    BY <2>1
  <2>3. clock' >= 2 * Final => Slow \subseteq published'
    BY <1>0, <1>1, <2>1 DEF AllIsPublished
  <2>4. clock >= 2 * Final => clock' >= 2 * Final
    BY <1>0, <1>1, <2>1
  <2> QED BY <2>1, <2>2, <2>3, <2>4 DEF AllIsPublished, Scanning
<1>5. CASE Publish
  BY <1>5, PublishedStays DEF Publish, AllIsPublished, Scanning
<1>6. CASE Boot
  <2>1. worker' = Idle /\ quality'.at = "wait" /\ UNCHANGED <<clock, published>>
    BY <1>6 DEF Boot, Down, Idle
  <2> QED BY <1>2, <2>1, PublishedStays DEF Scanning
<1>7. CASE Crash
  BY <1>2, <1>7, PublishedStays DEF Crash, Scanning
<1>8. CASE Plan
  <2>1. PICK k \in NextEvents : worker' = [Idle EXCEPT !.at = "sleep", !.kind = k, !.due = DueAt(k)]
    BY <1>8 DEF Plan
  <2>2. worker'.at = "sleep" /\ worker'.kind = k /\ worker'.due = DueAt(k)
    BY <2>1 DEF Idle
  <2>3. k = "final" => DueAt(k) >= 2 * Final
    <3>1. k = "final" => DueAt(k) >= At(k)
      BY <1>1, Schedule
    <3> QED BY <3>1 DEF At
  <2> QED BY <1>8, <2>2, <2>3, PublishedStays DEF Plan, Scanning, AllIsPublished
<1>9. ASSUME UNCHANGED <<clock, published, quality>>, worker'.at \in {"plan", "regular", "down"}
      PROVE  AllIsPublished'
  BY <1>9, PublishedStays DEF Scanning, AllIsPublished
<1>10. CASE StartRegular
  <2>1. worker'.at = "regular"
    BY <1>0, <1>10 DEF StartRegular, ScanRecord
  <2> QED BY <1>9, <1>10, <2>1 DEF StartRegular
<1>11. CASE CollectTarget
  <2>1. worker'.at = "regular"
    BY <1>0, <1>11 DEF CollectTarget, ScanRecord
  <2> QED BY <1>9, <1>11, <2>1 DEF CollectTarget
<1>12. CASE EndRegular
  BY <1>2, <1>9, <1>12 DEF EndRegular
<1>13. ASSUME UNCHANGED <<clock, published, quality>>, worker'.at = "scan", worker'.kind \in Openings
       PROVE  AllIsPublished'
  BY <1>1, <1>13, PublishedStays DEF Scanning, AllIsPublished
<1>14. ASSUME NEW k \in Openings, StartSlice(k)
       PROVE  AllIsPublished'
  <2>1. worker'.at = "scan" /\ worker'.kind = k /\ UNCHANGED <<clock, published, quality>>
    BY <1>0, <1>14 DEF StartSlice, ScanRecord, Awake
  <2> QED BY <1>13, <2>1
<1>15. ASSUME NEW k \in Openings, DeferSlice(k)
       PROVE  AllIsPublished'
  BY <1>2, <1>9, <1>15 DEF DeferSlice
<1>16. CASE ScanOpening
  <2>1. worker.kind \in Openings /\ worker.kind \in Kinds /\ UNCHANGED <<clock, published, quality>>
    BY <1>16 DEF ScanOpening, Kinds
  <2>2. Look(worker, worker') \/ Miss(worker, worker')
    BY <1>16 DEF ScanOpening
  <2>3. worker'.at = "scan" /\ worker'.kind = worker.kind
    <3>1. Look(worker, worker') => worker'.at = "scan" /\ worker'.kind = worker.kind
      BY <1>0, <2>1, LookStep
    <3>2. Miss(worker, worker') => worker'.at = "scan" /\ worker'.kind = worker.kind
      BY <1>0, MissStep
    <3> QED BY <2>2, <3>1, <3>2
  <2> QED BY <1>13, <2>1, <2>3
<1>17. CASE FinishSlice
  BY <1>2, <1>9, <1>17 DEF FinishSlice, EndSlice
<1>18. CASE AbortSlice
  BY <1>2, <1>9, <1>18 DEF AbortSlice
<1>19. CASE StartFinal
  <2>1. /\ UNCHANGED <<clock, published, quality>>
        /\ worker.at = "sleep" /\ worker.due <= clock /\ worker.kind = "final"
    BY <1>19 DEF StartFinal, Awake
  <2>2. clock >= 2 * Final
    <3>1. worker.due >= 2 * Final /\ worker.due \in Nat
      BY <1>0, <2>1 DEF AllIsPublished, ScanRecord
    <3> QED BY <1>0, <1>1, <2>1, <3>1
  <2>3. CASE worker' = [worker EXCEPT !.at = "enter"]
    <3>1. worker'.at = "enter" /\ worker'.kind = "final"
      BY <1>0, <2>1, <2>3 DEF ScanRecord
    <3> QED BY <2>1, <2>2, <3>1, PublishedStays DEF Scanning
  <2> QED BY <1>2, <1>9, <1>19, <2>1, <2>3 DEF StartFinal
<1>20. CASE ScanFinal
  <2>1. /\ worker.kind = "final" /\ UNCHANGED <<clock, published, quality>>
        /\ Enter(worker, "collection", worker') \/ Look(worker, worker') \/ Miss(worker, worker')
    BY <1>20 DEF ScanFinal
  <2>2. Scanning(worker) /\ worker'.at \in {"over", "scan"} /\ worker'.kind = "final"
    BY <1>0, <1>3, <2>1
  <2> QED BY <2>1, <2>2, PublishedStays DEF Scanning
<1>21. CASE FinishFinal
  BY <1>2, <1>9, <1>21 DEF FinishFinal
<1>22. CASE StartReport
  <2>1. quality'.at = "enter" /\ quality'.kind = "final" /\ clock >= 2 * Report /\ UNCHANGED <<clock, published, worker>>
    BY <1>0, <1>22 DEF StartReport, ScanRecord
  <2>2. clock >= 2 * Final
    BY <1>0, <1>1, <2>1
  <2> QED BY <2>1, <2>2, PublishedStays DEF Scanning, AllIsPublished
<1>23. CASE ScanAgain
  <2>1. /\ UNCHANGED <<clock, published, worker>>
        /\ Enter(quality, "quality", quality') \/ Look(quality, quality') \/ Miss(quality, quality')
    BY <1>23 DEF ScanAgain
  <2>2. Scanning(quality)
    BY <2>1 DEF Scanning, Enter, Look, Miss
  <2>3. quality.kind = "final" /\ clock >= 2 * Final
    BY <2>2 DEF AllIsPublished
  <2>4. quality'.kind = "final"
    BY <1>0, <1>3, <2>1, <2>3
  <2> QED BY <2>1, <2>3, <2>4, PublishedStays DEF Scanning, AllIsPublished
<1>24. CASE FinishAgain
  <2>1. quality.at = "scan" /\ quality'.kind = quality.kind /\ UNCHANGED <<clock, published, worker>>
    BY <1>0, <1>24 DEF FinishAgain, ScanRecord
  <2> QED BY <2>1, PublishedStays DEF Scanning, AllIsPublished
<1>25. CASE SaveReport \/ FailReport
  <2>1. quality'.at = "tomorrow" /\ UNCHANGED <<clock, published, worker>>
    BY <1>25 DEF SaveReport, FailReport, Down, Idle
  <2> QED BY <2>1, PublishedStays DEF Scanning, AllIsPublished
<1>26. CASE UNCHANGED collectionVars
  BY <1>26, PublishedStays DEF collectionVars, Scanning, AllIsPublished
<1> QED
  BY <1>4, <1>5, <1>6, <1>7, <1>8, <1>10, <1>11, <1>12, <1>14, <1>15, <1>16, <1>17, <1>18, <1>19,
     <1>20, <1>21, <1>22, <1>23, <1>24, <1>25, <1>26 DEF CollectionNext, Worker, Quality

\* What explains the gaps goes on to explain them when the rows grow and a
\* worker that gives up had a trouble.
LEMMA GapsStay ==
  ASSUME CollectionTypes, TroublesExplainGaps, rows \subseteq rows', Progress(worker)', Progress(quality)',
         completed' > 0 => Whole' \/ completed > 0,
         worker'.at = "over" => Whole' \/ worker.at = "over",
         troubles' \in {troubles, troubles + 1},
         \/ (WorkerGaveUp' => WorkerGaveUp) /\ (QualityGaveUp' => QualityGaveUp)
         \/ (WorkerGaveUp' => WorkerGaveUp) /\ troubles' = troubles + 1
         \/ (QualityGaveUp' => QualityGaveUp) /\ troubles' = troubles + 1
         \/ Whole'
  PROVE  TroublesExplainGaps'
<1>1. troubles \in Nat
  BY DEF CollectionTypes
<1>2. Whole => Whole'
  BY DEF Whole, AllTargets, AllBars
<1> HIDE DEF Whole, Progress, WorkerGaveUp, QualityGaveUp
<1> QED BY <1>1, <1>2 DEF TroublesExplainGaps

\* A worker that keeps its record keeps its progress.
LEMMA ProgressStays ==
  ASSUME TroublesExplainGaps, rows \subseteq rows'
  PROVE  /\ UNCHANGED worker => Progress(worker)'
         /\ UNCHANGED quality => Progress(quality)'
<1>1. \A t \in SUBSET AllTargets : t \X AllBars \subseteq rows => t \X AllBars \subseteq rows'
  OBVIOUS
<1>2. Progress(worker) /\ Progress(quality)
  BY DEF TroublesExplainGaps
<1> QED BY <1>1, <1>2 DEF Progress, Whole, AllTargets, AllBars

\* A look of a scan of the whole session leaves nothing missing at its target.
LEMMA WholeLook ==
  ASSUME CollectionTypes, RowsAreFinal, AllIsPublished, NEW s \in ScanRecord, s.kind = "final", NEW s2,
         Look(s, s2), UNCHANGED clock, clock >= 2 * Final
  PROVE  {Head(s.todo)} \X AllBars \subseteq rows'
<1> DEFINE target == Head(s.todo)
           missing == Missing(target, s.kind)
<1>1. \A b \in AllBars : <<target, b>> \in rows \/ b \in missing
  BY DEF Missing, Expected
<1>2. s.kind \in Kinds /\ target \in AllTargets
  <2>1. s.kind \in Kinds
    BY DEF Kinds
  <2> QED BY <2>1, LookStep
<1>3. \A b \in AllBars : Complete(b) /\ 2 * b <= clock
  <2>1. clock \in Nat /\ LastBar \in Nat /\ Close < 2 * Final /\ Final \in Nat /\ Close = 2 * (LastBar + 1)
    BY CollectionAssumption DEF CollectionTypes, Close
  <2> QED BY <2>1 DEF Complete, AllBars
<1>4. \A b \in AllBars : b \in Offered(target)
  <2> TAKE b \in AllBars
  <2>1. clock > 0
    <3>1. clock \in Nat /\ Close < 2 * Final /\ Close \in Nat /\ Final \in Nat
      BY CollectionAssumption, Schedule DEF CollectionTypes
    <3> QED BY <3>1
  <2>2. <<target, b>> \in AllTargets \X AllBars /\ <<target, b>>[2] = b
    BY <1>2
  <2>3. <<target, b>> \in published
    BY <1>3, <2>1, <2>2 DEF AllIsPublished
  <2> QED BY <2>3 DEF Offered
<1>5. rows \subseteq rows'
  BY <1>2, LookStep
<1>6. ASSUME NEW b \in AllBars PROVE <<target, b>> \in rows'
  <2>1. CASE missing = {}
    BY <1>1, <1>5, <2>1
  <2>2. CASE rows' = Stored(target, missing \cap Offered(target))
    BY <1>1, <1>3, <1>4, <1>5, <2>2 DEF Stored
  <2> QED BY <2>1, <2>2 DEF Look
<1> QED BY <1>6

\* One step of a scan of the whole session.
LEMMA WholeScan ==
  ASSUME CollectionTypes, RowsAreFinal, AllIsPublished, NEW s \in ScanRecord, s.kind = "final", NEW s2, NEW me,
         UNCHANGED clock, clock >= 2 * Final, completed > 0 => Whole, Progress(s),
         Enter(s, me, s2) \/ Look(s, s2) \/ Miss(s, s2)
  PROVE  /\ rows \subseteq rows' /\ s2.kind = "final"
         /\ s2.at = "scan" /\ s2.kind = "final" /\ ~s2.failed => (AllTargets \ ToSet(s2.todo)) \X AllBars \subseteq rows'
         /\ s2.at = "over" => Whole'
         /\ s2.failed = s.failed \/ Miss(s, s2)
<1>1. s.kind \in Kinds /\ Targets \in Seq(AllTargets) /\ AllTargets = ToSet(Targets) /\ s.todo \in Seq(AllTargets)
  BY CollectionAssumption DEF Kinds, AllTargets, ScanRecord
<1>2. CASE Enter(s, me, s2)
  <2>1. /\ s2.kind = s.kind /\ s2.failed = s.failed /\ UNCHANGED rows
        /\ \/ completed > 0 /\ s2.at = "over"
           \/ s2.at = "scan" /\ s2.todo = Targets
    BY <1>2, EnterStep
  <2> QED BY <1>1, <2>1 DEF Whole, AllTargets, AllBars
<1>3. CASE Look(s, s2)
  <2>1. /\ s.at = "scan" /\ s.todo # <<>> /\ s2.todo = Tail(s.todo) /\ s2.at = s.at /\ s2.kind = s.kind
        /\ s2.failed = s.failed /\ rows \subseteq rows'
    BY <1>1, <1>3, LookStep
  <2>2. {Head(s.todo)} \X AllBars \subseteq rows'
    BY <1>3, WholeLook
  <2>3. ToSet(s.todo) = {Head(s.todo)} \cup ToSet(Tail(s.todo))
    BY <1>1, <2>1, Lists
  <2>4. ~s.failed => (AllTargets \ ToSet(s.todo)) \X AllBars \subseteq rows
    BY <2>1 DEF Progress
  <2>5. ~s.failed => (AllTargets \ ToSet(Tail(s.todo))) \X AllBars \subseteq rows'
    BY <2>1, <2>2, <2>3, <2>4
  <2> QED BY <2>1, <2>5
<1>4. CASE Miss(s, s2)
  BY <1>4, MissStep
<1> QED BY <1>2, <1>3, <1>4

\* No step leaves a gap in the day without a trouble.
LEMMA TroublesExplainGapsStep ==
  ASSUME CollectionTypes, RowsAreFinal, AllIsPublished, TroublesExplainGaps, [CollectionNext]_collectionVars
  PROVE  TroublesExplainGaps'
<1>0. /\ clock \in Nat /\ worker \in ScanRecord /\ quality \in ScanRecord /\ troubles \in Nat /\ completed \in Nat
      /\ "final" \notin Openings /\ "final" \in Kinds
      /\ worker.kind = "final" => worker.kind \in Kinds
  BY CollectionAssumption DEF CollectionTypes, Kinds
<1>1. /\ Idle.at = "plan" /\ Idle.kind = "none" /\ Idle.failed = FALSE
      /\ Down.at = "down" /\ Down.kind = "none" /\ Down.failed = FALSE
  BY DEF Idle, Down
<1>2. Trouble => troubles' = troubles + 1
  BY DEF Trouble
<1>3. Progress(worker) /\ Progress(quality) /\ (worker.at = "over" => Whole) /\ (completed > 0 => Whole)
  BY DEF TroublesExplainGaps
<1>4. rows \subseteq rows' => (Whole => Whole')
  BY DEF Whole, AllTargets, AllBars
<1> HIDE DEF Whole
<1>5. ASSUME rows \subseteq rows', UNCHANGED <<completed, quality, reported>>,
             worker'.at # "over", worker'.at = "scan" => worker'.kind # "final",
             worker'.kind = "final" /\ worker'.failed => worker.kind = "final" /\ worker.failed,
             "final" \in done' => "final" \in done, troubles' \in {troubles, troubles + 1}
      PROVE  TroublesExplainGaps'
  <2>1. Progress(worker)' /\ Progress(quality)'
    BY <1>5, ProgressStays DEF Progress
  <2>2. (WorkerGaveUp' => WorkerGaveUp) /\ (QualityGaveUp' => QualityGaveUp)
    BY <1>5 DEF WorkerGaveUp, QualityGaveUp
  <2> QED BY <1>5, <2>1, <2>2, GapsStay
<1>6. ASSUME rows \subseteq rows', UNCHANGED <<completed, worker, quality, reported, done, troubles>>
      PROVE  TroublesExplainGaps'
  <2>1. Progress(worker)' /\ Progress(quality)'
    BY <1>6, ProgressStays
  <2>2. (WorkerGaveUp' => WorkerGaveUp) /\ (QualityGaveUp' => QualityGaveUp)
    BY <1>6 DEF WorkerGaveUp, QualityGaveUp
  <2> QED BY <1>6, <2>1, <2>2, GapsStay
<1>7. CASE Tick \/ Publish
  BY <1>6, <1>7 DEF Tick, Publish, database, memory
<1>8. ASSUME worker'.at \notin {"over", "scan"}, worker'.failed = FALSE,
             quality'.at \notin {"over", "scan"}, quality'.failed = FALSE,
             "final" \in done' => "final" \in done, UNCHANGED database, troubles' \in {troubles, troubles + 1}
      PROVE  TroublesExplainGaps'
  <2>1. Progress(worker)' /\ Progress(quality)'
    BY <1>8 DEF Progress
  <2>2. (WorkerGaveUp' => WorkerGaveUp) /\ (QualityGaveUp' => QualityGaveUp)
    BY <1>8 DEF WorkerGaveUp, QualityGaveUp, database
  <2> QED BY <1>8, <2>1, <2>2, GapsStay DEF database
<1>9. CASE Boot
  <2>1. worker' = Idle /\ quality'.at = "wait" /\ quality'.failed = FALSE /\ done' = {} /\ UNCHANGED database
    BY <1>9 DEF Boot, Down, Idle
  <2>2. troubles' = troubles \/ Trouble
    BY <1>9 DEF Boot
  <2> QED BY <1>1, <1>2, <1>8, <2>1, <2>2
<1>10. CASE Crash
  BY <1>1, <1>2, <1>8, <1>10 DEF Crash, memory
<1>11. CASE Plan
  <2>1. PICK k, d : worker' = [Idle EXCEPT !.at = "sleep", !.kind = k, !.due = d]
    BY <1>11 DEF Plan
  <2>2. worker'.at = "sleep" /\ worker'.failed = FALSE
    BY <2>1 DEF Idle
  <2> QED BY <1>5, <1>11, <2>2 DEF Plan, database, memory
<1>12. CASE StartRegular
  <2>1. worker'.at = "regular" /\ worker'.kind = worker.kind /\ worker'.failed = worker.failed
    BY <1>0, <1>12 DEF StartRegular, ScanRecord
  <2> QED BY <1>5, <1>12, <2>1 DEF StartRegular, database, memory
<1>13. CASE CollectTarget
  <2>1. worker'.at = "regular" /\ worker'.kind = worker.kind /\ worker'.failed = worker.failed
    BY <1>0, <1>13 DEF CollectTarget, ScanRecord
  <2>2. rows \subseteq rows'
    BY <1>13 DEF CollectTarget, Stored
  <2> QED BY <1>2, <1>5, <1>13, <2>1, <2>2 DEF CollectTarget, memory
<1>14. CASE EndRegular
  BY <1>1, <1>2, <1>5, <1>14 DEF EndRegular, database, memory
<1>15. ASSUME NEW k \in Openings, StartSlice(k)
       PROVE  TroublesExplainGaps'
  <2>1. worker'.at = "scan" /\ worker'.kind = k
    BY <1>0, <1>15 DEF StartSlice, ScanRecord, Awake
  <2>2. worker'.kind # "final"
    BY <1>0, <2>1
  <2> QED BY <1>5, <1>15, <2>1, <2>2 DEF StartSlice, database, memory
<1>16. ASSUME NEW k \in Openings, AfterSlice(k, TRUE), worker' = Idle, Trouble, UNCHANGED <<database, quality>>
       PROVE  TroublesExplainGaps'
  <2>1. UNCHANGED done
    BY <1>16, AfterSliceStep
  <2> QED BY <1>1, <1>2, <1>5, <1>16, <2>1 DEF database
<1>17. ASSUME NEW k \in Openings, DeferSlice(k)
       PROVE  TroublesExplainGaps'
  BY <1>16, <1>17 DEF DeferSlice
<1>18. CASE ScanOpening
  <2>1. /\ worker.kind \in Openings /\ worker.kind \in Kinds /\ UNCHANGED <<clock, completed, reported, memory, quality>>
        /\ (troubles' = troubles \/ Trouble)
    BY <1>18 DEF ScanOpening, Kinds
  <2>2. Look(worker, worker') \/ Miss(worker, worker')
    BY <1>18 DEF ScanOpening
  <2>3. worker'.at = "scan" /\ worker'.kind = worker.kind /\ rows \subseteq rows'
    <3>1. Look(worker, worker') => worker'.at = "scan" /\ worker'.kind = worker.kind /\ rows \subseteq rows'
      BY <1>0, <2>1, LookStep
    <3>2. Miss(worker, worker') => worker'.at = "scan" /\ worker'.kind = worker.kind /\ UNCHANGED rows
      BY <1>0, MissStep
    <3> QED BY <2>2, <3>1, <3>2
  <2>4. worker'.kind # "final"
    BY <1>0, <2>1, <2>3
  <2> QED BY <1>2, <1>5, <2>1, <2>3, <2>4 DEF memory
<1>19. CASE FinishSlice
  <2>1. PICK left : EndSlice(left)
    BY <1>19 DEF FinishSlice
  <2>2. worker.kind \in Openings /\ (left # NoTarget) \in BOOLEAN
    BY <1>19 DEF FinishSlice
  <2>3. done' \in {done, done \cup {worker.kind}}
    BY <2>1, <2>2, AfterSliceStep DEF EndSlice
  <2>4. "final" \in done' => "final" \in done
    BY <1>0, <2>2, <2>3
  <2> QED BY <1>1, <1>5, <2>1, <2>4 DEF EndSlice
<1>20. CASE AbortSlice
  BY <1>16, <1>20 DEF AbortSlice
<1>21. ASSUME worker' = Idle, UNCHANGED <<rows, quality, reported>>,
              \/ Trouble /\ UNCHANGED completed
              \/ troubles' = troubles /\ (Whole \/ (WorkerGaveUp /\ UNCHANGED completed))
       PROVE  TroublesExplainGaps'
  <2>1. Progress(worker)' /\ Progress(quality)'
    BY <1>1, <1>21, ProgressStays DEF Progress
  <2>2. QualityGaveUp' => QualityGaveUp
    BY <1>21 DEF QualityGaveUp
  <2>3. completed' > 0 => Whole' \/ completed > 0
    BY <1>4, <1>21
  <2>4. \/ WorkerGaveUp' => WorkerGaveUp
        \/ troubles' = troubles + 1
        \/ Whole'
    BY <1>2, <1>4, <1>21
  <2> QED BY <1>1, <1>2, <1>21, <2>1, <2>2, <2>3, <2>4, GapsStay
<1>22. CASE StartFinal
  <2>1. UNCHANGED <<database, quality>>
    BY <1>22 DEF StartFinal
  <2>2. CASE worker' = [worker EXCEPT !.at = "enter"] /\ UNCHANGED <<memory, troubles>>
    <3>1. worker'.at = "enter" /\ worker'.kind = worker.kind /\ worker'.failed = worker.failed
      BY <1>0, <2>2 DEF ScanRecord
    <3> QED BY <1>5, <2>1, <2>2, <3>1 DEF database, memory
  <2> QED BY <1>21, <1>22, <2>1, <2>2 DEF StartFinal, database
<1>23. CASE ScanFinal
  <2>1. /\ worker.kind = "final" /\ UNCHANGED <<clock, completed, reported, memory, quality>>
        /\ Enter(worker, "collection", worker') \/ Look(worker, worker') \/ Miss(worker, worker')
        /\ troubles' = troubles \/ Trouble
    BY <1>23 DEF ScanFinal
  <2>2. Miss(worker, worker') => Trouble \/ Enter(worker, "collection", worker') \/ Look(worker, worker')
    BY <1>23 DEF ScanFinal
  <2>3. Scanning(worker)
    BY <2>1 DEF Scanning, Enter, Look, Miss
  <2>4. clock >= 2 * Final
    BY <2>1, <2>3 DEF AllIsPublished
  <2>5. /\ rows \subseteq rows' /\ worker'.kind = "final"
        /\ worker'.at = "scan" /\ worker'.kind = "final" /\ ~worker'.failed =>
             (AllTargets \ ToSet(worker'.todo)) \X AllBars \subseteq rows'
        /\ worker'.at = "over" => Whole'
        /\ worker'.failed = worker.failed \/ Miss(worker, worker')
    BY <1>0, <1>3, <2>1, <2>4, WholeScan
  <2>6. Progress(worker)' /\ Progress(quality)'
    BY <2>1, <2>5, ProgressStays DEF Progress, AllTargets, AllBars
  <2>7. worker'.failed = worker.failed \/ Trouble
    <3>1. Enter(worker, "collection", worker') => worker'.failed = worker.failed
      BY <1>0, EnterStep
    <3>2. Look(worker, worker') => worker'.failed = worker.failed
      BY <1>0, <2>1, LookStep
    <3> QED BY <2>1, <2>2, <3>1, <3>2
  <2>8. QualityGaveUp' => QualityGaveUp
    BY <2>1 DEF QualityGaveUp
  <2>9. (WorkerGaveUp' => WorkerGaveUp) \/ troubles' = troubles + 1
    BY <1>2, <2>1, <2>5, <2>7 DEF WorkerGaveUp, memory
  <2> QED BY <1>2, <2>1, <2>5, <2>6, <2>8, <2>9, GapsStay
<1>24. ASSUME NEW s \in {worker, quality}, s.at = "scan", s.kind = "final", s.todo = <<>>
       PROVE  s.failed \/ Whole
  <2>1. ToSet(s.todo) = {}
    <3>1. ToSet(<<>>) = {}
      BY <1>0, Lists DEF ScanRecord
    <3> QED BY <1>24, <3>1
  <2>2. Progress(s)
    BY <1>3
  <2> QED BY <1>24, <2>1, <2>2 DEF Progress, Whole
<1>25. CASE FinishFinal
  <2>1. worker' = Idle /\ UNCHANGED <<rows, quality, reported>> /\ worker.kind = "final"
    BY <1>25 DEF FinishFinal
  <2>2. CASE worker.at = "over" /\ UNCHANGED <<completed, troubles>>
    BY <1>3, <1>21, <2>1, <2>2
  <2>3. CASE worker.at = "scan" /\ worker.todo = <<>> /\ completed' = Counts(worker) /\ UNCHANGED troubles
    <3>1. worker.failed \/ Whole
      BY <1>24, <2>1, <2>3
    <3>2. worker.failed => WorkerGaveUp /\ UNCHANGED completed
      BY <2>1, <2>3 DEF WorkerGaveUp, Counts
    <3> QED BY <1>21, <2>1, <2>3, <3>1, <3>2
  <2>4. CASE Trouble /\ UNCHANGED completed
    BY <1>21, <2>1, <2>4
  <2> QED BY <1>25, <2>2, <2>3, <2>4 DEF FinishFinal
<1>26. ASSUME rows \subseteq rows', UNCHANGED <<worker, done>>, Progress(quality)',
              completed' > 0 => Whole' \/ completed > 0,
              \/ Trouble
              \/ troubles' = troubles /\ (QualityGaveUp' => QualityGaveUp \/ Whole')
       PROVE  TroublesExplainGaps'
  <2>1. Progress(worker)' /\ (WorkerGaveUp' => WorkerGaveUp)
    BY <1>26, ProgressStays DEF WorkerGaveUp
  <2> QED BY <1>2, <1>26, <2>1, GapsStay
<1>27. CASE StartReport
  <2>1. quality'.at = "enter" /\ quality'.failed = quality.failed /\ UNCHANGED <<worker, done, troubles, rows, completed, reported>>
    BY <1>0, <1>27 DEF StartReport, ScanRecord, database, memory
  <2> QED BY <1>26, <2>1 DEF QualityGaveUp, Progress
<1>28. CASE ScanAgain
  <2>1. /\ UNCHANGED <<clock, completed, reported, worker, done>>
        /\ Enter(quality, "quality", quality') \/ Look(quality, quality') \/ Miss(quality, quality')
        /\ troubles' = troubles \/ Trouble
    BY <1>28 DEF ScanAgain, memory
  <2>2. Miss(quality, quality') => Trouble \/ Enter(quality, "quality", quality') \/ Look(quality, quality')
    BY <1>28 DEF ScanAgain
  <2>3. Scanning(quality)
    BY <2>1 DEF Scanning, Enter, Look, Miss
  <2>4. clock >= 2 * Final /\ quality.kind = "final"
    BY <2>3 DEF AllIsPublished
  <2>5. /\ rows \subseteq rows' /\ quality'.kind = "final"
        /\ quality'.at = "scan" /\ quality'.kind = "final" /\ ~quality'.failed =>
             (AllTargets \ ToSet(quality'.todo)) \X AllBars \subseteq rows'
        /\ quality'.at = "over" => Whole'
    BY <1>0, <1>3, <2>1, <2>4, WholeScan
  <2>6. Progress(quality)'
    BY <2>5 DEF Progress, AllTargets, AllBars
  <2>7. quality'.failed = quality.failed \/ Trouble
    <3>1. Enter(quality, "quality", quality') => quality'.failed = quality.failed
      BY <1>0, EnterStep
    <3>2. Look(quality, quality') => quality'.failed = quality.failed
      BY <1>0, <2>1, <2>4, LookStep
    <3> QED BY <2>1, <2>2, <3>1, <3>2
  <2>8. Trouble \/ (troubles' = troubles /\ (QualityGaveUp' => QualityGaveUp))
    BY <2>1, <2>7 DEF QualityGaveUp
  <2> QED BY <1>26, <2>1, <2>5, <2>6, <2>8
<1>29. CASE FinishAgain
  <2>1. /\ quality.at = "scan" /\ quality.todo = <<>> /\ completed' = Counts(quality)
        /\ quality'.at = "over" /\ quality'.failed = quality.failed
        /\ UNCHANGED <<rows, worker, done, reported, troubles>>
    BY <1>0, <1>29 DEF FinishAgain, ScanRecord, memory
  <2>2. quality.failed \/ Whole
    BY <1>24, <2>1 DEF AllIsPublished, Scanning
  <2>3. Whole => Whole'
    BY <1>4, <2>1
  <2>4. Progress(quality)'
    BY <2>1, <2>2, <2>3 DEF Progress
  <2>5. completed' > 0 => Whole' \/ completed > 0
    BY <2>1, <2>2, <2>3 DEF Counts
  <2> QED BY <1>26, <2>1, <2>4, <2>5 DEF QualityGaveUp
<1>30. CASE SaveReport
  <2>1. /\ quality.at = "over" /\ quality'.at = "tomorrow" /\ UNCHANGED <<rows, worker, done, completed, troubles>>
    BY <1>30 DEF SaveReport, Down, Idle, memory
  <2>2. Whole' \/ QualityGaveUp
    BY <1>3, <1>4, <2>1 DEF Progress, QualityGaveUp
  <2> QED BY <1>26, <2>1, <2>2 DEF Progress
<1>31. CASE FailReport
  <2>1. quality'.at = "tomorrow" /\ UNCHANGED <<rows, worker, done, completed>> /\ Trouble
    BY <1>31 DEF FailReport, Down, Idle, memory, database
  <2> QED BY <1>26, <2>1 DEF Progress
<1>32. CASE UNCHANGED collectionVars
  BY <1>6, <1>32 DEF collectionVars, database, memory
<1> QED
  BY <1>7, <1>9, <1>10, <1>11, <1>12, <1>13, <1>14, <1>15, <1>17, <1>18, <1>19, <1>20, <1>22, <1>23,
     <1>25, <1>27, <1>28, <1>29, <1>30, <1>31, <1>32 DEF CollectionNext, Worker, Quality

-----------------------------------------------------------------------------

\* All five parts of the invariant hold one another up.
LEMMA CollectionStep == CollectionInvariant /\ [CollectionNext]_collectionVars => CollectionInvariant'
<1> SUFFICES ASSUME CollectionInvariant, [CollectionNext]_collectionVars PROVE CollectionInvariant'
  OBVIOUS
<1>1. CollectionTypes' /\ RowsAreFinal'
  BY TypesKept DEF CollectionInvariant, AllIsPublished
<1>2. NothingIsForgotten' /\ SlicesKeepApart' /\ AllIsPublished' /\ TroublesExplainGaps'
  BY NothingIsForgottenStep, SlicesKeepApartStep, AllIsPublishedStep, TroublesExplainGapsStep
     DEF CollectionInvariant
<1> QED BY <1>1, <1>2 DEF CollectionInvariant

\* Before the first step nothing is collected and nothing is missing.
LEMMA CollectionStart == CollectionInit => CollectionInvariant
<1> SUFFICES ASSUME CollectionInit PROVE CollectionInvariant
  OBVIOUS
<1>1. /\ clock = 0 /\ published = {} /\ rows = {} /\ completed = 0 /\ reported = FALSE
      /\ saved = [k \in Openings |-> NoTarget] /\ resume = [k \in Openings |-> NoTarget]
      /\ worker = Down /\ quality = Down /\ done = {} /\ notBefore = [k \in Kinds |-> Never]
      /\ checked = [k \in Openings |-> {}] /\ sliceAt = Never /\ troubles = 0
  BY DEF CollectionInit
<1>2. Down.at = "down" /\ Down.kind = "none" /\ Down.failed = FALSE
  BY DEF Down, Idle
<1>3. Never \in Nat /\ Final \in Nat /\ Final > 0
  <2>1. Never \in Nat /\ Close \in Nat /\ Close < 2 * Final /\ Final \in Nat
    <3>1. Never = 2 * Report + 100 /\ Close = 2 * (LastBar + 1) /\ Report \in Nat /\ LastBar \in Nat
          /\ Close < 2 * Final /\ Final \in Nat
      BY CollectionAssumption DEF Never, Close
    <3> QED BY <3>1
  <2> QED BY <2>1
<1>4. Down \in ScanRecord
  <2>1. <<>> \in Seq(AllTargets)
    OBVIOUS
  <2> QED BY <2>1 DEF Down, Idle, ScanRecord, Stages
<1>5. NoTarget \in Seq(AllTargets)
  BY DEF NoTarget
<1>6. CollectionTypes
  BY <1>1, <1>3, <1>4, <1>5 DEF CollectionTypes
<1>7. RowsAreFinal /\ NothingIsForgotten /\ SlicesKeepApart
  BY <1>1, <1>2 DEF RowsAreFinal, NothingIsForgotten, ScanCoversTargets, SlicesKeepApart
<1>8. AllIsPublished
  BY <1>1, <1>2, <1>3 DEF AllIsPublished, Scanning
<1>9. TroublesExplainGaps
  BY <1>1, <1>2 DEF TroublesExplainGaps, Progress, WorkerGaveUp, QualityGaveUp
<1> QED BY <1>6, <1>7, <1>8, <1>9 DEF CollectionInvariant

\* No row is of a bar that was still in progress, whoever saved it, in a
\* regular read, a slice or a scan of the whole session.
THEOREM CandlesAreFinal == CollectionSpec => []RowsAreFinal
<1>1. CollectionInvariant => RowsAreFinal
  BY DEF CollectionInvariant
<1> QED BY <1>1, CollectionStart, CollectionStep, PTL DEF CollectionSpec

\* An opening scan that counts as done has looked after every target, whatever
\* its slices left to each other through failures and restarts.
THEOREM OpeningScansAreComplete == CollectionSpec => []ScanCoversTargets
<1>1. CollectionInvariant => ScanCoversTargets
  BY DEF CollectionInvariant, NothingIsForgotten
<1> QED BY <1>1, CollectionStart, CollectionStep, PTL DEF CollectionSpec

\* When both workers are through with the day and had one trouble between
\* them at most, nothing is missing.
THEOREM OneTroubleLosesNothing == CollectionSpec => []DayIsRecovered
<1>1. CollectionInvariant => DayIsRecovered
  <2> SUFFICES ASSUME CollectionInvariant, reported, "final" \in done, troubles <= 1
               PROVE  rows = AllTargets \X AllBars
    BY DEF DayIsRecovered
  <2>1. troubles \in Nat /\ rows \subseteq AllTargets \X AllBars
    BY DEF CollectionInvariant, CollectionTypes
  <2>2. WorkerGaveUp /\ QualityGaveUp
    BY DEF WorkerGaveUp, QualityGaveUp
  <2>3. Whole
    BY <2>1, <2>2 DEF CollectionInvariant, TroublesExplainGaps
  <2> QED BY <2>1, <2>3 DEF Whole
<1> QED BY <1>1, CollectionStart, CollectionStep, PTL DEF CollectionSpec

\* Between two slices of one process lies the time of a regular read.
THEOREM SlicesMakeRoom == CollectionSpec => OneSlicePerInterval
<1>1. CollectionInvariant /\ [CollectionNext]_collectionVars =>
        [sliceAt' # sliceAt /\ sliceAt # Never /\ sliceAt' # Never => sliceAt' \div 2 > sliceAt \div 2]_sliceAt
  BY SlicesKeepApartStep DEF CollectionInvariant
<1> QED BY <1>1, CollectionStart, CollectionStep, PTL DEF CollectionSpec, OneSlicePerInterval

(***************************************************************************)
(* The report on the collected bars (QualityReport)                        *)
(***************************************************************************)

-----------------------------------------------------------------------------
(* The report on the collected bars.                                         *)

Run == [kind : {"opening", "final"}, finished : Nat, received : Nat, expected : Nat,
        checked : BOOLEAN, complete : BOOLEAN, flawed : BOOLEAN,
        provided : SUBSET SessionBars, absent : SUBSET SessionBars]

\* The evidence is nothing, or what one of the rechecks found.
LEMMA EvidenceIsARun ==
  ASSUME rechecks \in Seq(Run), NEW asOf
  PROVE  Evidence(asOf) = <<>> \/ \E n \in DOMAIN rechecks : Evidence(asOf) = <<rechecks[n]>>
<1> DEFINE D == DOMAIN rechecks
           T == {<<>>} \cup {<<rechecks[n]>> : n \in D}
           After(n, t) == IF rechecks[n].finished <= asOf THEN Preferred(t, rechecks[n], asOf) ELSE t
           pick == [s \in SUBSET D |-> IF s = {} THEN {} ELSE Max(s)]
           step == [n \in D |-> [t \in T |-> After(n, t)]]
           Folds(g) == g = [s \in SUBSET D |-> IF s = {} THEN <<>>
                              ELSE LET x == Max(s)
                                   IN  IF rechecks[x].finished <= asOf
                                       THEN Preferred(g[s \ {x}], rechecks[x], asOf)
                                       ELSE g[s \ {x}]]
<1>1. D = 1..Len(rechecks) /\ Len(rechecks) \in Nat
  OBVIOUS
<1>2. IsFiniteSet(D) /\ D \subseteq Int
  BY <1>1, FS_Interval
<1>3. Picks(pick, D)
  <2>1. ASSUME NEW s \in SUBSET D, s # {} PROVE Max(s) \in s
    BY <1>2, <2>1, MaxInSet, FS_Subset
  <2> QED BY <2>1 DEF Picks
<1>5. \A n \in D, t \in T : After(n, t) \in T
  BY DEF Preferred
<1>4. step \in [D -> [T -> T]]
  <2> HIDE DEF After, T
  <2> QED BY <1>5
<1>6. PICK g \in [SUBSET D -> T] : Recurs(g, D, <<>>, pick, step)
  <2> DEFINE none == <<>>
  <2>1. none \in T
    OBVIOUS
  <2> HIDE DEF D, T, pick, step, none, Folds, After
  <2>2. \E g \in [SUBSET D -> T] : Recurs(g, D, none, pick, step)
    BY <1>2, <1>3, <1>4, <2>1, SetRecursion
  <2> QED BY <2>2 DEF none
<1>7. Folds(g)
  <2>1. ASSUME NEW s \in SUBSET D, s # {}
        PROVE  step[pick[s]][g[s \ {pick[s]}]] = After(Max(s), g[s \ {Max(s)}])
    <3>1. pick[s] = Max(s) /\ Max(s) \in D /\ g[s \ {Max(s)}] \in T
      BY <1>3, <2>1 DEF Picks
    <3> HIDE DEF pick, T, After
    <3> QED BY <3>1
  <2> DEFINE L(s) == IF s = {} THEN <<>> ELSE step[pick[s]][g[s \ {pick[s]}]]
             R(s) == IF s = {} THEN <<>> ELSE After(Max(s), g[s \ {Max(s)}])
  <2>2. \A s \in SUBSET D : L(s) = R(s)
    <3> HIDE DEF pick, step, After
    <3> QED BY <2>1
  <2>3. [s \in SUBSET D |-> L(s)] = [s \in SUBSET D |-> R(s)]
    <3> HIDE DEF L, R
    <3> QED BY <2>2
  <2>4. g = [s \in SUBSET D |-> L(s)]
    BY <1>6 DEF Recurs
  <2> QED BY <2>3, <2>4
<1>8. \E h : Evidence(asOf) = h[D] /\ Folds(h)
  BY <1>7 DEF Evidence, FoldLeft, MapThenFoldSet
<1>9. PICK h : Evidence(asOf) = h[D] /\ Folds(h)
  BY <1>8
<1> DEFINE good == {s \in SUBSET D : h[s] \in T}
<1>10. ASSUME NEW s \in SUBSET D, \A t \in SUBSET s : t # s => t \in good PROVE h[s] \in T
  <2> DEFINE R(t) == IF t = {} THEN <<>> ELSE After(Max(t), h[t \ {Max(t)}])
  <2>1. h = [t \in SUBSET D |-> R(t)]
    BY <1>9
  <2>2. h[s] = R(s)
    <3> HIDE DEF R
    <3> QED BY <2>1
  <2>3. CASE s = {}
    BY <2>2, <2>3
  <2>4. CASE s # {}
    <3>1. Max(s) \in s
      BY <1>3, <2>4 DEF Picks
    <3>2. s \ {Max(s)} \in good
      <4> HIDE DEF good
      <4> QED BY <1>10, <3>1
    <3>3. h[s \ {Max(s)}] \in T /\ Max(s) \in D
      BY <3>1, <3>2
    <3> QED BY <2>2, <2>4, <3>3, <1>5
  <2> QED BY <2>3, <2>4
<1>11. \A s \in SUBSET D : (\A t \in SUBSET s : t # s => t \in good) => s \in good
  BY <1>10
<1>12. D \in good
  <2> HIDE DEF good, D
  <2>1. \A s \in SUBSET D : s \in good
    BY <1>2, <1>11, SubsetInduction
  <2> QED BY <2>1
<1> QED BY <1>9, <1>12

\* Types, and what the latest report says is proven.
QualityInvariant ==
  /\ minute \in Nat /\ offered \subseteq SessionBars /\ rechecks \in Seq(Run)
  /\ draft.asOf \in Int
  /\ AbsenceIsProven

\* Later rechecks take nothing back.
LEMMA ProofsStay ==
  ASSUME QualityInvariant, UNCHANGED report, NEW run \in Run,
         rechecks' = rechecks \/ rechecks' = Append(rechecks, run)
  PROVE  AbsenceIsProven' /\ rechecks' \in Seq(Run)
<1>1. rechecks \in Seq(Run) /\ rechecks' \in Seq(Run)
  BY DEF QualityInvariant
<1>2. \A n \in DOMAIN rechecks : n \in DOMAIN rechecks' /\ rechecks'[n] = rechecks[n]
  BY <1>1
<1> QED BY <1>1, <1>2 DEF QualityInvariant, AbsenceIsProven

\* Every step keeps them.
LEMMA QualityStep == QualityInvariant /\ [QualityNext]_qualityVars => QualityInvariant'
<1> SUFFICES ASSUME QualityInvariant, [QualityNext]_qualityVars PROVE QualityInvariant'
  OBVIOUS
<1>0. /\ minute \in Nat /\ offered \subseteq SessionBars /\ rechecks \in Seq(Run)
      /\ draft.asOf \in Int
  BY DEF QualityInvariant
<1> DEFINE some == [kind |-> "final", finished |-> 0, received |-> 0, expected |-> 0, checked |-> FALSE,
                    complete |-> FALSE, flawed |-> FALSE, provided |-> {}, absent |-> {}]
<1>1. some \in Run
  BY DEF Run
<1>2. ASSUME UNCHANGED <<report, rechecks>> PROVE AbsenceIsProven'
  <2> HIDE DEF some
  <2> QED BY <1>1, <1>2, ProofsStay
<1>3. CASE Minute
  <2>1. UNCHANGED <<rechecks, draft, report>> /\ minute' \in Nat /\ offered' \subseteq SessionBars
    BY <1>0, <1>3 DEF Minute
  <2> QED BY <1>0, <1>2, <2>1 DEF QualityInvariant
<1>4. CASE Collect
  BY <1>0, <1>2, <1>4 DEF QualityInvariant, Collect
<1>5. ASSUME NEW kind \in {"opening", "final"}, NEW answer \in {"whole", "part", "failed"},
             NEW ahead \in 0..1, Recheck(kind, answer, ahead)
      PROVE  QualityInvariant'
  <2>1. PICK provided \in SUBSET SessionBars, absent \in SUBSET SessionBars, flawed \in BOOLEAN :
          rechecks' = Append(rechecks,
            [kind |-> kind, finished |-> minute, received |-> minute + ahead,
             expected |-> IF kind = "opening" THEN 1 ELSE ExpectedBars(minute),
             checked |-> answer # "failed", complete |-> answer = "whole" /\ kind = "final",
             flawed |-> flawed, provided |-> provided, absent |-> absent])
    <3> DEFINE sought == {i \in SessionBars : i <= minute /\ (kind = "opening" => i = 1)} \ DOMAIN stored
               provided == CASE answer = "whole" -> offered [] answer = "part" -> offered \ {1} [] OTHER -> {}
               final == kind = "final" /\ answer = "whole" /\ minute >= BarCount
               absent == IF final THEN sought \ provided ELSE {}
               flawed == answer = "failed"
                         \/ (answer = "part" /\ kind = "final" /\ ~(sought \subseteq provided))
    <3>1. provided \in SUBSET SessionBars /\ absent \in SUBSET SessionBars /\ flawed \in BOOLEAN
      BY <1>0
    <3>2. rechecks' = Append(rechecks,
            [kind |-> kind, finished |-> minute, received |-> minute + ahead,
             expected |-> IF kind = "opening" THEN 1 ELSE ExpectedBars(minute),
             checked |-> answer # "failed", complete |-> answer = "whole" /\ kind = "final",
             flawed |-> flawed, provided |-> provided, absent |-> absent])
      BY <1>5 DEF Recheck
    <3> HIDE DEF sought, provided, final, absent, flawed
    <3> QED BY <3>1, <3>2
  <2> DEFINE run == [kind |-> kind, finished |-> minute, received |-> minute + ahead,
             expected |-> IF kind = "opening" THEN 1 ELSE ExpectedBars(minute),
             checked |-> answer # "failed", complete |-> answer = "whole" /\ kind = "final",
             flawed |-> flawed, provided |-> provided, absent |-> absent]
  <2>2. run \in Run
    <3>1. ExpectedBars(minute) \in Nat /\ minute + ahead \in Nat
      BY <1>0, QualityAssumption DEF ExpectedBars
    <3> QED BY <1>0, <3>1 DEF Run
  <2>3. UNCHANGED <<minute, offered, draft, report>> /\ rechecks' = Append(rechecks, run)
    BY <1>5, <2>1 DEF Recheck
  <2> HIDE DEF run
  <2>4. AbsenceIsProven' /\ rechecks' \in Seq(Run)
    BY <2>2, <2>3, ProofsStay
  <2> QED BY <1>0, <2>3, <2>4 DEF QualityInvariant
<1>6. ASSUME NEW asOf \in 0..LastClock, ReadBars(asOf)
      PROVE  QualityInvariant'
  <2>1. UNCHANGED <<minute, offered, rechecks, report>> /\ draft'.asOf \in Int
    BY <1>6 DEF ReadBars
  <2> QED BY <1>0, <1>2, <2>1 DEF QualityInvariant
<1>7. CASE WriteReport
  <2> DEFINE asOf == draft.asOf
             basis == Evidence(asOf)
             gaps == Classified(draft.missing, basis, asOf)
  <2>1. /\ UNCHANGED <<minute, offered, rechecks>> /\ draft' = NoDraft
        /\ report'.asOf = asOf /\ report'.missing = draft.missing /\ report'.absent = gaps.absent
        /\ report'.completeness = Completeness(asOf, draft.missing, gaps)
    BY <1>7 DEF WriteReport
  <2>2. basis = <<>> \/ \E n \in DOMAIN rechecks : basis = <<rechecks[n]>>
    BY <1>0, EvidenceIsARun
  <2>3. /\ gaps.absent \subseteq draft.missing
        /\ gaps.gap \cup gaps.unverified = draft.missing \ gaps.absent
        /\ \A i \in gaps.absent : basis # <<>> /\ FinalEvidence(basis[1], asOf) /\ i \notin basis[1].provided
    <3> HIDE DEF basis, asOf
    <3> QED BY DEF Classified
  <2> HIDE DEF basis, gaps, asOf
  <2>4. ASSUME NEW i \in gaps.absent
        PROVE  \E n \in DOMAIN rechecks :
                 /\ rechecks[n].complete /\ rechecks[n].kind = "final"
                 /\ rechecks[n].received \in BarCount..asOf /\ i \notin rechecks[n].provided
    <3>1. PICK n \in DOMAIN rechecks : basis = <<rechecks[n]>>
      BY <2>2, <2>3
    <3>2. rechecks[n] \in Run
      BY <1>0
    <3>3. FinalEvidence(rechecks[n], asOf) /\ i \notin rechecks[n].provided
      BY <2>3, <3>1
    <3>4. asOf \in Int
      BY <1>0 DEF asOf
    <3> QED BY <3>2, <3>3, <3>4, QualityAssumption DEF FinalEvidence, Run
  <2>5. Completeness(asOf, draft.missing, gaps) = "PASS" => draft.missing = gaps.absent
    BY <2>3 DEF Completeness
  <2>6. AbsenceIsProven'
    BY <2>1, <2>4, <2>5 DEF AbsenceIsProven
  <2> QED BY <1>0, <2>1, <2>6 DEF QualityInvariant, NoDraft
<1>8. CASE UNCHANGED qualityVars
  BY <1>0, <1>2, <1>8 DEF qualityVars, QualityInvariant
<1> QED BY <1>3, <1>4, <1>5, <1>6, <1>7, <1>8 DEF QualityNext

\* What a report calls absent at the broker is proven by a whole answer of the
\* broker after the session, and a report passes only if nothing else is missing.
THEOREM AbsencesAreProven == QualitySpec => []AbsenceIsProven
<1>1. QualityInit => QualityInvariant
  BY DEF QualityInit, QualityInvariant, AbsenceIsProven, NoDraft
<1>2. QualityInvariant => AbsenceIsProven
  BY DEF QualityInvariant
<1> QED BY <1>1, <1>2, QualityStep, PTL DEF QualitySpec

(***************************************************************************)
(* Training samples (Samples)                                              *)
(***************************************************************************)

\* Each bar is there after its minute, and not before it is received.
Received(series) ==
  /\ series = [e \in DOMAIN series |-> series[e]]
  /\ \A e \in DOMAIN series : series[e] \in Nat /\ series[e] > e

MacroRecord == [event : Observed, marked : Nat, finished : Nat \cup {None}]

SampleInvariant ==
  /\ now \in Nat /\ DOMAIN stock \subseteq Events /\ DOMAIN index \subseteq Session
  /\ Received(stock) /\ Received(index)
  /\ IsFiniteSet(macros) /\ macros \subseteq MacroRecord /\ cycle \in Nat \cup {None}

-----------------------------------------------------------------------------
(* The moments of a snapshot.                                               *)

\* When a bar is predicted from: when it is complete and there.
LEMMA Predictions ==
  ASSUME SampleInvariant, NEW bar \in DOMAIN stock
  PROVE  /\ bar \in Nat /\ Prediction(bar) \in Nat
         /\ Prediction(bar) >= bar + 1 /\ Prediction(bar) >= stock[bar]
<1>1. bar \in Nat /\ stock[bar] \in Nat
  BY SampleAssumption DEF SampleInvariant, Received, Events
<1> DEFINE moments == {bar + 1, stock[bar]}
<1>2. moments \subseteq Int /\ IsFiniteSet(moments) /\ moments # {}
  <2>1. moments = {bar + 1} \cup {stock[bar]} /\ moments \subseteq Int
    BY <1>1
  <2>2. IsFiniteSet({bar + 1}) /\ IsFiniteSet({stock[bar]})
    BY FS_Singleton
  <2>3. IsFiniteSet({bar + 1} \cup {stock[bar]})
    BY <2>2, FS_Union
  <2> QED BY <2>1, <2>3
<1>3. Max(moments) \in moments /\ \A y \in moments : Max(moments) >= y
  <2> HIDE DEF moments
  <2> QED BY <1>2, MaxInSet
<1>4. Prediction(bar) = Max(moments)
  BY DEF Prediction
<1> DEFINE p == Max(moments)
<1>5. p \in moments /\ p >= bar + 1 /\ p >= stock[bar]
  BY <1>3
<1> HIDE DEF p, moments
<1>6. p \in Nat
  BY <1>1, <1>5 DEF moments
<1> QED BY <1>1, <1>4, <1>5, <1>6 DEF p

\* Nothing of the outcome was known: every bar is received after its minute,
\* and the path begins with the first one after the prediction.
LEMMA OutcomesAreLater == SampleInvariant => OutcomesWereUnknown
<1> SUFFICES ASSUME SampleInvariant, NEW bar \in DOMAIN stock, NEW h \in Labels(bar).executable,
                    NEW e \in Path(bar, h)
             PROVE  stock[e] > Prediction(bar)
  BY DEF OutcomesWereUnknown
<1>1. h \in Nat /\ Path(bar, h) \subseteq DOMAIN stock
  BY SampleAssumption DEF Labels
<1>2. Prediction(bar) \in Nat
  BY Predictions
<1>3. stock[e] \in Nat /\ stock[e] > e /\ e >= Prediction(bar) + 1 /\ e \in Nat
  BY <1>1, <1>2 DEF SampleInvariant, Received, Path, Entry
<1> QED BY <1>2, <1>3

\* What a snapshot is made of.
Moments ==
  {0} \cup {stock[e] : e \in DOMAIN stock} \cup {index[e] : e \in DOMAIN index}
      \cup {m.finished : m \in macros}

IsNewest == Moments \subseteq Int /\ AsOf \in Moments /\ \A y \in Moments : AsOf >= y

\* A snapshot is dated by the newest receipt in it.
LEMMA NewestMoment == SampleInvariant => IsNewest
<1> SUFFICES ASSUME SampleInvariant PROVE IsNewest
  OBVIOUS
<1>1. IsFiniteSet(Events) /\ IsFiniteSet(Session)
  BY SampleAssumption, FS_Interval DEF Events, Session
<1>2. IsFiniteSet(DOMAIN stock) /\ IsFiniteSet(DOMAIN index) /\ IsFiniteSet(macros)
  BY <1>1, FS_Subset DEF SampleInvariant
<1> DEFINE S == {stock[e] : e \in DOMAIN stock}
           I == {index[e] : e \in DOMAIN index}
           M == {m.finished : m \in macros}
<1>3. IsFiniteSet(S) /\ IsFiniteSet(I) /\ IsFiniteSet(M)
  <2>1. IsFiniteSet(S) /\ IsFiniteSet(I)
    BY <1>2, FiniteImage
  <2> DEFINE f == [m \in macros |-> m.finished]
  <2>2. IsFiniteSet({f[m] : m \in macros})
    <3> HIDE DEF f
    <3> QED BY <1>2, FiniteImage
  <2>3. {f[m] : m \in macros} = M
    OBVIOUS
  <2> QED BY <2>1, <2>2, <2>3
<1>4. S \subseteq Int /\ I \subseteq Int /\ M \subseteq Int
  BY DEF SampleInvariant, Received, None, MacroRecord
<1>5. Moments = {0} \cup S \cup I \cup M
  BY DEF Moments
<1>6. AsOf = Max(Moments)
  BY DEF AsOf, Moments
<1> HIDE DEF S, I, M
<1>7. IsFiniteSet(Moments) /\ Moments \subseteq Int /\ Moments # {}
  <2>1. IsFiniteSet({0})
    BY FS_Singleton
  <2>2. IsFiniteSet({0} \cup S)
    BY <1>3, <2>1, FS_Union
  <2>3. IsFiniteSet(({0} \cup S) \cup I)
    BY <1>3, <2>2, FS_Union
  <2>4. IsFiniteSet((({0} \cup S) \cup I) \cup M)
    BY <1>3, <2>3, FS_Union
  <2> QED BY <1>4, <1>5, <2>4
<1> QED BY <1>6, <1>7, MaxInSet DEF IsNewest

-----------------------------------------------------------------------------
(* What a step may change.                                                  *)

\* What a series becomes when bars come: they count as of now, and the others
\* stay as they came.
Extended(series, bars, all, new) ==
  /\ DOMAIN new = DOMAIN series \cup bars /\ DOMAIN new \subseteq all /\ Received(new)
  /\ \A e \in DOMAIN series : new[e] = series[e]
  /\ \A e \in DOMAIN new \ DOMAIN series : new[e] = now + 1

\* Bars that are due are received after their minutes.
LEMMA WithStep ==
  ASSUME now \in Nat, NEW series, Received(series), NEW all, DOMAIN series \subseteq all, all \subseteq Nat,
         NEW bars, bars \subseteq Due(series, all)
  PROVE  Extended(series, bars, all, With(series, bars))
<1> DEFINE new == With(series, bars)
<1>1. \A e \in bars : e \in all /\ e <= now
  BY DEF Due
<1>2. /\ DOMAIN new = DOMAIN series \cup bars
      /\ \A e \in DOMAIN new : new[e] = IF e \in DOMAIN series THEN series[e] ELSE now + 1
      /\ new = [e \in DOMAIN new |-> new[e]]
  BY DEF With
<1> HIDE DEF new
<1>3. \A e \in DOMAIN new : new[e] \in Nat /\ new[e] > e
  <2> TAKE e \in DOMAIN new
  <2>1. CASE e \in DOMAIN series
    BY <1>2, <2>1 DEF Received
  <2>2. CASE e \notin DOMAIN series
    <3>1. e \in Nat /\ e <= now
      BY <1>1, <1>2, <2>2
    <3> QED BY <1>2, <2>2, <3>1
  <2> QED BY <2>1, <2>2
<1>4. Received(new)
  BY <1>2, <1>3 DEF Received
<1>5. Extended(series, bars, all, new)
  BY <1>1, <1>2, <1>4 DEF Extended
<1> QED BY <1>5 DEF new

\* Later data never change the bars that are there, nor the macro rows.
Later ==
  /\ now' \in Nat /\ now' >= now
  /\ DOMAIN stock \subseteq DOMAIN stock' /\ \A e \in DOMAIN stock : stock'[e] = stock[e]
  /\ \A e \in DOMAIN stock' \ DOMAIN stock : stock'[e] > now
  /\ DOMAIN index \subseteq DOMAIN index' /\ \A e \in DOMAIN index : index'[e] = index[e]
  /\ MacroRows \subseteq MacroRows' /\ \A m \in MacroRows' \ MacroRows : m.available >= now
  /\ \A m \in macros : m.finished = None \/ \E r \in macros' : r.finished = m.finished

\* No step rewrites what was received.
LEMMA SampleStep == SampleInvariant /\ [SampleNext]_sampleVars => SampleInvariant' /\ Later
<1> SUFFICES ASSUME SampleInvariant, [SampleNext]_sampleVars PROVE SampleInvariant' /\ Later
  OBVIOUS
<1>0. /\ now \in Nat /\ DOMAIN stock \subseteq Events /\ DOMAIN index \subseteq Session
      /\ Received(stock) /\ Received(index) /\ IsFiniteSet(macros)
      /\ macros \subseteq MacroRecord /\ cycle \in Nat \cup {None}
      /\ Events \subseteq Nat /\ Session \subseteq Nat
  BY DEF SampleInvariant, Events, Session
<1>1. ASSUME UNCHANGED <<now, stock, index>>, IsFiniteSet(macros'), macros' \subseteq MacroRecord,
             cycle' \in Nat \cup {None},
             MacroRows \subseteq MacroRows', \A m \in MacroRows' \ MacroRows : m.available >= now,
             \A m \in macros : m.finished = None \/ \E r \in macros' : r.finished = m.finished
      PROVE  SampleInvariant' /\ Later
  BY <1>0, <1>1 DEF SampleInvariant, Later, Received
<1>2. ASSUME UNCHANGED <<now, stock, index, macros>>, cycle' \in Nat \cup {None} PROVE SampleInvariant' /\ Later
  <2>1. MacroRows' = MacroRows
    BY <1>2 DEF MacroRows
  <2> QED BY <1>0, <1>1, <1>2, <2>1
<1>3. ASSUME NEW bars \in SUBSET Due(stock, Events), NEW indices \in SUBSET Due(index, Session), Receive(bars, indices)
      PROVE  SampleInvariant' /\ Later
  <2>1. now' = now + 1 /\ stock' = With(stock, bars) /\ index' = With(index, indices) /\ UNCHANGED <<macros, cycle>>
    BY <1>3 DEF Receive
  <2>2. Extended(stock, bars, Events, stock')
    <3>1. Extended(stock, bars, Events, With(stock, bars))
      BY <1>0, WithStep
    <3> QED BY <2>1, <3>1
  <2>3. Extended(index, indices, Session, index')
    <3>1. Extended(index, indices, Session, With(index, indices))
      BY <1>0, WithStep
    <3> QED BY <2>1, <3>1
  <2>4. MacroRows' = MacroRows
    BY <2>1 DEF MacroRows
  <2>5. SampleInvariant'
    BY <1>0, <2>1, <2>2, <2>3 DEF SampleInvariant, Extended, Received, Events, Session
  <2>6. now' \in Nat /\ now' >= now /\ now + 1 > now
    BY <1>0, <2>1
  <2>7. Later
    BY <1>0, <2>1, <2>2, <2>3, <2>4, <2>6 DEF Later, Extended
  <2> QED BY <2>5, <2>7
<1>4. CASE BeginMacro
  BY <1>0, <1>2, <1>4 DEF BeginMacro
<1>5. CASE SaveMacro
  <2>1. PICK e \in Observed : macros' = macros \cup {[event |-> e, marked |-> cycle, finished |-> None]}
    BY <1>5 DEF SaveMacro
  <2>2. cycle \in Nat /\ UNCHANGED <<now, stock, index, cycle>>
    BY <1>0, <1>5 DEF SaveMacro
  <2> DEFINE row == [event |-> e, marked |-> cycle, finished |-> None]
  <2>3. row.finished = None /\ row \in MacroRecord
    BY <2>2 DEF MacroRecord
  <2>4. macros' = macros \cup {row}
    BY <2>1
  <2> HIDE DEF row
  <2>5. IsFiniteSet(macros') /\ macros' \subseteq MacroRecord
    BY <1>0, <2>3, <2>4, FS_AddElement
  <2>6. {r \in macros' : r.finished # None} = {r \in macros : r.finished # None}
    BY <2>3, <2>4
  <2>7. MacroRows' = MacroRows
    BY <2>6 DEF MacroRows
  <2> QED BY <1>0, <1>1, <2>2, <2>4, <2>5, <2>7
<1>6. CASE EndMacro
  <2> DEFINE f == [m \in macros |-> IF m.finished = None THEN [m EXCEPT !.finished = now] ELSE m]
  <2>1. macros' = {f[m] : m \in macros} /\ UNCHANGED <<now, stock, index>> /\ cycle' = None
    BY <1>6 DEF EndMacro
  <2>2. \A m \in macros : m.finished # None => f[m] = m
    OBVIOUS
  <2>3. ASSUME NEW m \in macros, m.finished = None PROVE f[m] \in MacroRecord /\ f[m].finished = now
    <3>1. f[m] = [m EXCEPT !.finished = now] /\ m \in MacroRecord
      BY <1>0, <2>3
    <3> HIDE DEF f
    <3> QED BY <1>0, <3>1 DEF MacroRecord
  <2> HIDE DEF f
  <2>4. IsFiniteSet(macros') /\ macros' \subseteq MacroRecord
    <3>1. \A m \in macros : f[m] \in MacroRecord
      BY <1>0, <2>2, <2>3
    <3> QED BY <1>0, <2>1, <3>1, FiniteImage
  <2>5. \A m \in macros : m.finished # None => m \in macros'
    BY <2>1, <2>2
  <2>6. \A r \in macros' : r.finished # None => r \in macros \/ r.finished = now
    BY <2>1, <2>2, <2>3
  <2>7. MacroRows \subseteq MacroRows'
    BY <2>5 DEF MacroRows
  <2>8. \A m \in MacroRows' \ MacroRows : m.available >= now
    <3> SUFFICES ASSUME NEW m \in MacroRows', m \notin MacroRows PROVE m.available >= now
      OBVIOUS
    <3>1. PICK r \in macros' : r.finished # None /\ m = [event |-> r.event, available |-> r.finished]
      BY DEF MacroRows
    <3>2. r \notin macros
      BY <3>1 DEF MacroRows
    <3> QED BY <1>0, <2>6, <3>1, <3>2
  <2> QED BY <1>1, <2>1, <2>4, <2>5, <2>7, <2>8
<1>7. CASE UNCHANGED sampleVars
  BY <1>0, <1>2, <1>7 DEF sampleVars
<1> QED BY <1>3, <1>4, <1>5, <1>6, <1>7 DEF SampleNext

-----------------------------------------------------------------------------
(* A sample that could be built can be built again.                         *)

\* The newest receipt never moves back.
LEMMA SnapshotsGrow ==
  ASSUME SampleInvariant, SampleInvariant', Later
  PROVE  AsOf' >= AsOf /\ AsOf \in Int /\ AsOf' \in Int
<1>1. AsOf \in Moments /\ Moments \subseteq Int /\ \A y \in Moments : AsOf >= y
  BY NewestMoment DEF IsNewest
<1>2. AsOf' \in Moments' /\ Moments' \subseteq Int /\ \A y \in Moments' : AsOf' >= y
  <2>1. IsNewest'
    BY NewestMoment, PTL
  <2> QED BY <2>1 DEF IsNewest
<1>3. AsOf >= 0
  BY <1>1 DEF Moments
<1>4. CASE AsOf = 0
  <2>1. AsOf \in Moments'
    BY <1>4 DEF Moments
  <2> QED BY <1>1, <1>2, <2>1
<1>5. ASSUME NEW e \in DOMAIN stock, AsOf = stock[e] PROVE AsOf \in Moments'
  <2>1. e \in DOMAIN stock' /\ stock'[e] = AsOf
    BY <1>5 DEF Later
  <2> QED BY <2>1 DEF Moments
<1>6. ASSUME NEW e \in DOMAIN index, AsOf = index[e] PROVE AsOf \in Moments'
  <2>1. e \in DOMAIN index' /\ index'[e] = AsOf
    BY <1>6 DEF Later
  <2> QED BY <2>1 DEF Moments
<1>7. ASSUME NEW m \in macros, AsOf = m.finished PROVE AsOf \in Moments'
  <2>1. m.finished # None
    BY <1>3, <1>7 DEF None
  <2>2. PICK r \in macros' : r.finished = m.finished
    BY <2>1 DEF Later
  <2> QED BY <1>7, <2>2 DEF Moments
<1>8. AsOf = 0 \/ AsOf \in Moments'
  BY <1>1, <1>5, <1>6, <1>7 DEF Moments
<1> QED BY <1>1, <1>2, <1>4, <1>8

\* A sample that was usable, and what a step makes of it.
Stays(bar) ==
  /\ Usable(bar)' /\ Features(bar)' = Features(bar)
  /\ Labels(bar).future \subseteq Labels(bar)'.future
  /\ Labels(bar).executable \subseteq Labels(bar)'.executable

\* What counted at the moment of the prediction is there, and nothing that
\* came since counts.
LEMMA LaterDataChangeNothing ==
  ASSUME SampleInvariant, SampleInvariant', Later,
         NEW bar \in DOMAIN stock, Usable(bar), Prediction(bar) < now
  PROVE  Stays(bar)
<1> DEFINE moment == Prediction(bar)
<1>1. bar \in DOMAIN stock' /\ stock'[bar] = stock[bar] /\ Prediction(bar)' = moment
  BY DEF Later, Prediction
<1>2. bar \in Nat /\ moment \in Nat
  BY Predictions
<1>3. now \in Nat /\ DOMAIN stock \subseteq DOMAIN stock' /\ DOMAIN index \subseteq DOMAIN index'
      /\ (\A e \in DOMAIN stock : stock'[e] = stock[e]) /\ (\A e \in DOMAIN index : index'[e] = index[e])
  BY DEF Later, SampleInvariant
<1>4. Usable(bar)'
  <2>1. /\ bar \in Session /\ ~(moment > bar + MaxDelay \/ moment >= End \/ moment > AsOf)
        /\ \A e \in Window(bar) : ~(e < 1 \/ e \notin DOMAIN stock)
        /\ \A e \in Window(bar) \cap DOMAIN stock : ~(stock[e] > moment)
        /\ \A e \in {bar - 1, bar} : ~(e \notin DOMAIN index \/ index[e] > moment)
    BY DEF Usable, Excluded
  <2>2. ~(moment > AsOf')
    <3> HIDE DEF moment
    <3> QED BY <1>2, <2>1, SnapshotsGrow
  <2>3. \A e \in Window(bar) : ~(e < 1 \/ e \notin DOMAIN stock')
    BY <1>3, <2>1
  <2>4. \A e \in Window(bar) \cap DOMAIN stock' : ~(stock'[e] > moment)
    <3> TAKE e \in Window(bar) \cap DOMAIN stock'
    <3>1. e \in Window(bar) \cap DOMAIN stock /\ stock'[e] = stock[e]
      BY <1>3, <2>1
    <3> QED BY <2>1, <3>1
  <2>5. \A e \in {bar - 1, bar} : ~(e \notin DOMAIN index' \/ index'[e] > moment)
    <3> TAKE e \in {bar - 1, bar}
    <3>1. e \in DOMAIN index /\ ~(index[e] > moment)
      BY <2>1
    <3>2. e \in DOMAIN index' /\ index'[e] = index[e]
      BY <1>3, <3>1
    <3> QED BY <3>1, <3>2
  <2> HIDE DEF moment
  <2>6. ~Excluded(bar)'
    BY <1>1, <2>1, <2>2, <2>3, <2>4, <2>5 DEF Excluded
  <2> QED BY <2>6 DEF Usable
<1>5. Features(bar)' = Features(bar)
  <2>1. Newest(moment)' = Newest(moment)
    <3>1. {m \in MacroRows' : m.available <= moment} = {m \in MacroRows : m.available <= moment}
      <4>1. ASSUME NEW m \in MacroRows', m.available <= moment PROVE m \in MacroRows
        <5>1. m \notin MacroRows => m.available >= now
          BY DEF Later
        <5>2. m \notin MacroRows => m.available \in Int
          <6>1. PICK r \in macros' : r.finished # None /\ m = [event |-> r.event, available |-> r.finished]
            BY DEF MacroRows
          <6>2. r \in MacroRecord
            BY DEF SampleInvariant
          <6>3. r.finished \in Nat
            BY <6>1, <6>2 DEF MacroRecord
          <6> QED BY <6>1, <6>3
        <5> HIDE DEF moment
        <5>3. moment < now
          BY DEF moment
        <5> QED BY <1>2, <1>3, <4>1, <5>1, <5>2, <5>3
      <4>2. MacroRows \subseteq MacroRows'
        BY DEF Later
      <4> HIDE DEF moment
      <4> QED BY <4>1, <4>2
    <3> DEFINE K == {m \in MacroRows : m.available <= moment}
               Kn == {m \in MacroRows' : m.available <= moment}
    <3>2. Newest(moment) = Max({None} \cup {m.event : m \in K}) /\ Newest(moment)' = Max({None} \cup {m.event : m \in Kn})
      BY <1>1 DEF Newest, None
    <3>3. Kn = K
      BY <3>1
    <3> HIDE DEF K, Kn
    <3> QED BY <3>2, <3>3
  <2>2. (1 \in DOMAIN stock /\ stock[1] <= moment) = (1 \in DOMAIN stock' /\ stock'[1] <= moment)
    <3>1. CASE 1 \in DOMAIN stock
      BY <1>3, <3>1
    <3>2. CASE 1 \notin DOMAIN stock /\ 1 \in DOMAIN stock'
      <4>1. stock'[1] > now /\ stock'[1] \in Nat
        BY <3>2 DEF Later, SampleInvariant, Received
      <4>2. moment < now
        OBVIOUS
      <4> HIDE DEF moment
      <4>3. ~(stock'[1] <= moment)
        BY <1>2, <1>3, <4>1, <4>2
      <4> QED BY <3>2, <4>3
    <3>3. CASE 1 \notin DOMAIN stock /\ 1 \notin DOMAIN stock'
      BY <3>3
    <3> QED BY <3>1, <3>2, <3>3
  <2> QED BY <1>1, <2>1, <2>2 DEF Features
<1>6. Labels(bar).future \subseteq Labels(bar)'.future
  BY <1>1, <1>3 DEF Labels
<1>7. Labels(bar).executable \subseteq Labels(bar)'.executable
  <2>1. Entry(bar)' = Entry(bar) /\ \A h : Path(bar, h)' = Path(bar, h)
    BY <1>1 DEF Entry, Path
  <2>2. Executable(bar) => Executable(bar)'
    BY <1>3, <2>1 DEF Executable
  <2> QED BY <1>3, <2>1, <2>2 DEF Labels
<1> QED BY <1>4, <1>5, <1>6, <1>7 DEF Stays

-----------------------------------------------------------------------------

\* The invariant holds in every snapshot.
LEMMA SampleCorrect == SampleSpec => []SampleInvariant
<1>1. SampleInit => SampleInvariant
  BY SampleAssumption, FS_EmptySet DEF SampleInit, SampleInvariant, Received, None
<1>2. SampleInvariant /\ [SampleNext]_sampleVars => SampleInvariant'
  BY SampleStep
<1> QED BY <1>1, <1>2, PTL DEF SampleSpec

\* Whatever is collected, and however late: nothing that a sample is judged by
\* was known when it was predicted (data_readiness.py:240-243, 325-343).
THEOREM OutcomesStayUnknown == SampleSpec => []OutcomesWereUnknown
<1> QED BY SampleCorrect, OutcomesAreLater, PTL

\* Whatever arrives later, a sample that could be built then can be built again,
\* with the same features and the labels it had (data_readiness.py:3, 119-134).
THEOREM SamplesStayFrozen == SampleSpec => SamplesAreFrozen
<1>1. SampleInvariant /\ SampleInvariant' /\ [SampleNext]_sampleVars
        => \A bar \in DOMAIN stock : Usable(bar) /\ Prediction(bar) < now => Stays(bar)
  BY SampleStep, LaterDataChangeNothing
<1>2. SampleInvariant /\ SampleInvariant' /\ [SampleNext]_sampleVars
        => [\A bar \in DOMAIN stock : Usable(bar) /\ Prediction(bar) < now =>
              /\ Usable(bar)' /\ Features(bar)' = Features(bar)
              /\ Labels(bar).future \subseteq Labels(bar)'.future
              /\ Labels(bar).executable \subseteq Labels(bar)'.executable]_sampleVars
  BY <1>1 DEF Stays
<1> QED BY <1>2, SampleCorrect, PTL DEF SampleSpec, SamplesAreFrozen

(***************************************************************************)
(* The replay of candles (Replay)                                          *)
(***************************************************************************)

-----------------------------------------------------------------------------
(* The replay of a stock                                                    *)

TradeRecord == [side : {"BUY", "SELL"}, bar : Nat, signal : Nat, fill : Nat, seen : Nat]
SignalRecord == [side : {"BUY", "SELL"}, at : Nat, bar : Nat]

\* Bars received are complete.
CompleteBy(bars, moment) ==
  DOMAIN bars \subseteq 0..LastEvent /\ \A e \in DOMAIN bars : e + 1 <= moment

\* What a trade shows by itself, and what it shows after the one before.
Causal(t) ==
  /\ t.bar + 1 <= t.signal /\ t.signal <= t.bar + 3
  /\ IF delayed THEN t.signal < t.fill /\ t.fill < t.seen ELSE t.signal = t.fill
  /\ Day(t.signal) = Day(t.fill)

Follows(before, t) == before.seen <= t.signal /\ before.fill < t.fill /\ before.side # t.side

History(past, moment) ==
  /\ past \in Seq(TradeRecord)
  /\ \A i \in 1..Len(past) : /\ Causal(past[i]) /\ past[i].fill <= past[i].seen /\ past[i].seen <= moment
                             /\ i > 1 => Follows(past[i - 1], past[i])

\* A signal rests on a bar that was complete and not stale, and on the position
\* the last trade left.
Rests(signal, past, moment) ==
  /\ signal \in SignalRecord /\ signal.at <= moment
  /\ signal.bar + 1 <= signal.at /\ signal.at <= signal.bar + 3
  /\ past # << >> => past[Len(past)].seen <= signal.at /\ past[Len(past)].side # signal.side

ReplayInvariant ==
  /\ delayed \in BOOLEAN /\ at \in Nat
  /\ \A s \in Stocks : CompleteBy(known[s], at) /\ History(trades[s], at)
  /\ \A s \in Stocks : pending[s] # NoSignal => delayed /\ Rests(pending[s], trades[s], at)

\* Later, the history is the same.
LEMMA HistoryKept ==
  ASSUME NEW past, NEW old \in Nat, NEW moment \in Nat, old <= moment, History(past, old)
  PROVE  History(past, moment)
<1>1. \A i \in 1..Len(past) : past[i] \in TradeRecord
  BY DEF History
<1>2. \A i \in 1..Len(past) : past[i].seen \in Nat
  BY <1>1 DEF TradeRecord
<1> QED BY <1>2 DEF History

\* A trade that follows the last one extends the history.
LEMMA HistoryExtended ==
  ASSUME NEW past, NEW moment \in Nat, History(past, moment),
         NEW t \in TradeRecord, Causal(t), t.fill <= t.seen, t.seen <= moment,
         past # << >> => Follows(past[Len(past)], t)
  PROVE  History(Append(past, t), moment)
<1>1. past \in Seq(TradeRecord) /\ Len(past) \in Nat
  BY DEF History
<1> DEFINE new == Append(past, t)
<1>2. /\ new \in Seq(TradeRecord) /\ Len(new) = Len(past) + 1
      /\ new[Len(past) + 1] = t /\ \A i \in 1..Len(past) : new[i] = past[i]
  BY <1>1
<1>3. Len(past) > 0 => past # << >>
  OBVIOUS
<1> HIDE DEF new
<1>4. ASSUME NEW i \in 1..Len(new)
      PROVE  /\ Causal(new[i]) /\ new[i].fill <= new[i].seen /\ new[i].seen <= moment
             /\ i > 1 => Follows(new[i - 1], new[i])
  <2>1. CASE i = Len(past) + 1
    <3>1. i > 1 => Follows(new[i - 1], t)
      <4> SUFFICES ASSUME i > 1 PROVE Follows(new[i - 1], t)
        OBVIOUS
      <4>1. i - 1 = Len(past) /\ Len(past) \in 1..Len(past)
        BY <1>1, <2>1
      <4>2. new[i - 1] = past[Len(past)] /\ past # << >>
        BY <1>2, <1>3, <4>1
      <4> QED BY <4>2
    <3>2. new[i] = t
      BY <1>2, <2>1
    <3> QED BY <3>1, <3>2
  <2>2. CASE i \in 1..Len(past)
    <3>1. new[i] = past[i] /\ (i > 1 => new[i - 1] = past[i - 1])
      BY <1>1, <1>2, <2>2
    <3>2. /\ Causal(past[i]) /\ past[i].fill <= past[i].seen /\ past[i].seen <= moment
          /\ i > 1 => Follows(past[i - 1], past[i])
      BY <2>2 DEF History
    <3> QED BY <3>1, <3>2
  <2> QED BY <1>1, <1>2, <2>1, <2>2
<1>5. History(new, moment)
  BY <1>2, <1>4 DEF History
<1> QED BY <1>5 DEF new

\* The history tells what the property says of it.
LEMMA HistoriesAreCausal == ReplayInvariant => TradesAreCausal
<1> SUFFICES ASSUME ReplayInvariant, NEW s \in Stocks, NEW i \in DOMAIN trades[s]
             PROVE  /\ Causal(trades[s][i])
                    /\ i > 1 => Follows(trades[s][i - 1], trades[s][i])
  BY DEF TradesAreCausal, Causal, Follows
<1>1. History(trades[s], at)
  BY DEF ReplayInvariant
<1>2. i \in 1..Len(trades[s])
  BY <1>1 DEF History
<1> QED BY <1>1, <1>2 DEF History

-----------------------------------------------------------------------------
(* A batch                                                                  *)

\* What a batch brings of a stock.
Brings(bars, moment) ==
  CompleteBy(bars, moment) /\ bars = [e \in DOMAIN bars |-> bars[e]]

\* Only complete bars arrive.
LEMMA ArrivalsAreComplete ==
  ASSUME NEW s, NEW moment \in Nat, NEW bars \in Arrivals(s, moment)
  PROVE  Brings(bars, moment)
<1>1. PICK events : events \subseteq {e \in 0..LastEvent : e + 1 <= moment} /\ bars \in [events -> BOOLEAN]
  BY DEF Arrivals, kSubset
<1> QED BY <1>1 DEF Brings, CompleteBy

\* Of finitely many bars there is an earliest and a latest.
LEMMA EndsOfBars ==
  ASSUME NEW D, D \subseteq 0..LastEvent, D # {}
  PROVE  Min(D) \in D /\ Max(D) \in D
<1>1. IsFiniteSet(0..LastEvent)
  BY ReplayAssumption, FS_Interval
<1>2. IsFiniteSet(D)
  BY <1>1, FS_Subset
<1>3. D \subseteq Int
  OBVIOUS
<1> QED BY <1>2, <1>3, MinInSet, MaxInSet

\* A signal that waits is filled in time, and leaves a history.
LEMMA FillsAreCausal ==
  ASSUME NEW s, NEW batch, NEW moment \in Nat, NEW allowed, Brings(batch, moment),
         NEW old \in Nat, old < moment, History(trades[s], old),
         pending[s] # NoSignal => delayed /\ Rests(pending[s], trades[s], old)
  PROVE  /\ History(Traded(s, batch, allowed, moment), moment)
         /\ ~Settled(s, batch) => Traded(s, batch, allowed, moment) = trades[s]
<1>1. History(trades[s], moment)
  BY HistoryKept
<1>2. ~Settled(s, batch) => FillsAt(s, batch) = {}
  BY DEF FillsAt
<1>3. ASSUME FillsAt(s, batch) # {} PROVE History(Append(trades[s], Trade(pending[s], Min(FillsAt(s, batch)), moment)), moment)
  <2> DEFINE f == Min(Settling(s, batch))
             p == pending[s]
             t == Trade(p, f, moment)
  <2>1. Settled(s, batch) /\ Day(f) = Day(p.at) /\ FillsAt(s, batch) = {f}
    BY <1>3 DEF FillsAt
  <2>2. f \in Settling(s, batch) /\ f \in Nat /\ f \in DOMAIN batch
    <3>1. Settling(s, batch) \subseteq DOMAIN batch /\ DOMAIN batch \subseteq 0..LastEvent /\ Settling(s, batch) # {}
      BY <2>1 DEF Settling, Settled, Brings, CompleteBy
    <3>2. f \in Settling(s, batch)
      BY <3>1, EndsOfBars
    <3> QED BY <3>1, <3>2
  <2>3. Min(FillsAt(s, batch)) = f
    <3> HIDE DEF f
    <3>1. IsFiniteSet({f})
      BY FS_Singleton
    <3>2. {f} \subseteq Int /\ {f} # {}
      BY <2>2
    <3>3. Min({f}) \in {f}
      BY <3>1, <3>2, MinInSet
    <3> QED BY <2>1, <3>3
  <2>4. InTime(p, f) /\ f + 1 <= moment
    BY <2>1, <2>2 DEF Settling, Brings, CompleteBy
  <2>5. delayed /\ Rests(p, trades[s], old)
    BY <2>1 DEF Settled
  <2> HIDE DEF f, p
  <2>6. p \in SignalRecord
    BY <2>5 DEF Rests
  <2>7. t \in TradeRecord /\ t.bar = p.bar /\ t.signal = p.at /\ t.fill = f /\ t.seen = moment /\ t.side = p.side
    BY <2>2, <2>6 DEF Trade, TradeRecord, SignalRecord
  <2> HIDE DEF t
  <2>8. p.at \in Nat /\ p.bar \in Nat
    BY <2>6 DEF SignalRecord
  <2>9. Causal(t) /\ t.fill <= t.seen /\ t.seen <= moment
    BY <2>1, <2>2, <2>4, <2>5, <2>7, <2>8 DEF Causal, InTime, Rests
  <2>10. ASSUME trades[s] # << >> PROVE Follows(trades[s][Len(trades[s])], t)
    <3> DEFINE l == trades[s][Len(trades[s])]
    <3>1. trades[s] \in Seq(TradeRecord) /\ Len(trades[s]) \in 1..Len(trades[s])
      BY <1>1, <2>10 DEF History
    <3>2. l \in TradeRecord /\ l.fill <= l.seen
      BY <1>1, <3>1 DEF History
    <3>3. l.seen <= p.at /\ l.side # p.side
      BY <2>5, <2>10 DEF Rests
    <3> HIDE DEF l
    <3>4. l.fill \in Nat /\ l.seen \in Nat
      BY <3>2 DEF TradeRecord
    <3>5. l.fill < t.fill
      BY <2>2, <2>4, <2>7, <2>8, <3>2, <3>3, <3>4 DEF InTime
    <3>6. Follows(l, t)
      BY <2>7, <3>3, <3>5 DEF Follows
    <3> QED BY <3>6 DEF l
  <2>11. History(Append(trades[s], t), moment)
    BY <1>1, <2>7, <2>9, <2>10, HistoryExtended
  <2> QED BY <2>3, <2>11 DEF t, p
<1> QED BY <1>1, <1>2, <1>3 DEF Traded

-----------------------------------------------------------------------------
(* A step                                                                   *)

\* Batches grow what is known, and bars stay complete.
LEMMA KnownBars ==
  ASSUME NEW old, NEW new, NEW before \in Nat, NEW moment \in Nat, before < moment,
         CompleteBy(old, before), Brings(new, moment)
  PROVE  CompleteBy(Merge(old, new), moment) /\ (new # << >> => DOMAIN Merge(old, new) # {})
<1>1. DOMAIN Merge(old, new) = DOMAIN old \cup DOMAIN new
  BY DEF Merge
<1>2. CompleteBy(Merge(old, new), moment)
  BY <1>1, ReplayAssumption DEF CompleteBy, Brings
<1>3. DOMAIN new = {} => new = << >>
  BY DEF Brings
<1> QED BY <1>1, <1>2, <1>3

\* A new signal rests on a bar that is complete and not stale, and on the
\* position there is.
LEMMA DecisionsAreCausal ==
  ASSUME NEW moment \in Nat, NEW past, History(past, moment), NEW bars, NEW batch,
         CompleteBy(bars, moment), DOMAIN bars # {}, Fresh(bars, batch, moment), NEW side \in Wants(past)
  PROVE  Rests(Signal(side, moment, Max(DOMAIN bars)), past, moment)
<1> DEFINE latest == Max(DOMAIN bars)
           signal == Signal(side, moment, latest)
<1>1. latest \in 0..LastEvent /\ latest + 1 <= moment
  BY EndsOfBars DEF CompleteBy
<1>2. moment - (latest + 1) <= 2
  BY DEF Fresh
<1>3. side \in {"BUY", "SELL"} /\ (past # << >> => side = IF Holds(past) THEN "SELL" ELSE "BUY")
  BY DEF Wants
<1> HIDE DEF latest
<1>4. latest \in Nat
  BY <1>1, ReplayAssumption
<1>5. signal \in SignalRecord /\ signal.at = moment /\ signal.bar = latest /\ signal.side = side
  BY <1>3, <1>4 DEF Signal, SignalRecord
<1>6. ASSUME past # << >> PROVE past[Len(past)].seen <= moment /\ past[Len(past)].side # side
  <2>1. Len(past) \in 1..Len(past)
    BY <1>6 DEF History
  <2>2. past[Len(past)] \in TradeRecord /\ past[Len(past)].seen <= moment
    BY <2>1 DEF History
  <2>3. Holds(past) <=> past[Len(past)].side = "BUY"
    BY <1>6 DEF Holds
  <2> QED BY <1>3, <1>6, <2>2, <2>3 DEF TradeRecord
<1> HIDE DEF signal
<1>7. Rests(signal, past, moment)
  BY <1>1, <1>2, <1>4, <1>5, <1>6 DEF Rests
<1> QED BY <1>7 DEF signal, latest

\* What rests on the present moment can be traded at once.
LEMMA OrdersAreCausal ==
  ASSUME NEW moment \in Nat, NEW past, History(past, moment), ~delayed,
         NEW signal, Rests(signal, past, moment), signal.at = moment,
         past # << >> => past[Len(past)].fill < moment
  PROVE  History(Append(past, Trade(signal, moment, moment)), moment)
<1> DEFINE t == Trade(signal, moment, moment)
<1>1. signal \in SignalRecord
  BY DEF Rests
<1>2. t \in TradeRecord /\ t.bar = signal.bar /\ t.signal = moment /\ t.fill = moment /\ t.seen = moment /\ t.side = signal.side
  BY <1>1 DEF Trade, TradeRecord, SignalRecord
<1> HIDE DEF t
<1>3. Causal(t) /\ t.fill <= t.seen /\ t.seen <= moment
  BY <1>2 DEF Causal, Rests
<1>4. past # << >> => Follows(past[Len(past)], t)
  BY <1>2 DEF Follows, Rests
<1>5. History(Append(past, t), moment)
  BY <1>2, <1>3, <1>4, HistoryExtended
<1> QED BY <1>5 DEF t

\* Fills, expiry and a decision, one after the other, stock by stock.
LEMMA ReplayStep == ReplayInvariant /\ [ReplayNext]_replayVars => ReplayInvariant'
<1> SUFFICES ASSUME ReplayInvariant, [ReplayNext]_replayVars PROVE ReplayInvariant'
  OBVIOUS
<1>1. CASE UNCHANGED replayVars
  BY <1>1 DEF replayVars, ReplayInvariant, CompleteBy, History, Rests, Causal, Follows
<1>2. ASSUME NEW moment \in 1..LastBatch,
             NEW batch \in {f \in [Stocks -> UNION {Arrivals(s, moment) : s \in Stocks}] :
                              \A s \in Stocks : f[s] \in Arrivals(s, moment)},
             NEW allowed \in [Stocks -> BOOLEAN], NEW orders \in [Stocks -> BOOLEAN],
             Batch(moment, batch, allowed, orders)
      PROVE  ReplayInvariant'
  <2>1. moment \in Nat /\ at \in Nat /\ at < moment /\ at' = moment /\ delayed' = delayed /\ delayed \in BOOLEAN
    BY <1>2, ReplayAssumption DEF Batch, ReplayInvariant
  <2>2. ASSUME NEW s \in Stocks
        PROVE  /\ CompleteBy(known'[s], moment) /\ History(trades'[s], moment)
               /\ pending'[s] # NoSignal => delayed /\ Rests(pending'[s], trades'[s], moment)
    <3> DEFINE past == Traded(s, batch[s], allowed[s], moment)
               left == Waiting(s, batch[s], moment)
               bars == Merge(known[s], batch[s])
               sides == IF orders[s] /\ Fresh(bars, batch[s], moment) THEN Wants(past) ELSE {}
               new == Signal(CHOOSE d \in sides : TRUE, moment, Max(DOMAIN bars))
    <3>1. /\ known'[s] = bars
          /\ pending'[s] = IF sides # {} /\ left = NoSignal /\ delayed THEN new ELSE left
          /\ trades'[s] = IF sides # {} /\ ~delayed THEN Append(past, Trade(new, moment, moment)) ELSE past
      BY <1>2 DEF Batch
    <3>2. Brings(batch[s], moment)
      BY <2>1, ArrivalsAreComplete
    <3>3. CompleteBy(known[s], at) /\ History(trades[s], at)
          /\ (pending[s] # NoSignal => delayed /\ Rests(pending[s], trades[s], at))
      BY DEF ReplayInvariant
    <3>4. CompleteBy(bars, moment) /\ (batch[s] # << >> => DOMAIN bars # {})
      BY <2>1, <3>2, <3>3, KnownBars
    <3>5. History(past, moment) /\ (~Settled(s, batch[s]) => past = trades[s])
      BY <2>1, <3>2, <3>3, FillsAreCausal
    <3>6. ASSUME left # NoSignal PROVE left = pending[s] /\ delayed /\ Rests(left, past, moment)
      <4>1. ~Settled(s, batch[s]) /\ left = pending[s]
        BY <3>6 DEF Waiting
      <4>2. delayed /\ Rests(left, past, at)
        BY <3>3, <3>5, <3>6, <4>1
      <4>3. left.at \in Nat
        BY <4>2 DEF Rests, SignalRecord
      <4> HIDE DEF left, past
      <4>4. Rests(left, past, moment)
        BY <2>1, <4>2, <4>3 DEF Rests
      <4> QED BY <4>1, <4>2, <4>4
    <3>7. ASSUME sides # {} PROVE Rests(new, past, moment) /\ new.at = moment
      <4> DEFINE side == CHOOSE d \in sides : TRUE
      <4>1. side \in sides
        <5> HIDE DEF sides
        <5> QED BY <3>7
      <4>2. Fresh(bars, batch[s], moment) /\ side \in Wants(past)
        <5> HIDE DEF side
        <5> QED BY <4>1
      <4>3. batch[s] # << >>
        BY <4>2 DEF Fresh
      <4>4. new = Signal(side, moment, Max(DOMAIN bars))
        OBVIOUS
      <4> HIDE DEF side, new, past, bars, sides
      <4>5. Rests(Signal(side, moment, Max(DOMAIN bars)), past, moment)
        BY <2>1, <3>4, <3>5, <4>2, <4>3, DecisionsAreCausal
      <4> QED BY <4>4, <4>5 DEF Signal
    <3>8. ASSUME ~delayed PROVE left = NoSignal /\ past = trades[s]
      <4>1. pending[s] = NoSignal
        BY <3>3, <3>8
      <4> QED BY <3>5, <4>1 DEF Waiting, Settled
    <3>9. ASSUME sides # {}, ~delayed PROVE History(Append(past, Trade(new, moment, moment)), moment)
      <4>1. past # << >> => past[Len(past)].fill < moment
        <5> SUFFICES ASSUME past # << >> PROVE past[Len(past)].fill < moment
          OBVIOUS
        <5>1. past = trades[s]
          BY <3>8, <3>9
        <5> HIDE DEF past
        <5>2. trades[s] \in Seq(TradeRecord) /\ Len(trades[s]) \in 1..Len(trades[s])
          BY <3>3, <5>1 DEF History
        <5>3. trades[s][Len(trades[s])] \in TradeRecord
          BY <5>2
        <5>4. /\ trades[s][Len(trades[s])].fill <= trades[s][Len(trades[s])].seen
              /\ trades[s][Len(trades[s])].seen <= at
          BY <3>3, <5>2 DEF History
        <5> QED BY <2>1, <5>1, <5>3, <5>4 DEF TradeRecord
      <4>2. Rests(new, past, moment) /\ new.at = moment
        BY <3>7, <3>9
      <4> HIDE DEF new, past
      <4> QED BY <2>1, <3>5, <3>9, <4>1, <4>2, OrdersAreCausal
    <3> HIDE DEF past, left, bars, sides, new
    <3>10. CompleteBy(known'[s], moment)
      BY <3>1, <3>4
    <3>11. CASE sides # {} /\ delayed
      <4>1. trades'[s] = past /\ (pending'[s] = new \/ pending'[s] = left)
        BY <3>1, <3>11
      <4> QED BY <3>5, <3>6, <3>7, <3>10, <3>11, <4>1
    <3>12. CASE sides # {} /\ ~delayed
      <4>1. trades'[s] = Append(past, Trade(new, moment, moment)) /\ pending'[s] = NoSignal
        BY <3>1, <3>8, <3>12
      <4> QED BY <3>9, <3>10, <3>12, <4>1
    <3>13. CASE sides = {}
      <4>1. trades'[s] = past /\ pending'[s] = left
        BY <3>1, <3>13
      <4> QED BY <3>5, <3>6, <3>10, <4>1
    <3> QED BY <3>11, <3>12, <3>13
  <2>3. ASSUME NEW s \in Stocks
        PROVE  /\ CompleteBy(known[s], at)' /\ History(trades[s], at)'
               /\ pending'[s] # NoSignal => delayed' /\ Rests(pending[s], trades[s], at)'
    BY <2>1, <2>2 DEF CompleteBy, History, Rests, Causal, Follows
  <2> QED BY <2>1, <2>3 DEF ReplayInvariant
<1> QED BY <1>1, <1>2 DEF ReplayNext

-----------------------------------------------------------------------------

\* The invariant holds in every replay.
LEMMA ReplayCorrect == ReplaySpec => []ReplayInvariant
<1>1. ReplayInit => ReplayInvariant
  <2> SUFFICES ASSUME ReplayInit PROVE ReplayInvariant
    OBVIOUS
  <2>1. delayed \in BOOLEAN /\ at = 0 /\ at \in Nat
        /\ \A s \in Stocks : known[s] = << >> /\ pending[s] = NoSignal /\ trades[s] = << >>
    BY DEF ReplayInit
  <2>2. \A s \in Stocks : CompleteBy(known[s], at)
    BY <2>1 DEF CompleteBy
  <2>3. \A s \in Stocks : History(trades[s], at)
    <3>1. << >> \in Seq(TradeRecord) /\ \A i \in 1..Len(<< >>) : FALSE
      OBVIOUS
    <3>2. History(<< >>, at)
      BY <3>1 DEF History
    <3> QED BY <2>1, <3>2
  <2> QED BY <2>1, <2>2, <2>3 DEF ReplayInvariant
<1>2. ReplayInvariant /\ [ReplayNext]_replayVars => ReplayInvariant'
  BY ReplayStep
<1> QED BY <1>1, <1>2, PTL DEF ReplaySpec

\* However late and out of order bars come, for any number of stocks and any
\* session: a replay trades on what was known, in turn (backtest.py:138-189).
THEOREM ReplaysAreCausal == ReplaySpec => []TradesAreCausal
<1> QED BY ReplayCorrect, HistoriesAreCausal, PTL

(***************************************************************************)
(* The macro context (MacroContext)                                        *)
(***************************************************************************)

\* What a collection has in hand.
Answers == UNION {[b -> Levels] : b \in SUBSET Batched}

\* What is still to be stored in the collection that runs.
Unheard == round.ask \cup DOMAIN round.save

\* Each collection begins later than those before it, so that it brings at most
\* one version of an indicator, and all versions count as known from before.
MacroInvariant ==
  /\ time \in 0..LastTime /\ due \in Int
  /\ says \in [Indicators -> Levels] /\ heard \in [Indicators -> Levels \cup {Nothing}]
  /\ \A r \in versions : r.available \in Nat /\ r.available <= time
  /\ round \in [start : Int, ask : SUBSET Indicators, save : Answers, errors : SUBSET Indicators, stored : Int]
  /\ IF round = NoRound THEN \A r \in versions : r.available < due
     ELSE /\ round.start \in Nat /\ round.start <= time
          /\ DOMAIN round.save # {} => round.ask = {}
          /\ \A r \in versions : /\ r.available <= round.start
                                 /\ r.indicator \in Unheard => r.available < round.start

-----------------------------------------------------------------------------
\* The next time of collection is later than now.
LEMMA NextSlotIsLater ==
  ASSUME time \in 0..LastTime
  PROVE  NextSlot \in Int /\ NextSlot > time
<1> DEFINE later == {s \in Slots : s > time}
<1>1. later \subseteq Int /\ IsFiniteSet(later) /\ LastTime \in Nat
  <2>1. later \subseteq Slots /\ Slots \subseteq Int /\ IsFiniteSet(Slots) /\ LastTime \in Nat
    BY MacroAssumption
  <2> HIDE DEF later
  <2> QED BY <2>1, FS_Subset
<1>2. NextSlot = IF later = {} THEN LastTime + 1 ELSE Min(later)
  BY DEF NextSlot
<1>3. later # {} => Min(later) \in later
  BY <1>1, MinInSet
<1>4. later # {} => Min(later) \in Int /\ Min(later) > time
  BY <1>1, <1>3
<1> HIDE DEF later
<1> QED BY <1>1, <1>2, <1>4

\* What one answer does to the versions: a new value is known from the
\* beginning of the collection, and nothing else changes.
LEMMA StoreStep ==
  ASSUME MacroInvariant, round # NoRound, NEW i \in Unheard, NEW v, Store(i, v), UNCHANGED time
  PROVE  /\ \A r \in versions' : r \in versions \/ (r.indicator = i /\ r.available = round.start)
         /\ versions \subseteq versions'
         /\ \A j \in Indicators, t \in Int : t < round.start => Version(j, t)' = Version(j, t)
         /\ heard' = [heard EXCEPT ![i] = v]
         /\ New(i, v) => Version(i, time)' = v
<1>0. /\ round.start \in Nat /\ round.start <= time /\ time \in Nat
      /\ \A r \in versions : /\ r.available \in Nat
                             /\ r.available <= round.start
                             /\ r.indicator \in Unheard => r.available < round.start
  BY DEF MacroInvariant
<1> DEFINE row == [indicator |-> i, value |-> v, available |-> round.start]
<1>1. versions' = IF New(i, v) THEN versions \cup {row} ELSE versions
  BY DEF Store, KnownFrom
<1>2. row.indicator = i /\ row.available = round.start /\ row.value = v
  OBVIOUS
<1> HIDE DEF row
<1>3. ASSUME NEW j \in Indicators, NEW t \in Int, t < round.start
      PROVE  Version(j, t)' = Version(j, t)
  <2>1. {r \in versions' : r.indicator = j /\ r.available <= t} = {r \in versions : r.indicator = j /\ r.available <= t}
    BY <1>0, <1>1, <1>2, <1>3
  <2> DEFINE In(sets) == IF sets = {} THEN Nothing
                          ELSE (CHOOSE r \in sets : \A q \in sets : q.available <= r.available).value
  <2>2. Version(j, t) = In({r \in versions : r.indicator = j /\ r.available <= t})
    BY Zenon DEF Version
  <2>3. Version(j, t)' = In({r \in versions' : r.indicator = j /\ r.available <= t})
    BY Zenon DEF Version
  <2> HIDE DEF In
  <2> QED BY <2>1, <2>2, <2>3
<1>4. ASSUME New(i, v) PROVE Version(i, time)' = v
  <2> DEFINE sets == {r \in versions' : r.indicator = i /\ r.available <= time}
             Chosen(r) == \A q \in sets : q.available <= r.available
  <2>1. row \in sets
    BY <1>0, <1>1, <1>2, <1>4
  <2>2. \A q \in sets : q = row \/ q.available < row.available
    BY <1>0, <1>1, <1>2
  <2>3. \A q \in sets : q.available \in Nat
    BY <1>0, <1>1, <1>2
  <2>4. Chosen(row)
    BY <2>1, <2>2, <2>3
  <2>5. \A r \in sets : Chosen(r) => r = row
    BY <2>1, <2>2, <2>3
  <2>6. (CHOOSE r \in sets : Chosen(r)) = row
    <3> HIDE DEF sets, Chosen
    <3> QED BY <2>1, <2>4, <2>5
  <2>7. Version(i, time)' = IF sets = {} THEN Nothing ELSE (CHOOSE r \in sets : Chosen(r)).value
    BY DEF Version
  <2> HIDE DEF sets, Chosen
  <2> QED BY <1>2, <2>1, <2>6, <2>7
<1>5. heard' = [heard EXCEPT ![i] = v]
  BY DEF Store
<1> QED BY <1>1, <1>2, <1>3, <1>4, <1>5

\* The rest of the invariant after one answer.
LEMMA AnswerStep ==
  ASSUME MacroInvariant, round # NoRound, NEW i \in Unheard, NEW v \in Levels,
         Store(i, v) \/ UNCHANGED <<versions, heard>>, UNCHANGED <<time, due, says>>,
         round' \in [start : Int, ask : SUBSET Indicators, save : Answers, errors : SUBSET Indicators, stored : Int],
         round'.start = round.start, Unheard' \subseteq Unheard \ {i}, i \in Indicators,
         DOMAIN round'.save # {} => round'.ask = {}
  PROVE  MacroInvariant'
<1>1. round.start \in Nat /\ NoRound.start = -1
  BY DEF MacroInvariant, NoRound
<1>2. round' # NoRound
  BY <1>1
<1>3. \A r \in versions' : r \in versions \/ (r.indicator = i /\ r.available = round.start)
  BY StoreStep
<1>4. heard' \in [Indicators -> Levels \cup {Nothing}]
  <2>1. heard' = heard \/ heard' = [heard EXCEPT ![i] = v]
    BY DEF Store
  <2> QED BY <2>1 DEF MacroInvariant
<1>5. /\ \A r \in versions : r.available \in Nat /\ r.available <= time /\ r.available <= round.start
      /\ \A r \in versions : r.indicator \in Unheard => r.available < round.start
      /\ round.start <= time
  BY DEF MacroInvariant
<1>6. \A r \in versions' : r.available \in Nat /\ r.available <= time /\ r.available <= round.start
  BY <1>1, <1>3, <1>5
<1>7. \A r \in versions' : r.indicator \in Unheard' => r.available < round.start
  BY <1>3, <1>5
<1> HIDE DEF Unheard, NoRound
<1> QED BY <1>1, <1>2, <1>4, <1>5, <1>6, <1>7 DEF MacroInvariant

\* What a step promises of the versions.
DatedStep ==
  /\ versions' = versions \/ \A i \in Indicators : \A t \in 0..LastTime :
       t < (IF round = NoRound THEN time ELSE round.start) => Version(i, t)' = Version(i, t)
  /\ \A i \in Indicators :
       heard'[i] # heard[i] /\ ~Repeated(i, heard'[i]) => Version(i, time)' = heard'[i]

\* An answer keeps it.
LEMMA AnswerIsDated ==
  ASSUME MacroInvariant, round # NoRound, NEW i \in Unheard, NEW v, i \in Indicators,
         Store(i, v) \/ UNCHANGED <<versions, heard>>, UNCHANGED time
  PROVE  DatedStep
<1>1. CASE UNCHANGED <<versions, heard>>
  BY <1>1 DEF DatedStep
<1>2. CASE Store(i, v)
  <2>1. \A j \in Indicators, t \in Int : t < round.start => Version(j, t)' = Version(j, t)
    BY <1>2, StoreStep
  <2>2. heard' = [heard EXCEPT ![i] = v] /\ (New(i, v) => Version(i, time)' = v)
    BY <1>2, StoreStep
  <2>3. heard \in [Indicators -> Levels \cup {Nothing}]
    BY DEF MacroInvariant
  <2>4. ASSUME NEW j \in Indicators, heard'[j] # heard[j], ~Repeated(j, heard'[j])
        PROVE  Version(j, time)' = heard'[j]
    <3>1. j = i /\ heard'[i] = v
      BY <2>2, <2>3, <2>4
    <3>2. New(i, v)
      BY <2>4, <3>1 DEF New, Repeated
    <3> QED BY <2>2, <3>1, <3>2
  <2>5. \A j \in Indicators : \A t \in 0..LastTime : t < round.start => Version(j, t)' = Version(j, t)
    BY <2>1
  <2> QED BY <2>4, <2>5 DEF DatedStep
<1> QED BY <1>1, <1>2

\* No step breaks the order of the collections, nor rewrites their past.
LEMMA MacroStep == MacroInvariant /\ [MacroNext]_macroVars => MacroInvariant' /\ (DatedStep \/ UNCHANGED macroVars)
<1> SUFFICES ASSUME MacroInvariant, [MacroNext]_macroVars
             PROVE  MacroInvariant' /\ (DatedStep \/ UNCHANGED macroVars)
  OBVIOUS
<1> DEFINE Round == [start : Int, ask : SUBSET Indicators, save : Answers, errors : SUBSET Indicators, stored : Int]
<1>0. /\ time \in 0..LastTime /\ LastTime \in Nat /\ due \in Int /\ says \in [Indicators -> Levels] /\ round \in Round
      /\ \A r \in versions : r.available \in Nat /\ r.available <= time
  BY MacroAssumption DEF MacroInvariant
<1>1. UNCHANGED <<versions, heard>> => DatedStep
  BY DEF DatedStep
<1>2. <<>> \in Answers /\ NoRound \in Round /\ NoRound.start = -1 /\ NoRound.ask = {} /\ DOMAIN NoRound.save = {}
  <2>1. <<>> \in [{} -> Levels] /\ DOMAIN <<>> = {}
    OBVIOUS
  <2>2. <<>> \in Answers
    BY <2>1 DEF Answers
  <2> QED BY <2>1, <2>2 DEF NoRound
<1>a. ASSUME NEW a \in Round, NEW i \in Indicators,
             NEW b \in {[a EXCEPT !.stored = @ + 1], [a EXCEPT !.errors = @ \cup {i}]}
      PROVE  b \in Round /\ b.start = a.start /\ b.ask = a.ask /\ b.save = a.save
  <2>1. CASE b = [a EXCEPT !.stored = @ + 1]
    BY <2>1
  <2>2. CASE b = [a EXCEPT !.errors = @ \cup {i}]
    BY <2>2
  <2> QED BY <2>1, <2>2
<1>3. CASE Clock
  <2>1. time' = time + 1 /\ time' \in 0..LastTime /\ UNCHANGED <<says, versions, round, due, heard>>
    BY <1>0, <1>3 DEF Clock
  <2> QED BY <1>0, <1>1, <2>1 DEF MacroInvariant, Unheard
<1>4. ASSUME NEW i \in Indicators, Revise(i)
      PROVE  MacroInvariant' /\ DatedStep
  <2>1. says' \in [Indicators -> Levels] /\ UNCHANGED <<time, versions, round, due, heard>>
    BY <1>0, <1>4 DEF Revise
  <2> QED BY <1>1, <2>1 DEF MacroInvariant, Unheard
<1>5. CASE BeginRound
  <2>1. /\ round = NoRound /\ due <= time /\ round' = [NoRound EXCEPT !.start = time, !.ask = Indicators]
        /\ UNCHANGED <<time, says, versions, due, heard>>
    BY <1>5 DEF BeginRound
  <2>2. round'.start = time /\ round'.ask = Indicators /\ DOMAIN round'.save = {} /\ round' \in Round
    <3>1. round' = [start |-> time, ask |-> Indicators, save |-> <<>>, errors |-> {}, stored |-> 0]
      BY <2>1 DEF NoRound
    <3> QED BY <1>0, <1>2, <3>1
  <2>3. \A r \in versions : r.available < time
    BY <1>0, <2>1 DEF MacroInvariant
  <2>4. round' # NoRound
    BY <1>0, <1>2, <2>2
  <2> QED BY <1>0, <1>1, <2>1, <2>2, <2>3, <2>4 DEF MacroInvariant
<1>6. ASSUME NEW i \in Indicators, CollectOne(i)
      PROVE  MacroInvariant' /\ DatedStep
  <2>1. /\ i \in round.ask /\ i \in Single /\ says[i] \in Levels /\ i \in Unheard
        /\ Store(i, says[i]) \/ UNCHANGED <<versions, heard>>
        /\ UNCHANGED <<time, says, runs, due>>
    BY <1>0, <1>6 DEF CollectOne, Unheard
  <2>2. round # NoRound
    BY <1>2, <2>1
  <2>3. \/ round' = [round EXCEPT !.ask = @ \ {i}, !.stored = @ + 1]
        \/ round' = [round EXCEPT !.ask = @ \ {i}, !.errors = @ \cup {i}]
    BY <1>6 DEF CollectOne
  <2>4. /\ round' \in Round /\ round'.start = round.start
        /\ round'.ask = round.ask \ {i} /\ round'.save = round.save
    <3> DEFINE a == [round EXCEPT !.ask = @ \ {i}]
    <3>1. a \in Round /\ a.start = round.start /\ a.ask = round.ask \ {i} /\ a.save = round.save
      BY <1>0
    <3>2. round' \in {[a EXCEPT !.stored = @ + 1], [a EXCEPT !.errors = @ \cup {i}]}
      BY <2>3
    <3> HIDE DEF a, Round
    <3> QED BY <1>a, <3>1, <3>2
  <2>5. DOMAIN round.save = {}
    BY <2>1, <2>2 DEF MacroInvariant
  <2>6. Unheard' \subseteq Unheard \ {i} /\ (DOMAIN round'.save # {} => round'.ask = {})
    BY <2>4, <2>5 DEF Unheard
  <2> QED BY <2>1, <2>2, <2>4, <2>6, AnswerStep, AnswerIsDated
<1>7. ASSUME NEW i \in Indicators, SaveOfBatch(i)
      PROVE  MacroInvariant' /\ DatedStep
  <2>1. /\ i \in DOMAIN round.save /\ i \in Unheard
        /\ Store(i, round.save[i]) \/ UNCHANGED <<versions, heard>>
        /\ UNCHANGED <<time, says, runs, due>>
    BY <1>7 DEF SaveOfBatch, Unheard
  <2>2. round # NoRound /\ round.ask = {}
    BY <1>2, <2>1 DEF MacroInvariant
  <2>3. PICK b \in SUBSET Batched : round.save \in [b -> Levels]
    <3>1. round.save \in Answers
      BY <1>0
    <3> QED BY <3>1 DEF Answers
  <2>4. round.save[i] \in Levels
    BY <2>1, <2>3
  <2> DEFINE left == Without(round.save, i)
  <2>5. left \in Answers /\ DOMAIN left = DOMAIN round.save \ {i}
    <3>1. left \in [b \ {i} -> Levels] /\ b \ {i} \in SUBSET Batched
      BY <2>3 DEF Without
    <3> QED BY <2>3, <3>1 DEF Answers
  <2>6. \/ round' = [round EXCEPT !.save = left, !.stored = @ + 1]
        \/ round' = [round EXCEPT !.save = left, !.errors = @ \cup {i}]
    BY <1>7 DEF SaveOfBatch
  <2> HIDE DEF left
  <2>7. /\ round' \in Round /\ round'.start = round.start
        /\ round'.ask = round.ask /\ round'.save = left
    <3> DEFINE a == [round EXCEPT !.save = left]
    <3>1. a \in Round /\ a.start = round.start /\ a.ask = round.ask /\ a.save = left
      BY <1>0, <2>5
    <3>2. round' \in {[a EXCEPT !.stored = @ + 1], [a EXCEPT !.errors = @ \cup {i}]}
      BY <2>6
    <3> HIDE DEF a, Round
    <3> QED BY <1>a, <3>1, <3>2
  <2>8. Unheard' \subseteq Unheard \ {i} /\ (DOMAIN round'.save # {} => round'.ask = {})
    BY <2>2, <2>5, <2>7 DEF Unheard
  <2> QED BY <2>1, <2>2, <2>4, <2>7, <2>8, AnswerStep, AnswerIsDated
<1>8. CASE CollectBatch
  <2>1. /\ round.ask = Batched /\ Batched # {} /\ UNCHANGED <<time, says, versions, runs, due, heard>>
        /\ \/ round' = [round EXCEPT !.ask = {}, !.save = [i \in Batched |-> says[i]]]
           \/ round' = [round EXCEPT !.ask = {}, !.errors = @ \cup Batched]
    BY <1>8 DEF CollectBatch
  <2>2. round # NoRound
    BY <1>2, <2>1
  <2> DEFINE all == [i \in Batched |-> says[i]]
  <2>3. all \in Answers /\ DOMAIN all = Batched
    <3>1. all \in [Batched -> Levels]
      BY <1>0 DEF Indicators
    <3> QED BY <3>1 DEF Answers
  <2>4. Batched \subseteq Indicators
    BY DEF Indicators
  <2> HIDE DEF all
  <2>5. /\ round' \in Round /\ round'.start = round.start /\ round'.ask = {}
        /\ round'.save = all \/ round'.save = round.save
    BY <1>0, <2>1, <2>3, <2>4 DEF all
  <2>6. Unheard' \subseteq Unheard
    BY <2>1, <2>3, <2>5 DEF Unheard
  <2>7. round' # NoRound
    BY <1>2, <2>2, <2>5 DEF MacroInvariant
  <2> QED BY <1>1, <2>1, <2>2, <2>5, <2>6, <2>7 DEF MacroInvariant
<1>9. \A r \in versions : r.available <= time
  BY <1>0
<1>10. CASE EndRound
  <2>1. round' = NoRound /\ due' = NextSlot /\ UNCHANGED <<time, says, versions, heard>>
    BY <1>10 DEF EndRound
  <2>2. NextSlot \in Int /\ NextSlot > time
    BY <1>0, NextSlotIsLater
  <2>3. \A r \in versions' : r.available < due'
    BY <1>0, <2>1, <2>2
  <2> QED BY <1>0, <1>1, <1>2, <2>1, <2>2, <2>3 DEF MacroInvariant
<1>11. CASE NewProcess
  <2>1. /\ round' = NoRound /\ time' = time + 1 /\ time' \in 0..LastTime /\ due' = time'
        /\ UNCHANGED <<says, versions, heard>>
    BY <1>0, <1>11 DEF NewProcess
  <2>2. \A r \in versions' : r.available < due' /\ r.available \in Nat /\ r.available <= time'
    BY <1>0, <2>1
  <2>3. heard' \in [Indicators -> Levels \cup {Nothing}]
    BY <2>1 DEF MacroInvariant
  <2> QED BY <1>0, <1>1, <1>2, <2>1, <2>2, <2>3 DEF MacroInvariant
<1>12. CASE UNCHANGED macroVars
  BY <1>12 DEF macroVars, MacroInvariant, Unheard
<1> QED BY <1>3, <1>4, <1>5, <1>6, <1>7, <1>8, <1>10, <1>11, <1>12 DEF MacroNext

\* What was known of an indicator at a time before the collection that runs is
\* never rewritten, and a value that is new is the one known from then on.
THEOREM NoFutureLeaks == MacroSpec => VersionsAreDated
<1>1. MacroInit => MacroInvariant
  <2> SUFFICES ASSUME MacroInit PROVE MacroInvariant
    OBVIOUS
  <2>1. <<>> \in [{} -> Levels]
    OBVIOUS
  <2>2. <<>> \in Answers
    BY <2>1 DEF Answers
  <2>3. NoRound \in [start : Int, ask : SUBSET Indicators, save : Answers, errors : SUBSET Indicators, stored : Int]
    BY <2>2 DEF NoRound
  <2>4. LastTime \in Nat /\ heard \in [Indicators -> Levels \cup {Nothing}] /\ versions = {}
    BY MacroAssumption DEF MacroInit
  <2> QED BY <2>3, <2>4 DEF MacroInit, MacroInvariant
<1>2. MacroInvariant /\ [MacroNext]_macroVars =>
       [/\ versions' = versions \/ \A i \in Indicators : \A t \in 0..LastTime :
             t < (IF round = NoRound THEN time ELSE round.start) => Version(i, t)' = Version(i, t)
        /\ \A i \in Indicators :
             heard'[i] # heard[i] /\ ~Repeated(i, heard'[i]) => Version(i, time)' = heard'[i]]_macroVars
  <2> SUFFICES ASSUME MacroInvariant, [MacroNext]_macroVars
               PROVE  DatedStep \/ UNCHANGED macroVars
    BY DEF DatedStep
  <2> QED BY MacroStep
<1>3. MacroInvariant /\ [MacroNext]_macroVars => MacroInvariant'
  BY MacroStep
<1> QED BY <1>1, <1>2, <1>3, PTL DEF MacroSpec, VersionsAreDated

(***************************************************************************)
(* The long-term scan (LongTermScan)                                       *)
(***************************************************************************)

TaskStages == {"idle", "new", "renew", "page", "watched", "company"}
AtWork == {"page", "watched", "company"}
Phases == {"idle", "running", "waiting", "complete", "partial", "failed"}

Status == [running : BOOLEAN, phase : Phases, failed : Int]
Task == [stage : TaskStages, todo : SUBSET Companies, skip : SUBSET Companies, tries : Int,
         good : SUBSET Companies, verdict : Verdicts \cup {NotYet}]

ScanTypes ==
  /\ status \in Status
  /\ runner \in [Runners -> Task]
  /\ holder \in Runners \cup {NoOne}
  /\ watching \subseteq Companies
  /\ asked \in Int /\ begun \in Nat

\* The lock is held by the task that scans.
LockIsHeld == \A r \in Runners : holder = r <=> runner[r].stage \in AtWork

\* The status says what happens; only the daily task renews analyses.
Shown ==
  /\ status.running = TRUE <=> holder # NoOne \/ runner["button"].stage = "new"
  /\ runner["button"].stage # "renew"

\* What was accepted has been served, or its own task is new and finds the lock
\* free.
Served ==
  /\ asked <= begun
  /\ asked # NeverAsked => begun > asked \/ (runner["button"].stage = "new" /\ holder = NoOne)

ScanInv == ScanTypes /\ LockIsHeld /\ Shown /\ Served

LEMMA RestingIsTask == Resting \in Task /\ Resting.stage = "idle"
BY DEF Resting, Task, TaskStages, NotYet

LEMMA NobodyRuns == \A r \in Runners : r # NoOne
BY DEF Runners, NoOne

LEMMA ScanStarts == ScanInit => ScanInv
<1> SUFFICES ASSUME ScanInit PROVE ScanInv
  OBVIOUS
<1>1. runner \in [Runners -> Task] /\ \A r \in Runners : runner[r].stage = "idle"
  BY RestingIsTask DEF ScanInit
<1>2. status \in Status /\ status.running = FALSE
  BY DEF ScanInit, IdleStatus, Status, Phases
<1>3. holder = NoOne /\ watching \subseteq Companies /\ asked = -1 /\ begun = 0
  BY DEF ScanInit, NeverAsked
<1>4. ScanTypes
  BY <1>1, <1>2, <1>3 DEF ScanTypes
<1>5. LockIsHeld
  BY <1>1, <1>3, NobodyRuns DEF LockIsHeld, AtWork
<1>6. Shown
  BY <1>1, <1>2, <1>3 DEF Shown, Runners
<1>7. Served
  BY <1>3 DEF Served, NeverAsked
<1> QED BY <1>4, <1>5, <1>6, <1>7 DEF ScanInv

LEMMA FreshTask ==
  ASSUME NEW stage \in TaskStages
  PROVE  [Resting EXCEPT !.stage = stage] \in Task /\ [Resting EXCEPT !.stage = stage].stage = stage
BY RestingIsTask DEF Task

\* A task takes another state, the other keeps its own.
LEMMA Afresh ==
  ASSUME NEW r \in Runners, ScanInv, NEW task \in Task, Becomes(r, task)
  PROVE  /\ runner' \in [Runners -> Task] /\ runner'[r] = task
         /\ \A q \in Runners \ {r} : runner'[q] = runner[q]
BY DEF ScanInv, ScanTypes, Becomes

\* What the steps of a scan leave: the task keeps scanning and the lock.
LEMMA GoesOn ==
  ASSUME NEW r \in Runners, NEW task \in Task, ScanInv, Becomes(r, task),
         task.stage = runner[r].stage \/ (holder = r /\ task.stage \in AtWork),
         status' \in Status, status'.running = status.running,
         holder' = holder, watching' \subseteq Companies, UNCHANGED <<asked, begun>>
  PROVE  ScanInv'
<1>1. /\ runner' \in [Runners -> Task] /\ runner'[r] = task
      /\ \A q \in Runners \ {r} : runner'[q] = runner[q]
  BY Afresh
<1>2. \A q \in Runners :
        \/ runner'[q].stage = runner[q].stage
        \/ runner'[q].stage \in AtWork /\ runner[q].stage \in AtWork
  BY <1>1 DEF ScanInv, LockIsHeld
<1>3. \A q \in Runners : runner'[q].stage \in AtWork <=> runner[q].stage \in AtWork
  BY <1>2
<1>4. \A q \in Runners, s \in {"new", "renew"} : runner'[q].stage = s <=> runner[q].stage = s
  BY <1>2 DEF AtWork
<1>5. ScanTypes'
  BY <1>1 DEF ScanInv, ScanTypes
<1>6. LockIsHeld'
  BY <1>3 DEF ScanInv, LockIsHeld
<1>7. Shown' /\ Served'
  BY <1>4 DEF ScanInv, Shown, Served, Runners
<1> QED BY <1>5, <1>6, <1>7 DEF ScanInv

\* The lock is given back while no accepted request waits for its turn.
LEMMA LeaveKeeps ==
  ASSUME NEW r \in Runners, NEW phase \in Phases, ScanInv, holder = r, Turn(r), Leave(r, phase),
         watching' = watching, UNCHANGED <<asked, begun>>
  PROVE  ScanInv'
<1>1. /\ runner' \in [Runners -> Task] /\ runner'[r].stage = "idle"
      /\ \A q \in Runners \ {r} : runner'[q] = runner[q]
  BY Afresh, RestingIsTask DEF Leave
<1>2. \A q \in Runners : runner'[q].stage \notin AtWork
  BY <1>1 DEF ScanInv, LockIsHeld, AtWork
<1>3. runner["button"].stage \notin {"new", "renew"}
  BY DEF Turn, ScanInv, Shown
<1>4. runner'["button"].stage \notin {"new", "renew"}
  BY <1>1, <1>3 DEF Runners
<1>5. status' \in Status /\ status'.running = FALSE
  BY DEF Leave, ScanInv, ScanTypes, Status
<1>6. holder' = NoOne
  BY DEF Leave
<1>7. ScanTypes'
  BY <1>1, <1>5, <1>6 DEF ScanInv, ScanTypes
<1>8. LockIsHeld'
  BY <1>2, <1>6, NobodyRuns DEF LockIsHeld
<1>9. Shown'
  BY <1>4, <1>5, <1>6 DEF Shown
<1>10. Served'
  BY <1>3 DEF ScanInv, Served
<1> QED BY <1>7, <1>8, <1>9, <1>10 DEF ScanInv

-----------------------------------------------------------------------------

LEMMA PressKeeps == ScanInv /\ Press => ScanInv'
<1> SUFFICES ASSUME ScanInv, Press PROVE ScanInv'
  OBVIOUS
<1> DEFINE task == [Resting EXCEPT !.stage = "new"]
<1>1. task \in Task /\ task.stage = "new"
  BY FreshTask DEF TaskStages
<1>2. Becomes("button", task)
  BY DEF Press
<1> HIDE DEF task
<1>3. /\ runner' \in [Runners -> Task] /\ runner'["button"].stage = "new"
      /\ runner'["daily"] = runner["daily"]
  BY <1>1, <1>2, Afresh DEF Runners
<1>4. status' \in Status /\ status'.running = TRUE
  BY DEF Press, Status, Phases
<1>5. holder = NoOne /\ holder' = NoOne /\ begun' = begun /\ asked' = begun /\ watching' = watching
  BY DEF Press, Accepts, scanTables
<1>6. ScanTypes'
  BY <1>3, <1>4, <1>5 DEF ScanInv, ScanTypes
<1>7. \A r \in Runners : runner'[r].stage \notin AtWork
  BY <1>3, <1>5, NobodyRuns DEF ScanInv, LockIsHeld, Runners, AtWork
<1>8. LockIsHeld'
  BY <1>5, <1>7, NobodyRuns DEF LockIsHeld
<1>9. Shown' /\ Served'
  BY <1>3, <1>4, <1>5 DEF ScanInv, ScanTypes, Shown, Served
<1> QED BY <1>6, <1>8, <1>9 DEF ScanInv

LEMMA WakeKeeps == ScanInv /\ Wake => ScanInv'
<1> SUFFICES ASSUME ScanInv, Wake PROVE ScanInv'
  OBVIOUS
<1>1. PICK task \in Task : task.stage \in {"renew", "new"} /\ Becomes("daily", task)
  <2>1. CASE Becomes("daily", [Resting EXCEPT !.stage = "new"])
    BY <2>1, FreshTask DEF TaskStages
  <2>2. CASE Becomes("daily", [Resting EXCEPT !.stage = "renew", !.todo = watching])
    <3> DEFINE task == [Resting EXCEPT !.stage = "renew", !.todo = watching]
    <3>1. task \in Task /\ task.stage = "renew"
      BY RestingIsTask DEF Task, TaskStages, ScanInv, ScanTypes
    <3> HIDE DEF task
    <3> QED BY <2>2, <3>1 DEF task
  <2> QED BY <2>1, <2>2 DEF Wake
<1>2. /\ runner' \in [Runners -> Task] /\ runner'["daily"].stage \in {"renew", "new"}
      /\ runner'["button"] = runner["button"]
  BY <1>1, Afresh DEF Runners
<1>3. runner["daily"].stage = "idle" /\ UNCHANGED <<status, holder, watching, asked, begun>>
  BY DEF Wake, scanTables
<1>4. ScanTypes'
  BY <1>2, <1>3 DEF ScanInv, ScanTypes
<1>5. LockIsHeld'
  BY <1>2, <1>3 DEF ScanInv, LockIsHeld, Runners, AtWork
<1>6. Shown' /\ Served'
  BY <1>2, <1>3 DEF ScanInv, Shown, Served
<1> QED BY <1>4, <1>5, <1>6 DEF ScanInv

LEMMA RestartKeeps == ScanInv /\ Restart => ScanInv'
<1> SUFFICES ASSUME ScanInv, Restart PROVE ScanInv'
  OBVIOUS
<1>1. status' \in Status /\ status'.running = FALSE
  BY DEF Restart, IdleStatus, Status, Phases
<1>2. runner' \in [Runners -> Task] /\ \A q \in Runners : runner'[q].stage = "idle"
  BY RestingIsTask DEF Restart
<1>3. holder' = NoOne /\ asked' = NeverAsked /\ begun' = begun /\ watching' = watching
  BY DEF Restart, scanTables
<1>4. begun \in Nat
  BY DEF ScanInv, ScanTypes
<1>5. ScanTypes'
  BY <1>1, <1>2, <1>3 DEF ScanInv, ScanTypes, NeverAsked
<1>6. LockIsHeld'
  BY <1>2, <1>3, NobodyRuns DEF LockIsHeld, AtWork
<1>7. Shown'
  BY <1>1, <1>2, <1>3 DEF Shown, Runners
<1>8. Served'
  BY <1>3, <1>4 DEF Served, NeverAsked
<1> QED BY <1>5, <1>6, <1>7, <1>8 DEF ScanInv

LEMMA StartKeeps == ASSUME NEW r \in Runners, ScanInv, Start(r) PROVE ScanInv'
<1>1. runner[r].stage \in {"new", "renew"}
  BY DEF Start
<1>2. CASE holder # NoOne
  <2>1. /\ runner' \in [Runners -> Task] /\ runner'[r].stage = "idle"
        /\ \A q \in Runners \ {r} : runner'[q] = runner[q]
    BY <1>2, RestingIsTask, Afresh DEF Start
  <2>2. UNCHANGED <<status, holder, begun, watching, asked>>
    BY <1>2 DEF Start, scanTables
  <2>3. ScanTypes'
    BY <2>1, <2>2 DEF ScanInv, ScanTypes
  <2>4. LockIsHeld'
    BY <1>1, <2>1, <2>2 DEF ScanInv, LockIsHeld, AtWork
  <2>5. runner'["button"].stage = runner["button"].stage \/ runner'["button"].stage = "idle"
    BY <2>1 DEF Runners
  <2>6. Shown' /\ Served'
    BY <1>2, <2>2, <2>5 DEF ScanInv, Shown, Served
  <2> QED BY <2>3, <2>4, <2>6 DEF ScanInv
<1>3. CASE holder = NoOne
  <2> DEFINE task == [Resting EXCEPT !.stage = "page"]
  <2>1. task \in Task /\ task.stage = "page"
    BY FreshTask DEF TaskStages
  <2>2. Becomes(r, task)
    BY <1>3 DEF Start
  <2> HIDE DEF task
  <2>3. /\ runner' \in [Runners -> Task] /\ runner'[r].stage = "page"
        /\ \A q \in Runners \ {r} : runner'[q] = runner[q]
    BY <2>1, <2>2, Afresh
  <2>4. status' \in Status /\ status'.running = TRUE
    <3>1. status' = [running |-> TRUE, phase |-> "running", failed |-> 0]
      BY <1>3 DEF Start
    <3> QED BY <3>1 DEF Status, Phases
  <2>5. holder' = r /\ begun' = begun + 1 /\ asked' = asked /\ watching' = watching
    BY <1>3 DEF Start, scanTables
  <2>6. ScanTypes'
    BY <2>3, <2>4, <2>5 DEF ScanInv, ScanTypes
  <2>7. LockIsHeld'
    BY <1>3, <2>3, <2>5, NobodyRuns DEF ScanInv, LockIsHeld, AtWork
  <2>8. runner'["button"].stage # "renew"
    BY <2>3 DEF ScanInv, Shown, Runners
  <2>9. Shown'
    BY <2>4, <2>5, <2>8, NobodyRuns DEF Shown
  <2>10. Served'
    BY <2>5 DEF ScanInv, ScanTypes, Served
  <2> QED BY <2>6, <2>7, <2>9, <2>10 DEF ScanInv
<1> QED BY <1>2, <1>3

\* The steps of reading and saving.
LEMMA LookKeeps ==
  ASSUME NEW r \in Runners, ScanInv,
         ReadPage(r) \/ ReadWatched(r) \/ Fetch(r) \/ Refused(r) \/ Save(r)
  PROVE  ScanInv'
<1>1. runner[r] \in Task /\ watching \subseteq Companies
  BY DEF ScanInv, ScanTypes
<1>2. runner[r].stage \in AtWork => holder = r
  BY DEF ScanInv, LockIsHeld
<1>3. Passed(r) \in Task /\ Passed(r).stage = runner[r].stage /\ Passed(r).good = runner[r].good
  <2> DEFINE rest == runner[r].todo \ {Current(r)}
  <2>1. rest \in SUBSET Companies
    BY <1>1 DEF Task
  <2> DEFINE less == [runner[r] EXCEPT !.todo = rest]
             anew == [less EXCEPT !.tries = 0]
  <2>2. Passed(r) = [anew EXCEPT !.verdict = NotYet]
    BY DEF Passed
  <2> HIDE DEF rest
  <2>3. less \in Task /\ less.stage = runner[r].stage /\ less.good = runner[r].good
    BY <1>1, <2>1 DEF Task
  <2> HIDE DEF less
  <2>4. anew \in Task /\ anew.stage = runner[r].stage /\ anew.good = runner[r].good
    BY <2>3 DEF Task
  <2> HIDE DEF anew
  <2> QED BY <2>2, <2>4 DEF Task
<1>4. UNCHANGED <<holder, watching, asked, begun>>
  BY DEF ReadPage, ReadWatched, Fetch, Refused, Save, scanTables
<1>5. status' \in Status /\ status'.running = status.running
  <2>1. status \in Status
    BY DEF ScanInv, ScanTypes
  <2>2. CASE status' = status
    BY <2>1, <2>2
  <2>3. CASE status' = [status EXCEPT !.phase = "waiting"]
    BY <2>1, <2>3 DEF Status, Phases
  <2>4. CASE status' = [status EXCEPT !.phase = "running"]
    BY <2>1, <2>4 DEF Status, Phases
  <2>5. CASE status' = [status EXCEPT !.failed = @ + 1, !.phase = "running"]
    <3> DEFINE counted == [status EXCEPT !.failed = @ + 1]
    <3>1. counted \in Status /\ counted.running = status.running
      BY <2>1 DEF Status
    <3>2. status' = [counted EXCEPT !.phase = "running"]
      BY <2>5
    <3> HIDE DEF counted
    <3> QED BY <3>1, <3>2 DEF Status, Phases
  <2> QED BY <2>2, <2>3, <2>4, <2>5 DEF ReadPage, ReadWatched, Fetch, Refused, Save
<1>6. PICK task \in Task :
        /\ Becomes(r, task)
        /\ task.stage = runner[r].stage \/ (holder = r /\ task.stage \in AtWork)
  <2>1. CASE ReadPage(r)
    <3> DEFINE task == [runner[r] EXCEPT !.stage = "watched", !.todo = Companies]
    <3>1. task \in Task /\ task.stage \in AtWork
      BY <1>1 DEF Task, TaskStages, AtWork
    <3>2. holder = r
      BY <2>1, <1>2 DEF ReadPage, AtWork
    <3>3. Becomes(r, task)
      BY <2>1 DEF ReadPage
    <3> HIDE DEF task
    <3> QED BY <3>1, <3>2, <3>3
  <2>2. CASE ReadWatched(r)
    <3> DEFINE task == [runner[r] EXCEPT !.stage = "company", !.todo = @ \ watching, !.skip = watching]
    <3>1. task \in Task /\ task.stage \in AtWork
      BY <1>1 DEF Task, TaskStages, AtWork
    <3>2. holder = r
      BY <2>2, <1>2 DEF ReadWatched, AtWork
    <3>3. Becomes(r, task)
      BY <2>2 DEF ReadWatched
    <3> HIDE DEF task
    <3> QED BY <3>1, <3>2, <3>3
  <2>3. CASE Fetch(r)
    <3>1. PICK v \in Verdicts : Becomes(r, [runner[r] EXCEPT !.verdict = v])
      BY <2>3 DEF Fetch
    <3> DEFINE task == [runner[r] EXCEPT !.verdict = v]
    <3>2. task \in Task /\ task.stage = runner[r].stage
      BY <1>1 DEF Task
    <3>3. Becomes(r, task)
      BY <3>1
    <3> HIDE DEF task
    <3> QED BY <3>2, <3>3
  <2>4. CASE Refused(r)
    <3>1. CASE Becomes(r, [runner[r] EXCEPT !.tries = @ + 1])
      <4> DEFINE task == [runner[r] EXCEPT !.tries = @ + 1]
      <4>1. task \in Task /\ task.stage = runner[r].stage
        BY <1>1 DEF Task
      <4>2. Becomes(r, task)
        BY <3>1
      <4> HIDE DEF task
      <4> QED BY <4>1, <4>2
    <3>2. CASE Becomes(r, Passed(r))
      BY <1>3, <3>2
    <3> QED BY <2>4, <3>1, <3>2 DEF Refused
  <2>5. CASE Save(r)
    <3> DEFINE task == [Passed(r) EXCEPT !.good =
                         IF runner[r].verdict = "good" THEN @ \cup {Current(r)} ELSE @]
    <3>1. Current(r) \in Companies
      BY <1>1, <2>5 DEF Save, Looking, Current, Task
    <3>2. task \in Task /\ task.stage = runner[r].stage
      BY <1>3, <3>1 DEF Task
    <3>3. Becomes(r, task)
      BY <2>5 DEF Save
    <3> HIDE DEF task
    <3> QED BY <3>2, <3>3
  <2> QED BY <2>1, <2>2, <2>3, <2>4, <2>5
<1> QED BY <1>1, <1>4, <1>5, <1>6, GoesOn

LEMMA Steps == ScanInv /\ [ScanNext]_scanVars => ScanInv'
<1> SUFFICES ASSUME ScanInv, [ScanNext]_scanVars PROVE ScanInv'
  OBVIOUS
<1>1. ASSUME NEW r \in Runners, Turn(r), Fail(r) PROVE ScanInv'
  BY <1>1, LeaveKeeps DEF Fail, Phases, scanTables
<1>2. ASSUME NEW r \in Runners, Turn(r), Finish(r) PROVE ScanInv'
  <2>1. holder = r
    BY <1>2 DEF Finish, ScanInv, LockIsHeld, AtWork
  <2>2. PICK phase \in Phases : Leave(r, phase)
    BY <1>2 DEF Finish, Phases
  <2> QED BY <1>2, <2>1, <2>2, LeaveKeeps DEF Finish
<1>3. ASSUME NEW c \in Companies, Watch(c) \/ Visit(c) PROVE ScanInv'
  <2>1. watching' \subseteq Companies /\ UNCHANGED <<status, runner, holder, asked, begun>>
    BY <1>3 DEF Watch, Visit, ScanInv, ScanTypes
  <2> QED BY <2>1 DEF ScanInv, ScanTypes, LockIsHeld, Shown, Served
<1>4. CASE UNCHANGED scanVars
  BY <1>4 DEF scanVars, scanTables, ScanInv, ScanTypes, LockIsHeld, Shown, Served
<1> QED BY <1>1, <1>2, <1>3, <1>4, PressKeeps, WakeKeeps, RestartKeeps, StartKeeps, LookKeeps
        DEF ScanNext, ScanStep

(* The button is honest, for any companies, pauses, failures and restarts: an  *)
(* accepted request is followed by a scan, and the status says that one runs   *)
(* exactly while one does or is about to.                                      *)
THEOREM ButtonIsHonest == ScanSpec => []RequestsAreServed
<1>1. ScanInv => RequestsAreServed
  BY DEF ScanInv, ScanTypes, Shown, Served, RequestsAreServed, Status
<1> QED BY ScanStarts, Steps, <1>1, PTL DEF ScanSpec
===============================================================================
