---------------------------- MODULE ServiceProofs ----------------------------
(***************************************************************************)
(* What is proved of the services beside the engine: that the recorders keep   *)
(* within their memory and keep their promise, that a broker account has one   *)
(* owner, that a quote stream has one task and tells its viewers the truth,    *)
(* and that readers share requests and never wait in a circle - for any sizes, *)
(* users, viewers, readers and failures.  The parts share no state; each has an *)
(* invariant of its own.                                                    *)
(***************************************************************************)
EXTENDS Recorder, ReadCaches, QuoteStream, BrokerConnections, SequenceTheorems, FiniteSetTheorems,
  FoldLemmas, TLAPS


(***************************************************************************)
(* The recorders (Recorder, RecorderPromise)                               *)
(***************************************************************************)

Increasing(lines) == \A i, j \in DOMAIN lines : i < j => lines[i] < lines[j]

\* A batch and what waits behind it: what Restore puts together again.
Line == batch \o queue

\* What memory there is for the line.
Bounded ==
  /\ Len(batch) + Len(queue) <= MaxQueue + BatchSize
  /\ kind = "candidate" => Len(queue) <= MaxQueue

\* Where the rows are: each has been made, and no row that is held was dropped.
Placed ==
  /\ Held \cup dropped \cup db \subseteq 1..made
  /\ Held \cap dropped = {}

\* The line has the order in which the rows were made, so that a row is in it once.
InOrder == Increasing(Line)

\* What phase and write say of the buffers.
Buffers ==
  /\ write = "none" => batch = <<>>
  /\ write = "saved" => Range(batch) \subseteq db
  /\ phase = "stopping" => kind = "candidate"
  /\ orphan # <<>> => kind = "decision" /\ phase \in {"draining", "ended"}

RecorderInv == RecorderTypeOK /\ Bounded /\ Placed /\ InOrder /\ Buffers

-----------------------------------------------------------------------------
(* Sequences of rows.                                                        *)

LEMMA RowsAreNumbers == Rows \subseteq Nat
BY RecorderAssumption DEF Rows

LEMMA Nothing == Range(<<>>) = {} /\ <<>> \in Seq(Rows) /\ Len(<<>>) = 0
<1>1. <<>> \in Seq(Rows) /\ Len(<<>>) = 0
  BY EmptySeq
<1>2. Range(<<>>) = {<<>>[i] : i \in 1..0}
  BY <1>1, RangeEquality
<1> QED BY <1>1, <1>2

LEMMA Joined ==
  ASSUME NEW s \in Seq(Rows), NEW t \in Seq(Rows)
  PROVE  /\ s \o t \in Seq(Rows) /\ Len(s \o t) = Len(s) + Len(t)
         /\ Range(s \o t) = Range(s) \cup Range(t)
         /\ <<>> \o s = s
BY ConcatProperties, ConcatEmptySeq, RangeConcatenation

\* The second part of an increasing sequence is increasing.
LEMMA TailIncreases ==
  ASSUME NEW s \in Seq(Rows), NEW t \in Seq(Rows), Increasing(s \o t)
  PROVE  Increasing(t)
<1> SUFFICES ASSUME NEW i \in 1..Len(t), NEW j \in 1..Len(t), i < j PROVE t[i] < t[j]
  BY LenProperties DEF Increasing
<1> DEFINE m == Len(s)
<1>1. m \in Nat /\ Len(t) \in Nat
  BY LenProperties
<1>2. m + i \in 1..Len(s \o t) /\ m + j \in 1..Len(s \o t) /\ m + i < m + j
  BY <1>1, ConcatProperties
<1>3. (s \o t)[m + i] < (s \o t)[m + j]
  BY <1>2, LenProperties, Joined DEF Increasing
<1>4. (s \o t)[m + i] = t[i] /\ (s \o t)[m + j] = t[j]
  BY <1>1, ConcatProperties
<1> QED BY <1>3, <1>4

\* A sequence cut in two.
LEMMA Cut ==
  ASSUME NEW s \in Seq(Rows), NEW n \in 0..Len(s)
  PROVE  LET u == SubSeq(s, 1, n)
             v == SubSeq(s, n + 1, Len(s))
         IN /\ u \in Seq(Rows) /\ v \in Seq(Rows) /\ u \o v = s
            /\ Len(u) = n /\ Len(v) = Len(s) - n
            /\ Range(u) \cup Range(v) = Range(s)
            /\ Increasing(s) => Increasing(u) /\ Range(u) \cap Range(v) = {}
<1> DEFINE u == SubSeq(s, 1, n)
           v == SubSeq(s, n + 1, Len(s))
<1>1. Len(s) \in Nat /\ \A i \in 1..Len(s) : s[i] \in Rows
  BY LenProperties, ElementOfSeq
<1>2. u \in Seq(Rows) /\ Len(u) = n /\ \A i \in 1..n : u[i] = s[i]
  <2>1. \A i \in 1..n : s[i] \in Rows
    BY <1>1
  <2>2. /\ u \in Seq(Rows) /\ Len(u) = IF 1 <= n THEN n - 1 + 1 ELSE 0
        /\ \A i \in 1..(n - 1 + 1) : u[i] = s[1 + i - 1]
    BY <2>1, SubSeqProperties
  <2> QED BY <2>2, <1>1
<1>3. v \in Seq(Rows) /\ Len(v) = Len(s) - n /\ \A i \in 1..(Len(s) - n) : v[i] = s[n + i]
  <2>1. \A i \in (n + 1)..Len(s) : s[i] \in Rows
    BY <1>1
  <2>2. /\ v \in Seq(Rows)
        /\ Len(v) = IF n + 1 <= Len(s) THEN Len(s) - (n + 1) + 1 ELSE 0
        /\ \A i \in 1..(Len(s) - (n + 1) + 1) : v[i] = s[(n + 1) + i - 1]
    BY <2>1, <1>1, SubSeqProperties
  <2> QED BY <2>2, <1>1
<1> HIDE DEF u, v
<1>4. u \o v = s
  <2>1. u \o v \in Seq(Rows) /\ Len(u \o v) = Len(s)
    BY <1>1, <1>2, <1>3, ConcatProperties
  <2>2. \A i \in 1..Len(s) : (u \o v)[i] = s[i]
    <3>1. \A i \in 1..(Len(u) + Len(v)) :
            (u \o v)[i] = IF i <= Len(u) THEN u[i] ELSE v[i - Len(u)]
      BY <1>2, <1>3, ConcatProperties
    <3> DEFINE w == u \o v
    <3>4. \A i \in 1..Len(s) : w[i] = IF i <= n THEN u[i] ELSE v[i - n]
      BY <3>1, <1>1, <1>2, <1>3
    <3> HIDE DEF w
    <3> SUFFICES ASSUME NEW i \in 1..Len(s) PROVE w[i] = s[i]
      BY DEF w
    <3>2. CASE i <= n
      BY <3>4, <3>2, <1>1, <1>2
    <3>3. CASE i > n
      <4>1. i - n \in 1..(Len(s) - n) /\ n + (i - n) = i
        BY <3>3, <1>1
      <4>2. v[i - n] = s[n + (i - n)]
        BY <4>1, <1>3
      <4>3. w[i] = v[i - n]
        BY <3>4, <3>3, <1>1
      <4> QED BY <4>1, <4>2, <4>3
    <3> QED BY <3>2, <3>3, <1>1
  <2> DEFINE w == u \o v
  <2>3. w \in Seq(Rows) /\ Len(w) = Len(s) /\ \A i \in 1..Len(w) : w[i] = s[i]
    BY <2>1, <2>2
  <2> HIDE DEF w
  <2>4. w = s
    BY <2>3, SeqEqual
  <2> QED BY <2>4 DEF w
<1>5. Range(u) \cup Range(v) = Range(s)
  BY <1>2, <1>3, <1>4, Joined
<1>6. ASSUME Increasing(s) PROVE Increasing(u) /\ Range(u) \cap Range(v) = {}
  <2>1. \A i, j \in 1..Len(s) : i < j => s[i] < s[j]
    BY <1>6, LenProperties DEF Increasing
  <2>2. Increasing(u)
    BY <2>1, <1>1, <1>2, LenProperties DEF Increasing
  <2>3. \A i \in 1..n, j \in 1..(Len(s) - n) : u[i] < v[j]
    <3>1. \A i \in 1..n, j \in 1..(Len(s) - n) : n + j \in 1..Len(s) /\ i \in 1..Len(s) /\ i < n + j
      BY <1>1
    <3> QED BY <3>1, <2>1, <1>2, <1>3
  <2>4. \A i \in 1..n, j \in 1..(Len(s) - n) : u[i] # v[j]
    <3>1. (\A i \in 1..n : u[i] \in Nat) /\ \A j \in 1..(Len(s) - n) : v[j] \in Nat
      BY <1>2, <1>3, ElementOfSeq, RowsAreNumbers
    <3> QED BY <2>3, <3>1
  <2>5. Range(u) = {u[i] : i \in 1..n} /\ Range(v) = {v[j] : j \in 1..(Len(s) - n)}
    BY <1>2, <1>3, RangeEquality
  <2> QED BY <2>2, <2>4, <2>5
<1> QED BY <1>2, <1>3, <1>4, <1>5, <1>6 DEF u, v

LEMMA Appended ==
  ASSUME NEW t \in Seq(Rows), NEW r \in Rows
  PROVE  Range(Append(t, r)) = Range(t) \cup {r}
<1>1. <<r>> \in Seq(Rows) /\ Append(t, r) = t \o <<r>>
  BY AppendIsConcat
<1>2. Len(<<r>>) = 1 /\ <<r>>[1] = r
  OBVIOUS
<1>3. Range(<<r>>) = {<<r>>[i] : i \in 1..1}
  BY <1>1, <1>2, RangeEquality
<1>4. Range(<<r>>) = {r}
  BY <1>2, <1>3
<1> QED BY <1>1, <1>4, Joined

\* A new row behind the others.
LEMMA Behind ==
  ASSUME NEW s \in Seq(Rows), NEW t \in Seq(Rows), NEW r \in Rows,
         Increasing(s \o t), \A q \in Range(s) \cup Range(t) : q < r
  PROVE  /\ Append(t, r) \in Seq(Rows) /\ Len(Append(t, r)) = Len(t) + 1
         /\ Range(Append(t, r)) = Range(t) \cup {r}
         /\ Increasing(s \o Append(t, r))
<1> DEFINE u == s \o t
           w == s \o Append(t, r)
<1>1. Append(t, r) \in Seq(Rows) /\ Len(Append(t, r)) = Len(t) + 1
  BY AppendProperties
<1>2. <<r>> \in Seq(Rows) /\ Append(t, r) = t \o <<r>>
  BY AppendIsConcat
<1>3. w = Append(u, r)
  <2>1. w = u \o <<r>>
    BY <1>2, ConcatAssociative
  <2> QED BY <2>1, Joined, AppendIsConcat
<1>4. u \in Seq(Rows) /\ Range(u) = Range(s) \cup Range(t)
  BY Joined
<1>5. Increasing(w)
  <2>1. /\ w \in Seq(Rows) /\ Len(w) = Len(u) + 1 /\ Len(u) \in Nat
        /\ w[Len(u) + 1] = r /\ \A i \in 1..Len(u) : w[i] = u[i]
    BY <1>3, <1>4, AppendProperties, LenProperties
  <2>2. \A i, j \in 1..Len(u) : i < j => u[i] < u[j]
    BY <1>4, LenProperties DEF Increasing
  <2>3. \A i \in 1..Len(u) : u[i] < r
    BY <1>4, RangeEquality
  <2>4. \A i, j \in 1..Len(w) : i < j => w[i] < w[j]
    BY <2>1, <2>2, <2>3
  <2> QED BY <2>1, <2>4, LenProperties DEF Increasing
<1> QED BY <1>1, <1>5, Appended

\* A batch inserts at most as many rows as it has.
LEMMA FewInserted ==
  ASSUME NEW s \in Seq(Rows)
  PROVE  Inserted(Range(s)) \in 0..Len(s)
<1> DEFINE T == Range(s)
           D == DOMAIN s
<1>1. Len(s) \in Nat /\ D = 1..Len(s) /\ T = {s[i] : i \in D} /\ s \in [D -> T]
  BY LenProperties, RangeEquality
<1>2. IsFiniteSet(D) /\ Cardinality(D) = Len(s)
  BY <1>1, FS_Interval
<1>3. s \in Surjection(D, T)
  BY <1>1 DEF Surjection
<1>4. IsFiniteSet(T) /\ Cardinality(T) <= Cardinality(D)
  BY <1>2, <1>3, FS_Surjection
<1>5. IsFiniteSet(T \ db) /\ Cardinality(T \ db) <= Cardinality(T)
  BY <1>4, FS_Subset
<1>6. Cardinality(T \ db) \in Nat /\ Cardinality(T) \in Nat
  BY <1>4, <1>5, FS_CardinalityType
<1> QED BY <1>1, <1>2, <1>4, <1>5, <1>6 DEF Inserted
-----------------------------------------------------------------------------
(* The invariant.                                                            *)

LEMMA RecorderStarts == RecorderInit => RecorderInv
<1> SUFFICES ASSUME RecorderInit PROVE RecorderInv
  OBVIOUS
<1>1. queue = <<>> /\ batch = <<>> /\ orphan = <<>> /\ dropped = {} /\ db = {}
  BY DEF RecorderInit
<1>2. RecorderTypeOK
  BY RecorderAssumption, Nothing DEF RecorderInit, RecorderTypeOK
<1>3. Bounded
  BY <1>1, Nothing, RecorderAssumption DEF Bounded
<1>4. Placed
  BY <1>1, Nothing DEF Placed, Held
<1>5. InOrder
  <2>1. Line = <<>>
    BY <1>1, Nothing, Joined DEF Line
  <2>2. DOMAIN <<>> = {}
    BY Nothing, LenProperties
  <2> QED BY <2>1, <2>2 DEF InOrder, Increasing
<1>6. Buffers
  BY <1>1 DEF RecorderInit, Buffers
<1> QED BY <1>2, <1>3, <1>4, <1>5, <1>6 DEF RecorderInv

LEMMA RecordKeeps == ASSUME RecorderInv, NEW fit \in BOOLEAN, Record(fit) PROVE RecorderInv'
<1> USE DEF RecorderInv
<1>1. /\ phase = "running" /\ made \in Nat /\ made < MaxRows /\ made' = made + 1
      /\ UNCHANGED <<kind, phase, batch, write, fresh, orphan, saved, db, faults>>
  BY RecorderAssumption DEF Record, RecorderTypeOK
<1>2. made' \in Rows /\ 1..made \subseteq 1..made' /\ made' \notin 1..made /\ made' \in 1..made'
  BY <1>1, RecorderAssumption DEF Rows
<1>3. \A r \in Held : r \in Rows /\ r < made'
  BY <1>1, <1>2, RecorderAssumption DEF Placed, Rows
<1>4. CASE Len(queue) < MaxQueue /\ queue' = Append(queue, made') /\ UNCHANGED dropped
  <2>1. queue \in Seq(Rows) /\ batch \in Seq(Rows) /\ Increasing(batch \o queue)
    BY DEF RecorderTypeOK, InOrder, Line
  <2>2. \A q \in Range(batch) \cup Range(queue) : q < made'
    BY <1>3 DEF Held
  <2>3. /\ queue' \in Seq(Rows) /\ Len(queue') = Len(queue) + 1
        /\ Range(queue') = Range(queue) \cup {made'}
        /\ Increasing(batch \o queue')
    BY <2>1, <2>2, <1>2, <1>4, Behind
  <2>4. Held' = Held \cup {made'}
    BY <2>3, <1>1 DEF Held
  <2>5. RecorderTypeOK'
    <3>1. Len(queue') <= MaxQueue /\ Len(queue') \in Nat
      BY <2>1, <2>3, <1>4, LenProperties, RecorderAssumption
    <3>2. made' \in 0..MaxRows
      BY <1>1, RecorderAssumption
    <3> QED BY <3>1, <3>2, <2>3, <1>1, <1>4, RecorderAssumption DEF RecorderTypeOK
  <2>6. Bounded'
    <3>1. Len(batch) \in Nat /\ Len(batch) <= BatchSize /\ Len(queue) \in Nat
      BY <2>1, LenProperties DEF RecorderTypeOK
    <3> QED BY <3>1, <2>3, <1>1, <1>4, RecorderAssumption DEF Bounded
  <2>7. Placed'
    BY <2>4, <1>1, <1>2, <1>4 DEF Placed
  <2>8. InOrder'
    BY <2>3, <1>1 DEF InOrder, Line
  <2>9. Buffers'
    BY <1>1 DEF Buffers
  <2> QED BY <2>5, <2>6, <2>7, <2>8, <2>9
<1>5. CASE dropped' = dropped \cup {made'} /\ UNCHANGED queue
  <2>1. Held' = Held
    BY <1>1, <1>5 DEF Held
  <2>2. RecorderTypeOK'
    <3>1. made' \in 0..MaxRows
      BY <1>1, RecorderAssumption
    <3> QED BY <3>1, <1>1, <1>2, <1>5 DEF RecorderTypeOK
  <2>3. Placed'
    BY <2>1, <1>1, <1>2, <1>5 DEF Placed
  <2> QED BY <2>2, <2>3, <1>1, <1>5 DEF Bounded, InOrder, Line, Buffers
<1> QED BY <1>4, <1>5 DEF Record

LEMMA TakeBatchKeeps == ASSUME RecorderInv, TakeBatch PROVE RecorderInv'
<1> USE DEF RecorderInv
<1> DEFINE rest == SubSeq(queue, Size + 1, Len(queue))
<1>1. /\ batch = <<>> /\ orphan' = orphan /\ phase \in {"running", "draining"}
      /\ batch' = SubSeq(queue, 1, Size) /\ queue' = rest /\ write' = "busy"
      /\ UNCHANGED <<kind, phase, made, fresh, saved, dropped, db, faults>>
  BY DEF TakeBatch, Buffers
<1>2. queue \in Seq(Rows) /\ Len(queue) \in Nat
  BY LenProperties DEF RecorderTypeOK
<1>3. Size \in 0..Len(queue) /\ Size <= BatchSize
  BY <1>2, RecorderAssumption DEF Size
<1>4. /\ batch' \in Seq(Rows) /\ queue' \in Seq(Rows) /\ batch' \o queue' = queue
      /\ Len(batch') = Size /\ Len(queue') = Len(queue) - Size
      /\ Range(batch') \cup Range(queue') = Range(queue)
  BY <1>1, <1>2, <1>3, Cut
<1>5. Line' = Line
  BY <1>1, <1>2, <1>4, Joined DEF Line
<1>6. Held' = Held
  BY <1>1, <1>4, Nothing DEF Held
<1>7. RecorderTypeOK'
  <2>1. Len(queue') <= Len(queue) /\ Len(queue') \in Nat
    BY <1>2, <1>3, <1>4
  <2>2. Len(queue') <= IF kind = "candidate" THEN MaxQueue ELSE MaxQueue + BatchSize
    BY <2>1, <1>2, RecorderAssumption DEF RecorderTypeOK
  <2> QED BY <2>2, <1>1, <1>3, <1>4 DEF RecorderTypeOK
<1>8. Bounded'
  <2>1. Len(queue) <= MaxQueue + BatchSize /\ (kind = "candidate" => Len(queue) <= MaxQueue)
    BY <1>2, RecorderAssumption DEF RecorderTypeOK
  <2>2. Len(batch') + Len(queue') = Len(queue) /\ Len(queue') <= Len(queue) /\ Len(queue') \in Nat
    BY <1>2, <1>3, <1>4
  <2>3. kind' = kind
    BY <1>1
  <2> QED BY <2>1, <2>2, <2>3, <1>2, RecorderAssumption DEF Bounded
<1>9. Placed' /\ InOrder'
  BY <1>1, <1>5, <1>6 DEF Placed, InOrder
<1>10. Buffers'
  BY <1>1 DEF Buffers
<1> QED BY <1>7, <1>8, <1>9, <1>10

\* A write inserts rows of a buffer.
LEMMA InsertKeeps ==
  ASSUME RecorderInv, NEW lines, lines \subseteq Held, Insert(lines)
  PROVE  db' \subseteq Rows /\ db' \subseteq 1..made /\ db \subseteq db'
<1>1. 1..made \subseteq Rows
  BY RecorderAssumption DEF RecorderInv, RecorderTypeOK, Rows
<1> QED BY <1>1 DEF RecorderInv, Placed, Insert

LEMMA CommitKeeps == ASSUME RecorderInv, Commit PROVE RecorderInv'
<1> USE DEF RecorderInv
<1>1. /\ write = "busy" /\ write' = "saved" /\ db' = db \cup Range(batch)
      /\ fresh' = Inserted(Range(batch))
      /\ UNCHANGED <<kind, phase, made, queue, batch, orphan, saved, dropped, faults>>
  BY DEF Commit, Insert
<1>2. db' \subseteq Rows /\ db' \subseteq 1..made
  BY <1>1, InsertKeeps DEF Held, Insert
<1>3. fresh' \in 0..BatchSize
  <2>1. batch \in Seq(Rows) /\ Len(batch) \in Nat /\ Len(batch) <= BatchSize
    BY LenProperties DEF RecorderTypeOK
  <2> QED BY <2>1, <1>1, FewInserted, RecorderAssumption
<1>4. Placed'
  BY <1>1, <1>2 DEF Placed, Held
<1>5. RecorderTypeOK'
  BY <1>1, <1>2, <1>3 DEF RecorderTypeOK
<1>6. Buffers'
  BY <1>1 DEF Buffers
<1> QED BY <1>1, <1>4, <1>5, <1>6 DEF Bounded, InOrder, Line

LEMMA FailKeeps == ASSUME RecorderInv, Fail PROVE RecorderInv'
<1> USE DEF RecorderInv
<1>1. /\ write = "busy" /\ write' = "failed" /\ faults < MaxFaults /\ faults' = faults + 1
      /\ UNCHANGED <<kind, phase, made, queue, batch, fresh, orphan, saved, dropped>>
  BY DEF Fail
<1>2. db' \subseteq Rows /\ db' \subseteq 1..made
  <2>1. CASE UNCHANGED db
    BY <2>1 DEF RecorderTypeOK, Placed
  <2>2. CASE Insert(Range(batch))
    BY <2>2, InsertKeeps DEF Held
  <2> QED BY <2>1, <2>2 DEF Fail
<1>3. faults' \in 0..MaxFaults
  BY <1>1, RecorderAssumption DEF RecorderTypeOK
<1>4. Placed'
  BY <1>1, <1>2 DEF Placed, Held
<1>5. RecorderTypeOK'
  BY <1>1, <1>2, <1>3 DEF RecorderTypeOK
<1>6. Buffers'
  BY <1>1 DEF Buffers
<1> QED BY <1>1, <1>4, <1>5, <1>6 DEF Bounded, InOrder, Line

\* The batch is saved or abandoned: the queue alone is left of the line.
LEMMA BatchGone ==
  ASSUME RecorderInv, batch' = <<>>, UNCHANGED <<kind, queue>>
  PROVE  Bounded' /\ InOrder'
<1>1. queue \in Seq(Rows) /\ batch \in Seq(Rows) /\ Increasing(batch \o queue)
  BY DEF RecorderInv, RecorderTypeOK, InOrder, Line
<1>2. Increasing(queue) /\ Line' = queue
  BY <1>1, TailIncreases, Joined DEF Line
<1>3. Len(batch) \in Nat /\ Len(queue) \in Nat
  BY <1>1, LenProperties
<1> QED BY <1>2, <1>3, Nothing, RecorderAssumption DEF RecorderInv, Bounded, InOrder

LEMMA FlushSavedKeeps == ASSUME RecorderInv, FlushSaved PROVE RecorderInv'
<1> USE DEF RecorderInv
<1>1. /\ write = "saved" /\ saved' = saved + fresh /\ phase' = After(fresh)
      /\ batch' = <<>> /\ write' = "none" /\ fresh' = 0
      /\ UNCHANGED <<kind, made, queue, orphan, dropped, db, faults>>
  BY DEF FlushSaved
<1>2. Bounded' /\ InOrder'
  BY <1>1, BatchGone
<1>3. RecorderTypeOK'
  BY <1>1, Nothing, RecorderAssumption DEF RecorderTypeOK, After
<1>4. Placed'
  BY <1>1, Nothing DEF Placed, Held
<1>5. Buffers'
  BY <1>1 DEF Buffers, After
<1> QED BY <1>2, <1>3, <1>4, <1>5

\* What Restore does with the rows of the line.
LEMMA RestoreKeeps ==
  ASSUME RecorderInv, Restore, kind' = kind, batch' = <<>>
  PROVE  /\ queue' \in Seq(Rows) /\ Increasing(queue')
         /\ Len(queue') <= IF kind = "candidate" THEN MaxQueue ELSE MaxQueue + BatchSize
         /\ dropped \subseteq dropped' /\ dropped' \subseteq Rows
         /\ Range(queue') \cup dropped' = Range(batch) \cup Range(queue) \cup dropped
         /\ Range(queue') \cap dropped' = {}
         /\ kind = "decision" => dropped' = dropped
<1> DEFINE both == batch \o queue
<1>1. /\ batch \in Seq(Rows) /\ queue \in Seq(Rows) /\ both \in Seq(Rows) /\ Increasing(both)
      /\ Len(both) = Len(batch) + Len(queue) /\ Len(both) \in Nat
      /\ Range(both) = Range(batch) \cup Range(queue)
      /\ Range(both) \cap dropped = {} /\ dropped \subseteq Rows
  BY Joined, LenProperties DEF RecorderInv, RecorderTypeOK, InOrder, Line, Placed, Held
<1>2. CASE kind = "decision" /\ queue' = both /\ UNCHANGED dropped
  BY <1>1, <1>2 DEF RecorderInv, Bounded
<1>3. CASE kind = "candidate" /\ queue' = FirstRows(both)
           /\ dropped' = dropped \cup Range(LastRows(both))
  <2> HIDE DEF both
  <2>1. CASE Len(both) <= MaxQueue
    <3>1. queue' = both /\ dropped' = dropped
      BY <2>1, <1>1, <1>3, Nothing, RecorderAssumption DEF FirstRows, LastRows
    <3> QED BY <3>1, <2>1, <1>1, <1>3
  <2>2. CASE Len(both) > MaxQueue
    <3> DEFINE rest == SubSeq(both, MaxQueue + 1, Len(both))
    <3>1. queue' = SubSeq(both, 1, MaxQueue) /\ dropped' = dropped \cup Range(rest)
      BY <2>2, <1>3 DEF FirstRows, LastRows
    <3>2. MaxQueue \in 0..Len(both)
      BY <2>2, <1>1, RecorderAssumption
    <3>3. /\ queue' \in Seq(Rows) /\ rest \in Seq(Rows) /\ Len(queue') = MaxQueue
          /\ Range(queue') \cup Range(rest) = Range(both)
          /\ Increasing(queue') /\ Range(queue') \cap Range(rest) = {}
      BY <3>1, <3>2, <1>1, Cut
    <3>4. Range(rest) \subseteq Rows
      BY <3>3, RangeOfSeq
    <3> QED BY <3>1, <3>3, <3>4, <1>1, <1>3, RecorderAssumption
  <2> QED BY <2>1, <2>2, <1>1, RecorderAssumption
<1> QED BY <1>2, <1>3 DEF Restore

LEMMA FlushFailedKeeps == ASSUME RecorderInv, FlushFailed PROVE RecorderInv'
<1> USE DEF RecorderInv
<1>1. /\ write = "failed" /\ Restore /\ phase' = After(0) /\ batch' = <<>> /\ write' = "none"
      /\ UNCHANGED <<kind, made, fresh, orphan, saved, db, faults>>
  BY DEF FlushFailed
<1>2. /\ queue' \in Seq(Rows) /\ Increasing(queue')
      /\ Len(queue') <= IF kind = "candidate" THEN MaxQueue ELSE MaxQueue + BatchSize
      /\ dropped' \subseteq Rows
      /\ Range(queue') \cup dropped' = Range(batch) \cup Range(queue) \cup dropped
      /\ Range(queue') \cap dropped' = {}
      /\ kind = "decision" => dropped' = dropped
  BY <1>1, RestoreKeeps
<1>3. RecorderTypeOK'
  BY <1>1, <1>2, Nothing, RecorderAssumption DEF RecorderTypeOK, After
<1>4. Bounded'
  BY <1>1, <1>2, Nothing, LenProperties, RecorderAssumption DEF Bounded, RecorderTypeOK
<1>5. InOrder'
  BY <1>1, <1>2, Joined DEF InOrder, Line
<1>6. Placed'
  <2>1. Range(orphan) \cap dropped' = {}
    <3>1. CASE orphan = <<>>
      BY <3>1, Nothing
    <3>2. CASE orphan # <<>>
      BY <3>2, <1>2 DEF Buffers, Placed, Held
    <3> QED BY <3>1, <3>2
  <2> QED BY <2>1, <1>1, <1>2, Nothing DEF Placed, Held
<1>7. Buffers'
  BY <1>1 DEF Buffers, After, RecorderTypeOK
<1> QED BY <1>3, <1>4, <1>5, <1>6, <1>7

LEMMA StopDecisionKeeps == ASSUME RecorderInv, StopDecision PROVE RecorderInv'
<1> USE DEF RecorderInv
<1>1. /\ kind = "decision" /\ phase = "running" /\ phase' = "draining"
      /\ orphan' = (IF write = "busy" THEN batch ELSE <<>>)
      /\ batch' = <<>> /\ write' = "none" /\ fresh' = 0
      /\ UNCHANGED <<kind, made, queue, saved, dropped, db, faults>>
  BY DEF StopDecision
<1>2. Bounded' /\ InOrder'
  BY <1>1, BatchGone
<1>3. RecorderTypeOK'
  BY <1>1, Nothing, RecorderAssumption DEF RecorderTypeOK
<1>4. Placed'
  BY <1>1, Nothing DEF Placed, Held
<1>5. Buffers'
  BY <1>1 DEF Buffers
<1> QED BY <1>2, <1>3, <1>4, <1>5

LEMMA OrphanEndsKeeps == ASSUME RecorderInv, OrphanEnds PROVE RecorderInv'
<1> USE DEF RecorderInv
<1>1. /\ orphan' = <<>>
      /\ UNCHANGED <<kind, phase, made, queue, batch, write, fresh, saved, dropped>>
  BY DEF OrphanEnds
<1>2. db' \subseteq Rows /\ db' \subseteq 1..made /\ db \subseteq db'
  <2>1. CASE UNCHANGED db
    BY <2>1 DEF RecorderTypeOK, Placed
  <2>2. CASE Insert(Range(orphan))
    BY <2>2, InsertKeeps DEF Held
  <2> QED BY <2>1, <2>2 DEF OrphanEnds
<1>3. faults' \in 0..MaxFaults
  BY RecorderAssumption DEF OrphanEnds, RecorderTypeOK
<1>4. RecorderTypeOK'
  BY <1>1, <1>2, <1>3, Nothing, RecorderAssumption DEF RecorderTypeOK
<1>5. Placed'
  BY <1>1, <1>2, Nothing DEF Placed, Held
<1>6. Buffers'
  BY <1>1, <1>2 DEF Buffers
<1> QED BY <1>1, <1>4, <1>5, <1>6 DEF Bounded, InOrder, Line

LEMMA StepKeeps == ASSUME RecorderInv, [RecorderNext]_recorderVars PROVE RecorderInv'
<1>1. ASSUME NEW fit \in BOOLEAN, Record(fit) PROVE RecorderInv'
  BY <1>1, RecordKeeps
<1>2. CASE TakeBatch
  BY <1>2, TakeBatchKeeps
<1>3. CASE Commit
  BY <1>3, CommitKeeps
<1>4. CASE Fail
  BY <1>4, FailKeeps
<1>5. CASE FlushSaved
  BY <1>5, FlushSavedKeeps
<1>6. CASE FlushFailed
  BY <1>6, FlushFailedKeeps
<1>7. CASE Start \/ StopCandidate \/ Drained
  <2>1. UNCHANGED <<kind, made, buffers, saved, dropped, db, faults>>
    BY <1>7 DEF Start, StopCandidate, Drained
  <2>2. /\ phase' \in {"running", "stopping", "draining", "ended"}
        /\ phase' = "stopping" => kind = "candidate"
        /\ phase \in {"draining", "ended"} => phase' \in {"draining", "ended"}
    BY <1>7 DEF Start, StopCandidate, Drained
  <2> QED BY <2>1, <2>2 DEF buffers, RecorderInv, RecorderTypeOK, Bounded, Placed, Held, InOrder,
                            Line, Buffers
<1>8. CASE StopDecision
  BY <1>8, StopDecisionKeeps
<1>9. CASE OrphanEnds
  BY <1>9, OrphanEndsKeeps
<1>10. CASE UNCHANGED recorderVars
  BY <1>10 DEF recorderVars, RecorderInv, RecorderTypeOK, Bounded, Placed, Held, InOrder, Line,
               Buffers
<1> QED BY <1>1, <1>2, <1>3, <1>4, <1>5, <1>6, <1>7, <1>8, <1>9, <1>10 DEF RecorderNext

\* The inductive invariant of the recorders.
LEMMA RecorderInvHolds == RecorderSpec => []RecorderInv
<1>1. RecorderInit => RecorderInv
  BY RecorderStarts
<1>2. RecorderInv /\ [RecorderNext]_recorderVars => RecorderInv'
  BY StepKeeps
<1> QED BY <1>1, <1>2, PTL DEF RecorderSpec

\* The recorders keep within their memory: the queue of the candidate recorder
\* never exceeds max_queue, and that of the decision recorder exceeds it by a
\* single batch that failed, at any time and after any number of failures.
THEOREM MemoryIsBounded == RecorderSpec => []RecorderTypeOK
<1>1. RecorderInv => RecorderTypeOK
  BY DEF RecorderInv
<1> QED BY <1>1, RecorderInvHolds, PTL
-----------------------------------------------------------------------------
(* A clean stop.                                                             *)

\* As long as no write has failed, no row is lost, the rows that wait for a write
\* are not in the table, so that every write inserts some, and draining goes on
\* until the queue is empty.
Clean ==
  faults = 0 =>
    /\ Lost = {} /\ write # "failed"
    /\ Range(queue) \cap (db \cup Range(orphan)) = {}
    /\ write = "busy" => batch # <<>> /\ Range(batch) \cap (db \cup Range(orphan)) = {}
    /\ write = "saved" => fresh # 0
    /\ phase = "ended" => queue = <<>> /\ write = "none"

LEMMA CleanStarts == RecorderInit => Clean
<1> SUFFICES ASSUME RecorderInit PROVE Clean
  OBVIOUS
<1>1. made = 0 /\ queue = <<>> /\ batch = <<>> /\ orphan = <<>> /\ write = "none" /\ phase = "off"
  BY DEF RecorderInit
<1>2. 1..made = {}
  BY <1>1
<1> QED BY <1>1, <1>2, Nothing DEF Clean, Lost

\* A write of rows that are not in the table inserts some.
LEMMA SomeInserted ==
  ASSUME NEW s \in Seq(Rows), s # <<>>, Range(s) \cap db = {}
  PROVE  Inserted(Range(s)) # 0
<1>1. Len(s) \in Nat \ {0} /\ DOMAIN s = 1..Len(s) /\ Range(s) = {s[i] : i \in 1..Len(s)}
  BY LenProperties, EmptySeq, RangeEquality
<1>2. s[1] \in Range(s) \ db
  BY <1>1
<1>3. IsFiniteSet(Range(s))
  <2>1. IsFiniteSet(1..Len(s)) /\ s \in [1..Len(s) -> Range(s)]
    BY <1>1, LenProperties, FS_Interval
  <2>2. s \in Surjection(1..Len(s), Range(s))
    BY <2>1, <1>1 DEF Surjection
  <2> QED BY <2>1, <2>2, FS_Surjection
<1>4. IsFiniteSet(Range(s) \ db)
  BY <1>3, FS_Subset
<1> QED BY <1>2, <1>4, FS_EmptySet DEF Inserted

\* The rows of a batch are not on the queue.
LEMMA Apart == ASSUME RecorderInv PROVE Range(batch) \cap Range(queue) = {}
<1>1. /\ batch \in Seq(Rows) /\ queue \in Seq(Rows) /\ Increasing(batch \o queue)
      /\ Len(batch) \in Nat /\ Len(queue) \in Nat
  BY LenProperties DEF RecorderInv, RecorderTypeOK, InOrder, Line
<1> DEFINE both == batch \o queue
<1>2. /\ Len(both) = Len(batch) + Len(queue) /\ both \in Seq(Rows)
      /\ \A i \in 1..Len(batch) : both[i] = batch[i]
      /\ \A j \in 1..Len(queue) : both[Len(batch) + j] = queue[j]
  BY <1>1, ConcatProperties
<1>3. \A i, j \in 1..Len(both) : i < j => both[i] < both[j]
  BY <1>1, <1>2, LenProperties DEF Increasing
<1> HIDE DEF both
<1>4. \A i \in 1..Len(batch), j \in 1..Len(queue) : batch[i] < queue[j]
  BY <1>1, <1>2, <1>3
<1>5. (\A i \in 1..Len(batch) : batch[i] \in Nat) /\ \A j \in 1..Len(queue) : queue[j] \in Nat
  BY <1>1, ElementOfSeq, RowsAreNumbers
<1>6. Range(batch) = {batch[i] : i \in 1..Len(batch)} /\ Range(queue) = {queue[j] : j \in 1..Len(queue)}
  BY <1>1, RangeEquality
<1> QED BY <1>4, <1>5, <1>6

LEMMA CleanKeeps ==
  ASSUME RecorderInv, RecorderInv', Clean, [RecorderNext]_recorderVars
  PROVE  Clean'
<1> SUFFICES ASSUME faults' = 0 PROVE Clean'
  BY DEF Clean
<1>1. faults = 0
  <2>1. faults \in Nat
    BY RecorderAssumption DEF RecorderInv, RecorderTypeOK
  <2> QED BY <2>1 DEF RecorderNext, recorderVars, buffers, Record, TakeBatch, Commit, Fail, FlushSaved,
             FlushFailed, Start, StopCandidate, StopDecision, OrphanEnds, Drained
<1>2. /\ 1..made \subseteq Held \cup dropped \cup db /\ write # "failed"
      /\ Range(queue) \cap (db \cup Range(orphan)) = {}
      /\ write = "busy" => batch # <<>> /\ Range(batch) \cap (db \cup Range(orphan)) = {}
      /\ write = "saved" => fresh # 0
      /\ phase = "ended" => queue = <<>> /\ write = "none"
  BY <1>1 DEF Clean, Lost
<1>3. /\ queue \in Seq(Rows) /\ batch \in Seq(Rows) /\ orphan \in Seq(Rows)
      /\ write = "none" => batch = <<>>
      /\ write = "saved" => Range(batch) \subseteq db
      /\ Held \cup dropped \cup db \subseteq 1..made
      /\ orphan # <<>> => phase \in {"draining", "ended"}
  BY DEF RecorderInv, RecorderTypeOK, Buffers, Placed
<1> DEFINE Goal == /\ 1..made' \subseteq Held' \cup dropped' \cup db' /\ write' # "failed"
                   /\ Range(queue') \cap (db' \cup Range(orphan')) = {}
                   /\ write' = "busy" =>
                        batch' # <<>> /\ Range(batch') \cap (db' \cup Range(orphan')) = {}
                   /\ write' = "saved" => fresh' # 0
                   /\ phase' = "ended" => queue' = <<>> /\ write' = "none"
<1>4. SUFFICES Goal
  BY DEF Clean, Lost
<1>5. ASSUME NEW fit \in BOOLEAN, Record(fit) PROVE Goal
  <2>1. /\ phase = "running" /\ made \in Nat /\ made' = made + 1
        /\ UNCHANGED <<kind, phase, batch, write, fresh, orphan, saved, db, faults>>
    BY <1>5, RecorderAssumption DEF Record, RecorderInv, RecorderTypeOK
  <2>2. 1..made' = (1..made) \cup {made'} /\ made' \notin 1..made /\ orphan = <<>>
    BY <2>1, <1>3
  <2>3. made' \in Rows
    BY <2>1, <1>5, RecorderAssumption DEF Record, Rows
  <2>4. CASE queue' = Append(queue, made') /\ UNCHANGED dropped
    <3>1. Range(queue') = Range(queue) \cup {made'}
      BY <2>3, <2>4, <1>3, Appended
    <3>2. Held' = Held \cup {made'}
      BY <3>1, <2>1 DEF Held
    <3>3. made' \notin db
      BY <2>2, <1>3
    <3> QED BY <3>1, <3>2, <3>3, <2>1, <2>2, <2>4, <1>2, Nothing
  <2>5. CASE dropped' = dropped \cup {made'} /\ UNCHANGED queue
    <3>1. Held' = Held
      BY <2>1, <2>5 DEF Held
    <3> QED BY <3>1, <2>1, <2>2, <2>5, <1>2
  <2> QED BY <1>5, <2>4, <2>5 DEF Record
<1>6. CASE TakeBatch
  <2>1. /\ batch = <<>> /\ queue # <<>> /\ phase # "ended" /\ write' = "busy"
        /\ batch' = SubSeq(queue, 1, Size) /\ queue' = SubSeq(queue, Size + 1, Len(queue))
        /\ UNCHANGED <<kind, phase, made, fresh, orphan, saved, dropped, db, faults>>
    BY <1>6, <1>3 DEF TakeBatch
  <2>2. Len(queue) \in Nat \ {0} /\ Size \in 1..Len(queue)
    BY <2>1, <1>3, LenProperties, EmptySeq, RecorderAssumption DEF Size
  <2>3. Size \in 0..Len(queue)
    BY <2>2
  <2>4. Range(batch') \cup Range(queue') = Range(queue) /\ Len(batch') = Size
    BY <2>1, <2>3, <1>3, Cut
  <2>5. batch' # <<>>
    BY <2>4, <2>2, Nothing
  <2>6. Held' = Held
    BY <2>1, <2>4, Nothing DEF Held
  <2> QED BY <2>1, <2>4, <2>5, <2>6, <1>2
<1>7. CASE Commit
  <2>1. /\ write = "busy" /\ write' = "saved" /\ phase # "ended"
        /\ db' = db \cup Range(batch) /\ fresh' = Inserted(Range(batch))
        /\ UNCHANGED <<kind, phase, made, queue, batch, orphan, saved, dropped, faults>>
    BY <1>7, <1>2 DEF Commit, Insert
  <2>2. fresh' # 0
    BY <2>1, <1>2, <1>3, SomeInserted
  <2>3. Range(batch) \cap Range(queue) = {}
    BY Apart
  <2>4. Held' = Held
    BY <2>1 DEF Held
  <2> QED BY <2>1, <2>2, <2>3, <2>4, <1>2
<1>8. CASE FlushSaved
  <2>1. /\ write = "saved" /\ batch' = <<>> /\ write' = "none" /\ phase' = After(fresh)
        /\ UNCHANGED <<kind, made, queue, orphan, dropped, db, faults>>
    BY <1>8 DEF FlushSaved
  <2>2. phase' # "ended"
    BY <2>1, <1>2 DEF After
  <2>3. Held \subseteq Held' \cup db'
    BY <2>1, <1>3 DEF Held
  <2> QED BY <2>1, <2>2, <2>3, <1>2
<1>9. CASE Start \/ StopCandidate \/ Drained
  <2>1. UNCHANGED <<kind, made, queue, batch, write, fresh, orphan, saved, dropped, db, faults>>
    BY <1>9 DEF Start, StopCandidate, Drained, buffers
  <2>2. phase' = "ended" => queue = <<>> /\ write = "none"
    BY <1>9 DEF Start, StopCandidate, Drained
  <2> QED BY <2>1, <2>2, <1>2 DEF Held
<1>10. CASE StopDecision
  <2>1. /\ phase = "running" /\ phase' = "draining" /\ write' = "none" /\ batch' = <<>>
        /\ orphan' = (IF write = "busy" THEN batch ELSE <<>>)
        /\ UNCHANGED <<kind, made, queue, saved, dropped, db, faults>>
    BY <1>10 DEF StopDecision
  <2>2. orphan = <<>> /\ Range(batch) \cap Range(queue) = {}
    BY <2>1, <1>3, Apart
  <2>3. write = "busy" \/ Range(batch) \subseteq db
    BY <1>2, <1>3, Nothing DEF RecorderInv, RecorderTypeOK
  <2>4. Held \subseteq Held' \cup db'
    BY <2>1, <2>2, <2>3, Nothing DEF Held
  <2> QED BY <2>1, <2>2, <2>4, <1>2, Nothing
<1>11. CASE OrphanEnds
  <2>1. /\ orphan' = <<>> /\ db' = db \cup Range(orphan)
        /\ UNCHANGED <<kind, phase, made, queue, batch, write, fresh, saved, dropped>>
    BY <1>1, <1>11 DEF OrphanEnds, Insert
  <2>2. Held \subseteq Held' \cup db'
    BY <2>1 DEF Held
  <2> QED BY <2>1, <2>2, <1>2, Nothing
<1>12. CASE UNCHANGED recorderVars
  BY <1>12, <1>2 DEF recorderVars, Held
<1>13. ~Fail /\ ~FlushFailed
  BY <1>1, <1>2 DEF Fail, FlushFailed
<1> QED BY <1>5, <1>6, <1>7, <1>8, <1>9, <1>10, <1>11, <1>12, <1>13 DEF RecorderNext

\* stop() saves everything that was accepted when no write failed, for any sizes
\* of batch and queue, whenever it is called: also while a batch is being written.
THEOREM CleanStopsLoseNothing == RecorderSpec => []CleanStopSavesAll
<1>1. RecorderInv /\ Clean => CleanStopSavesAll
  <2> SUFFICES ASSUME RecorderInv, Clean, phase = "ended", faults = 0
               PROVE  1..made \subseteq db \cup dropped \cup Range(orphan)
    BY DEF CleanStopSavesAll
  <2>1. Lost = {} /\ queue = <<>> /\ batch = <<>>
    BY DEF Clean, RecorderInv, Buffers
  <2> QED BY <2>1, Nothing DEF Lost, Held
<1>2. RecorderInv /\ RecorderInv' /\ Clean /\ [RecorderNext]_recorderVars => Clean'
  BY CleanKeeps
<1> QED BY <1>1, <1>2, CleanStarts, RecorderInvHolds, PTL DEF RecorderSpec
-----------------------------------------------------------------------------
(* The promise.                                                              *)

\* Rows that are held and not in the table are the ones that wait.
LEMMA WhatWaits ==
  ASSUME RecorderInv
  PROVE  /\ Promise!Waiting = Held \ db
         /\ Held \subseteq 1..made /\ dropped \subseteq 1..made /\ db \subseteq 1..made
BY DEF RecorderInv, Placed, Promise!Waiting, Lost

\* Rows get into the table; none is lost.
LEMMA IsStore ==
  ASSUME RecorderInv, NEW lines, lines \subseteq Held, Insert(lines),
         made' = made, Held' \cup db' = Held \cup db', dropped' = dropped,
         kind' = kind, phase' = phase
  PROVE  Promise!Next
<1>1. db' = db \cup (lines \ db) /\ lines \ db \in SUBSET Promise!Waiting
  BY WhatWaits DEF Insert
<1>2. dropped' \ db' = dropped \ db /\ Lost' = Lost
  BY <1>1, WhatWaits DEF Insert, Lost, RecorderInv, Placed
<1>3. (kind = "decision" /\ phase \in {"draining", "ended"})'
        = (kind = "decision" /\ phase \in {"draining", "ended"})
  OBVIOUS
<1>4. Promise!Store
  BY <1>1, <1>2, <1>3 DEF Promise!Store
<1> QED BY <1>4 DEF Promise!Next

\* Rows that wait are lost, or none are.
LEMMA IsStill ==
  ASSUME RecorderInv, made' = made, db' = db, dropped' = dropped, Held' \cup db = Held \cup db,
         kind' = kind,
         kind = "decision" => (phase' \in {"draining", "ended"} <=> phase \in {"draining", "ended"})
  PROVE  UNCHANGED Promise!vars
<1>1. Lost' = Lost
  BY DEF Lost
<1>2. (kind = "decision" /\ phase \in {"draining", "ended"})'
        = (kind = "decision" /\ phase \in {"draining", "ended"})
  OBVIOUS
<1> QED BY <1>1, <1>2 DEF Promise!vars
LEMMA StepIsPromised ==
  ASSUME RecorderInv, RecorderInv', [RecorderNext]_recorderVars
  PROVE  [Promise!Next]_Promise!vars
<1> DEFINE may == kind = "decision" /\ phase \in {"draining", "ended"}
<1>1. ASSUME NEW fit \in BOOLEAN, Record(fit) PROVE Promise!Next
  <2>1. /\ made \in Nat /\ made < MaxRows /\ made' = made + 1
        /\ UNCHANGED <<kind, phase, batch, write, fresh, orphan, saved, db, faults>>
    BY <1>1, RecorderAssumption DEF Record, RecorderInv, RecorderTypeOK
  <2>2. made' \in Rows \ 1..made /\ 1..made' = (1..made) \cup {made'}
    BY <2>1, RecorderAssumption DEF Rows
  <2>3. may' = may
    BY <2>1
  <2>4. made' \notin db /\ made' \notin dropped /\ made' \notin Held
    BY <2>2, WhatWaits
  <2>5. CASE Len(queue) < MaxQueue /\ queue' = Append(queue, made') /\ UNCHANGED dropped
    <3>1. queue \in Seq(Rows) /\ made' \in Rows
      BY <2>2 DEF RecorderInv, RecorderTypeOK
    <3>2. Range(queue') = Range(queue) \cup {made'}
      BY <3>1, <2>5, Appended
    <3>3. Held' = Held \cup {made'}
      BY <3>2, <2>1 DEF Held
    <3>4. Lost' = Lost
      BY <3>3, <2>1, <2>2, <2>4, <2>5 DEF Lost
    <3>5. dropped' \ db' = dropped \ db
      BY <2>1, <2>5
    <3>6. Promise!Offer
      BY <3>4, <3>5, <2>1, <2>2, <2>3 DEF Promise!Offer
    <3> QED BY <3>6 DEF Promise!Next
  <2>6. CASE dropped' = dropped \cup {made'} /\ UNCHANGED queue
    <3>1. Held' = Held
      BY <2>1, <2>6 DEF Held
    <3>2. Lost' = Lost
      BY <3>1, <2>1, <2>2, <2>4, <2>6 DEF Lost
    <3>3. dropped' \ db' = (dropped \ db) \cup {made'}
      BY <2>1, <2>4, <2>6
    <3>4. Promise!Offer
      BY <3>2, <3>3, <2>1, <2>2, <2>3 DEF Promise!Offer
    <3> QED BY <3>4 DEF Promise!Next
  <2> QED BY <1>1, <2>5, <2>6 DEF Record
<1>2. CASE TakeBatch
  <2>1. /\ batch = <<>> /\ UNCHANGED <<kind, phase, made, orphan, dropped, db>>
        /\ batch' = SubSeq(queue, 1, Size) /\ queue' = SubSeq(queue, Size + 1, Len(queue))
    BY <1>2 DEF TakeBatch, RecorderInv, Buffers
  <2>2. queue \in Seq(Rows) /\ Size \in 0..Len(queue)
    BY LenProperties, RecorderAssumption DEF RecorderInv, RecorderTypeOK, Size
  <2>3. Range(batch') \cup Range(queue') = Range(queue)
    BY <2>1, <2>2, Cut
  <2>4. Held' = Held
    BY <2>1, <2>3, Nothing DEF Held
  <2> QED BY <2>1, <2>4, IsStill
<1>3. CASE Commit
  <2>1. Insert(Range(batch)) /\ UNCHANGED <<kind, phase, made, queue, batch, orphan, dropped>>
    BY <1>3 DEF Commit
  <2> QED BY <2>1, IsStore DEF Held
<1>4. CASE Fail
  <2>1. UNCHANGED <<kind, phase, made, queue, batch, orphan, dropped>>
    BY <1>4 DEF Fail
  <2>2. CASE UNCHANGED db
    BY <2>1, <2>2, IsStill DEF Held
  <2>3. CASE Insert(Range(batch))
    BY <2>1, <2>3, IsStore DEF Held
  <2> QED BY <1>4, <2>2, <2>3 DEF Fail
<1>5. CASE FlushSaved
  <2>1. /\ batch' = <<>> /\ Range(batch) \subseteq db /\ phase' = After(fresh)
        /\ UNCHANGED <<kind, made, queue, orphan, dropped, db>>
    BY <1>5 DEF FlushSaved, RecorderInv, Buffers
  <2>2. Held' \cup db = Held \cup db
    BY <2>1, Nothing DEF Held
  <2>3. kind = "decision" => (phase' \in {"draining", "ended"} <=> phase \in {"draining", "ended"})
    BY <2>1 DEF After, RecorderInv, Buffers
  <2> QED BY <2>1, <2>2, <2>3, IsStill
<1>6. CASE FlushFailed
  <2>1. /\ Restore /\ phase' = After(0) /\ batch' = <<>>
        /\ UNCHANGED <<kind, made, orphan, db>>
    BY <1>6 DEF FlushFailed
  <2>2. /\ dropped \subseteq dropped'
        /\ Range(queue') \cup dropped' = Range(batch) \cup Range(queue) \cup dropped
    BY <2>1, RestoreKeeps
  <2>3. Held' \cup dropped' = Held \cup dropped
    BY <2>1, <2>2, Nothing DEF Held
  <2>4. Lost' = Lost
    BY <2>1, <2>3 DEF Lost
  <2>5. may' = may
    BY <2>1 DEF After, RecorderInv, Buffers
  <2>6. dropped' \ dropped \subseteq Held
    BY <2>3
  <2>7. dropped' \ db' = (dropped \ db) \cup ((dropped' \ dropped) \ db)
    BY <2>1, <2>2
  <2>8. (dropped' \ dropped) \ db \in SUBSET Promise!Waiting
    BY <2>6, WhatWaits
  <2>9. Promise!Refuse
    BY <2>1, <2>4, <2>5, <2>7, <2>8 DEF Promise!Refuse
  <2> QED BY <2>9 DEF Promise!Next
<1>7. CASE Start \/ StopCandidate \/ Drained
  <2>1. UNCHANGED <<kind, made, buffers, dropped, db>>
    BY <1>7 DEF Start, StopCandidate, Drained
  <2>2. kind = "decision" => (phase' \in {"draining", "ended"} <=> phase \in {"draining", "ended"})
    BY <1>7 DEF Start, StopCandidate, Drained
  <2> QED BY <2>1, <2>2, IsStill DEF buffers, Held
<1>8. CASE StopDecision
  <2>1. /\ ~may /\ may'
        /\ UNCHANGED <<made, queue, dropped, db>>
        /\ Range(orphan') \subseteq Range(batch) /\ batch' = <<>> /\ orphan = <<>>
    BY <1>8, Nothing DEF StopDecision, RecorderInv, Buffers
  <2>2. Held' \subseteq Held
    BY <2>1, Nothing DEF Held
  <2>3. Lost' = Lost \cup (Lost' \ Lost) /\ Lost' \ Lost \subseteq Held \ db
    BY <2>1, <2>2 DEF Lost
  <2>4. Lost' \ Lost \in SUBSET Promise!Waiting
    BY <2>3, WhatWaits
  <2>5. Promise!Leave
    BY <2>1, <2>3, <2>4 DEF Promise!Leave
  <2> QED BY <2>5 DEF Promise!Next
<1>9. CASE OrphanEnds
  <2>1. /\ orphan # <<>> /\ orphan' = <<>>
        /\ UNCHANGED <<kind, phase, made, queue, batch, dropped>>
    BY <1>9 DEF OrphanEnds
  <2>2. CASE Insert(Range(orphan))
    <3>1. Range(orphan) \subseteq Held /\ db' = db \cup Range(orphan)
      BY <2>2 DEF Held, Insert
    <3>2. Held \subseteq Held' \cup db' /\ Held' \subseteq Held
      BY <2>1, <3>1, Nothing DEF Held
    <3>3. Held' \cup db' = Held \cup db'
      BY <3>2
    <3> QED BY <2>1, <2>2, <3>1, <3>3, IsStore
  <2>3. CASE UNCHANGED db
    <3>1. may /\ may' = may
      BY <2>1 DEF RecorderInv, Buffers
    <3>2. Held' \subseteq Held
      BY <2>1, Nothing DEF Held
    <3>3. Lost' = Lost \cup (Lost' \ Lost) /\ Lost' \ Lost \subseteq Held \ db
      BY <2>1, <2>3, <3>2 DEF Lost
    <3>4. Lost' \ Lost \in SUBSET Promise!Waiting
      BY <3>3, WhatWaits
    <3>5. Promise!Abandon
      BY <2>1, <2>3, <3>1, <3>3, <3>4 DEF Promise!Abandon
    <3> QED BY <3>5 DEF Promise!Next
  <2> QED BY <1>9, <2>2, <2>3 DEF OrphanEnds
<1>10. CASE UNCHANGED recorderVars
  BY <1>10, IsStill DEF recorderVars, Held
<1> QED BY <1>1, <1>2, <1>3, <1>4, <1>5, <1>6, <1>7, <1>8, <1>9, <1>10 DEF RecorderNext

LEMMA BeginsPromised == RecorderInit => Promise!Init
<1> SUFFICES ASSUME RecorderInit PROVE Promise!Init
  OBVIOUS
<1>1. /\ phase = "off" /\ made = 0 /\ dropped = {} /\ db = {}
      /\ queue = <<>> /\ batch = <<>> /\ orphan = <<>>
  BY DEF RecorderInit
<1>2. 1..made = {}
  BY <1>1
<1> QED BY <1>1, <1>2 DEF Promise!Init, Lost

\* Both recorders keep their promise: a row that an engine recorded is kept until
\* it is stored or counted as dropped, whatever fails, and only a decision
\* recorder that is being stopped may lose rows.
THEOREM PromiseIsKept == RecorderSpec => KeepsPromise
<1>1. RecorderInit => Promise!Init
  BY BeginsPromised
<1>2. RecorderInv /\ RecorderInv' /\ [RecorderNext]_recorderVars => [Promise!Next]_Promise!vars
  BY StepIsPromised
<1> QED BY <1>1, <1>2, RecorderInvHolds, PTL DEF RecorderSpec, KeepsPromise, Promise!Spec

(***************************************************************************)
(* The broker connections (BrokerConnections)                              *)
(***************************************************************************)

KeyAccounts == {AccountOf[k] : k \in Keys}
EnvAccount == AccountOf[EnvKey]
MaybeKey == Keys \cup {NoKey}
MaybeAccount == KeyAccounts \cup {NoAccount}
Row == [source : {"none", "LOCAL", "ENV"}, account : MaybeAccount, revision : Nat]
Comparing == {"check", "compare"}
Writing == {"insert", "write", "commit", "undo"}
Steps == {"idle", "ask", "forget", "adopt"} \cup Comparing \cup Writing
Saver == [at : Steps, key : MaybeKey, previous : MaybeAccount, rest : SUBSET {Owner},
          about : Users, found : MaybeKey, file : MaybeKey]

ConnTypes ==
  /\ rows \in [Users -> Row]
  /\ column \in [Users -> MaybeKey] /\ files \in [Users -> MaybeKey]
  /\ cache \in [Users -> [revision : Int, key : MaybeKey]]
  /\ clients \in [Users -> MaybeKey \cup {Closed}]
  /\ finder \in [user : Users, for : Users, at : {"free", "build"}, row : Row]
  /\ saver \in [Users -> Saver]
  /\ unanswered \in [Users -> MaybeKey \cup {Answered}]
  /\ stage \in {"migrating", "owning", "up"}

Has(u) == rows[u].source # "none"

\* A key kept for a user opens the account of the user.
Fits(u, key) == key # NoKey => Has(u) /\ AccountOf[key] = AccountOfUser(u)

\* So does any that is found, but for the file a first save had found.
Found(u, key) == Fits(u, key) \/ key = unanswered[u]

\* The file there is, or one to be put back.
Filed(u, key) ==
  /\ Has(u) => Found(u, key)
  /\ rows[u].source = "LOCAL" /\ key = NoKey => unanswered[u] = NoKey

\* Only a first save is left unanswered, and one over the settings puts back
\* what fits.
UnansweredOK ==
  \A u \in Users : unanswered[u] # Answered =>
    rows[u].source = "LOCAL" /\ (u = Owner => Fits(u, unanswered[u]))

\* The table: what a row says, and that the accounts differ.
RowsOK ==
  /\ \A u \in Users :
       /\ rows[u].source = "none" => rows[u] = NoRow
       /\ rows[u].source = "LOCAL" => rows[u].account \in KeyAccounts
       /\ rows[u].source = "ENV" => u = Owner /\ rows[u].account \in {EnvAccount, NoAccount}
  /\ \A u, w \in Users : u # w /\ rows[w].source = "LOCAL" =>
       /\ Has(u) => rows[w].account # AccountOfUser(u)
       /\ u = Owner /\ ~Has(u) => rows[w].account # EnvAccount

\* Nobody is at work before the server is up; then the owner has a connection.
StageOK ==
  IF stage = "up" THEN Has(Owner) /\ \A u \in Users : column[u] = NoKey
  ELSE /\ finder.at = "free" /\ (~Has(Owner) => files[Owner] = NoKey)
       /\ \A u \in Users : clients[u] = Closed /\ cache[u].key = NoKey /\ saver[u].at = "idle"

KeysOK ==
  \A u \in Users :
    /\ Found(u, cache[u].key)
    /\ clients[u] # Closed => Found(u, clients[u])
    /\ column[u] # NoKey => stage = "migrating" /\ rows[u].source = "LOCAL" /\ Fits(u, column[u])
    /\ column[u] = NoKey => Filed(u, files[u])

\* What a client is built from was true when it was read, and tells the
\* account; who asks for it waits.
FinderOK ==
  finder.at = "build" =>
    /\ finder.row.source = "ENV" => Has(finder.for) /\ AccountOfUser(finder.for) = EnvAccount
    /\ finder.row.source = "LOCAL" => rows[finder.for].source = "LOCAL"
    /\ IF clients[finder.user] = Closed THEN finder.user = finder.for
       ELSE saver[finder.user].at = "check" /\ finder.for \in saver[finder.user].rest

\* Whether u has been compared with w.
Passed(u, w) ==
  /\ saver[u].at \in Comparing \cup Writing
  /\ saver[u].at \in Comparing => w \notin saver[u].rest
  /\ saver[u].at = "compare" => saver[u].about # w

SaverOK(u) ==
  LET s == saver[u] IN
  /\ s.at # "idle" => s.key \in Keys /\ clients[u] # Closed
  /\ s.at = "compare" => Fits(s.about, s.found)
  /\ s.at \in Comparing /\ Passed(u, u) /\ Has(u) => s.previous = AccountOfUser(u)
  /\ \A w \in Users \ {u} : Passed(u, w) /\ rows[w].source = "ENV" /\ s.at # "undo" =>
       AccountOf[s.key] # EnvAccount
  /\ s.at \in Writing \cup {"forget", "adopt"} /\ Has(u) => AccountOf[s.key] = AccountOfUser(u)
  /\ s.at \in Writing => Filed(u, s.file)
  /\ s.at = "commit" => files[u] = s.key
  /\ s.at \in {"forget", "adopt"} => Has(u) /\ files[u] = s.key
  /\ s.at = "adopt" => Fits(u, cache[u].key)

\* The transactions that are open: what the index of identities sees to.
IndexOK ==
  \A u, w \in Users : u # w /\ saver[u].at \in {"write", "commit"} =>
    /\ Identity(w) # AccountOf[saver[u].key]
    /\ saver[w].at \in {"write", "commit"} => AccountOf[saver[w].key] # AccountOf[saver[u].key]

ConnInv ==
  /\ ConnTypes /\ RowsOK /\ StageOK /\ KeysOK /\ UnansweredOK /\ FinderOK /\ IndexOK
  /\ \A u \in Users : SaverOK(u)
-----------------------------------------------------------------------------
(* Facts about the state.                                                    *)

LEMMA KeysOpenAccounts ==
  /\ NoKey \notin Keys /\ Closed \notin MaybeKey /\ Answered \notin MaybeKey
  /\ EnvKey \in Keys /\ Owner \in Users
  /\ EnvAccount \in KeyAccounts /\ NoAccount \notin KeyAccounts
  /\ \A k \in Keys : AccountOf[k] \in KeyAccounts
BY ConnectionAssumption DEF KeyAccounts, EnvAccount, MaybeKey

LEMMA EmptyRecords ==
  /\ NoRow \in Row /\ NoRow.source = "none" /\ NoRow.account = NoAccount
  /\ NotSaving \in Saver /\ NotSaving.at = "idle"
  /\ NotCached \in [revision : Int, key : MaybeKey] /\ NotCached.key = NoKey
  /\ NotFinding.at = "free"
  /\ NotFinding \in [user : Users, for : Users, at : {"free", "build"}, row : Row]
<1>1. NoRow \in Row /\ NoRow.source = "none" /\ NoRow.account = NoAccount
  BY DEF NoRow, Row, MaybeAccount
<1>2. NotSaving \in Saver /\ NotSaving.at = "idle"
  BY KeysOpenAccounts DEF NotSaving, Saver, Steps, MaybeKey, MaybeAccount
<1>3. NotCached \in [revision : Int, key : MaybeKey] /\ NotCached.key = NoKey
  BY DEF NotCached, MaybeKey
<1>4. NotFinding.at = "free"
      /\ NotFinding \in [user : Users, for : Users, at : {"free", "build"}, row : Row]
  BY <1>1, KeysOpenAccounts DEF NotFinding
<1> QED BY <1>1, <1>2, <1>3, <1>4

\* The account of a user who has a connection.
LEMMA AccountsOfUsers ==
  ASSUME NEW u \in Users, ConnTypes, RowsOK, Has(u)
  PROVE  /\ rows[u].source \in {"LOCAL", "ENV"}
         /\ rows[u].source = "LOCAL" => AccountOfUser(u) = rows[u].account /\ Identity(u) = rows[u].account
         /\ rows[u].source = "ENV" => AccountOfUser(u) = EnvAccount /\ Identity(u) = NoAccount
         /\ AccountOfUser(u) \in KeyAccounts
BY KeysOpenAccounts DEF ConnTypes, RowsOK, Row, Has, AccountOfUser, Identity, EnvAccount

\* Who is at work is at work on a server that is up.
LEMMA WorkIsUp ==
  ASSUME NEW u \in Users, ConnInv, saver[u].at # "idle"
  PROVE  stage = "up" /\ Has(Owner)
BY DEF ConnInv, StageOK

-----------------------------------------------------------------------------
(* Steps that change a saver, and nothing but.                               *)

LEMMA SaverStep ==
  ASSUME NEW u \in Users, NEW next \in Saver, ConnInv, saver' = [saver EXCEPT ![u] = next],
         UNCHANGED <<rows, column, files, cache, clients, finder, stage, unanswered>>,
         stage = "up", SaverOK(u)', saver[u].at = "check" => saver[u].rest = {},
         next.at \in {"write", "commit"} =>
           \A w \in Users \ {u} :
             /\ Identity(w) # AccountOf[next.key]
             /\ saver[w].at \in {"write", "commit"} => AccountOf[saver[w].key] # AccountOf[next.key]
  PROVE  ConnInv'
<1>1. saver'[u] = next /\ \A w \in Users \ {u} : saver'[w] = saver[w]
  BY DEF ConnInv, ConnTypes
<1>2. ConnTypes'
  BY DEF ConnInv, ConnTypes
<1>3. RowsOK' /\ KeysOK' /\ StageOK' /\ UnansweredOK' /\ FinderOK'
  BY DEF ConnInv, RowsOK, KeysOK, StageOK, UnansweredOK, FinderOK, Has, Fits, Found, Filed,
         AccountOfUser
<1>4. IndexOK'
  BY <1>1 DEF ConnInv, IndexOK, Identity
<1>5. ASSUME NEW w \in Users \ {u} PROVE SaverOK(w)'
  BY <1>1 DEF ConnInv, SaverOK, Passed, Has, Fits, Found, Filed, AccountOfUser
<1> QED BY <1>2, <1>3, <1>4, <1>5 DEF ConnInv

LEMMA GivesUp ==
  ASSUME NEW u \in Users, ConnInv, stage = "up", Proceed(u, NotSaving),
         saver[u].at = "check" => saver[u].rest = {},
         UNCHANGED <<rows, column, files, cache, clients, finder, stage, unanswered>>
  PROVE  ConnInv'
<1>1. NotSaving \in Saver /\ NotSaving.at = "idle"
  BY EmptyRecords
<1>2. saver' = [saver EXCEPT ![u] = NotSaving] /\ saver'[u] = NotSaving
  BY DEF Proceed, ConnInv, ConnTypes
<1>3. SaverOK(u)'
  BY <1>1, <1>2 DEF SaverOK, Passed, Comparing, Writing
<1> QED BY <1>1, <1>2, <1>3, SaverStep

LEMMA SaveKeeps ==
  ASSUME NEW u \in Users, NEW k \in Keys, ConnInv, Save(u, k) PROVE ConnInv'
<1> DEFINE next == [NotSaving EXCEPT !.at = "ask", !.key = k]
<1>1. next \in Saver /\ next.at = "ask" /\ next.key = k
  BY EmptyRecords DEF Saver, Steps, MaybeKey
<1>2. saver' = [saver EXCEPT ![u] = next] /\ saver'[u] = next /\ clients[u] # Closed /\ stage = "up"
      /\ UNCHANGED <<rows, column, files, cache, clients, finder, stage, unanswered>>
  BY DEF Save, Proceed, ConnInv, ConnTypes
<1> HIDE DEF next
<1>3. SaverOK(u)'
  BY <1>1, <1>2 DEF SaverOK, Passed, Comparing, Writing
<1>4. saver[u].at # "check"
  BY DEF Save
<1> QED BY <1>1, <1>2, <1>3, <1>4, SaverStep

LEMMA RejectKeeps == ASSUME NEW u \in Users, ConnInv, Reject(u) PROVE ConnInv'
BY WorkIsUp, GivesUp DEF Reject

LEMMA ReadRowsKeeps == ASSUME NEW u \in Users, ConnInv, ReadRows(u) PROVE ConnInv'
<1> DEFINE env == {w \in Users : rows[w].source = "ENV"}
           next == [saver[u] EXCEPT !.at = "check", !.previous = Identity(u), !.rest = env]
<1>1. Identity(u) \in MaybeAccount /\ saver[u] \in Saver /\ env \subseteq {Owner}
  BY DEF ConnInv, ConnTypes, RowsOK, Row, MaybeAccount, Identity
<1> HIDE DEF env
<1>2. /\ next \in Saver /\ next.at = "check" /\ next.previous = Identity(u) /\ next.rest = env
      /\ next.key = saver[u].key
  <2>1. /\ next.at = "check" /\ next.previous = Identity(u) /\ next.rest = env
        /\ next.key = saver[u].key
    BY <1>1 DEF Saver
  <2>2. next \in Saver
    BY <1>1 DEF Saver, Steps, Comparing
  <2> QED BY <2>1, <2>2
<1> USE DEF env
<1>3. saver' = [saver EXCEPT ![u] = next] /\ saver'[u] = next /\ saver[u].at = "ask"
      /\ UNCHANGED <<rows, column, files, cache, clients, finder, stage, unanswered>>
  BY DEF ReadRows, Proceed, ConnInv, ConnTypes
<1> HIDE DEF next
<1>4. stage = "up" /\ saver[u].key \in Keys /\ clients[u] # Closed
  BY <1>3, WorkIsUp DEF ConnInv, SaverOK
<1>5. Has(u) /\ u \notin env => Identity(u) = AccountOfUser(u)
  BY AccountsOfUsers DEF ConnInv
<1>6. SaverOK(u)'
  BY <1>2, <1>3, <1>4, <1>5 DEF SaverOK, Passed, Comparing, Writing, Has, AccountOfUser
<1> QED BY <1>2, <1>3, <1>4, <1>6, SaverStep

LEMMA WhatIsRecorded ==
  ASSUME NEW u, NEW w, NEW account \in Recorded(u, w)
  PROVE  /\ w # u => account = NoAccount
         /\ w = u => account = rows[w].account \/ (rows[w].account = NoAccount /\ account = EnvAccount)
BY DEF Recorded, EnvAccount

LEMMA CompareKeeps == ASSUME NEW u \in Users, ConnInv, Compare(u) PROVE ConnInv'
<1> DEFINE s == saver[u]
           mine == AccountOf[s.key]
           w == s.about
<1>1. /\ s.at = "compare" /\ s \in Saver /\ SaverOK(u)
      /\ UNCHANGED <<rows, column, files, cache, clients, finder, stage, unanswered>>
  BY DEF Compare, ConnInv, ConnTypes
<1>2. /\ s.key \in Keys /\ clients[u] # Closed /\ Fits(w, s.found) /\ w \in Users
      /\ mine \in KeyAccounts /\ stage = "up"
  BY <1>1, WorkIsUp, KeysOpenAccounts DEF SaverOK, Saver
\* It goes on with what it knows about w.
<1>3. ASSUME NEW account \in MaybeAccount, Proceed(u, [s EXCEPT !.at = "check", !.previous = account]),
             w = u /\ Has(u) => account = AccountOfUser(u),
             w # u => account = s.previous /\ (rows[w].source = "ENV" => mine # EnvAccount)
      PROVE  ConnInv'
  <2> DEFINE next == [s EXCEPT !.at = "check", !.previous = account]
  <2>1. /\ next \in Saver /\ next.at = "check" /\ next.previous = account /\ next.rest = s.rest
        /\ next.key = s.key
    BY <1>1 DEF Saver, Steps, Comparing
  <2>2. saver' = [saver EXCEPT ![u] = next] /\ saver'[u] = next
    BY <1>3 DEF Proceed, ConnInv, ConnTypes
  <2> HIDE DEF next
  <2>3. Has(u) /\ u \notin s.rest => account = AccountOfUser(u)
    BY <1>1, <1>3 DEF SaverOK, Passed, Comparing
  <2>4. ASSUME NEW v \in Users \ {u}, v \notin s.rest, rows[v].source = "ENV"
        PROVE  mine # EnvAccount
    BY <1>1, <1>3, <2>4 DEF SaverOK, Passed, Comparing
  <2>5. SaverOK(u)'
    BY <1>1, <1>2, <2>1, <2>2, <2>3, <2>4
       DEF SaverOK, Passed, Comparing, Writing, Has, AccountOfUser
  <2> QED BY <1>1, <1>2, <2>1, <2>2, <2>5, SaverStep
<1>4. CASE Proceed(u, NotSaving)
  BY <1>1, <1>2, <1>4, GivesUp
<1>5. CASE s.found # NoKey /\ w = u /\ Proceed(u, [s EXCEPT !.at = "check", !.previous = AccountOf[s.found]])
  <2>1. AccountOf[s.found] \in MaybeAccount
    BY <1>1, <1>5, KeysOpenAccounts DEF Saver, MaybeKey, MaybeAccount
  <2>2. AccountOf[s.found] = AccountOfUser(u)
    BY <1>2, <1>5 DEF Fits
  <2> QED BY <1>3, <1>5, <2>1, <2>2
<1>6. CASE s.found # NoKey /\ w # u /\ AccountOf[s.found] # mine /\ Proceed(u, [s EXCEPT !.at = "check"])
  <2>1. rows[w].source = "ENV" => mine # EnvAccount
    BY <1>2, <1>6, AccountsOfUsers DEF ConnInv, Fits
  <2>2. [s EXCEPT !.at = "check"] = [s EXCEPT !.at = "check", !.previous = s.previous]
        /\ s.previous \in MaybeAccount
    BY <1>1 DEF Saver
  <2> QED BY <1>3, <1>6, <2>1, <2>2
<1>7. ASSUME NEW account \in Recorded(u, w), account = mine,
             Proceed(u, [s EXCEPT !.at = "check", !.previous = mine])
      PROVE  ConnInv'
  <2>1. w = u
    BY <1>2, <1>7, WhatIsRecorded, KeysOpenAccounts
  <2>2. account = rows[u].account \/ (rows[u].account = NoAccount /\ account = EnvAccount)
    BY <1>7, <2>1, WhatIsRecorded
  <2>4. Has(u) => mine = AccountOfUser(u)
    BY <1>2, <1>7, <2>2, AccountsOfUsers, KeysOpenAccounts DEF ConnInv, RowsOK
  <2>3. mine \in MaybeAccount
    BY <1>2 DEF MaybeAccount
  <2> QED BY <1>3, <1>7, <2>1, <2>3, <2>4
<1> QED BY <1>4, <1>5, <1>6, <1>7 DEF Compare
LEMMA ComparedKeeps == ASSUME NEW u \in Users, ConnInv, Compared(u) PROVE ConnInv'
<1> DEFINE s == saver[u]
           next == [s EXCEPT !.at = "insert", !.file = files[u]]
<1>1. /\ s.at = "check" /\ s.rest = {} /\ s \in Saver /\ SaverOK(u)
      /\ UNCHANGED <<rows, column, files, cache, clients, finder, stage, unanswered>>
  BY DEF Compared, ConnInv, ConnTypes
<1>2. /\ s.key \in Keys /\ clients[u] # Closed /\ stage = "up" /\ files[u] \in MaybeKey
      /\ column[u] = NoKey
  BY <1>1, WorkIsUp DEF SaverOK, ConnInv, ConnTypes, StageOK
<1>3. CASE SameAccount(u) /\ Proceed(u, next)
  <2>1. next \in Saver /\ next.at = "insert" /\ next.key = s.key /\ next.file = files[u]
    BY <1>1, <1>2 DEF Saver, Steps, Writing
  <2>2. saver' = [saver EXCEPT ![u] = next] /\ saver'[u] = next
    BY <1>3 DEF Proceed, ConnInv, ConnTypes
  <2> HIDE DEF next
  <2>3. Has(u) => AccountOf[s.key] = AccountOfUser(u)
    <3>1. ASSUME Has(u) PROVE s.previous = AccountOfUser(u) /\ s.previous # NoAccount
      BY <1>1, <3>1, AccountsOfUsers, KeysOpenAccounts
         DEF SaverOK, Passed, Comparing, ConnInv
    <3> QED BY <1>3, <3>1 DEF SameAccount
  <2>4. Filed(u, files[u])
    BY <1>2 DEF ConnInv, KeysOK
  <2>5. \A w \in Users \ {u} : rows[w].source = "ENV" => AccountOf[s.key] # EnvAccount
    BY <1>1 DEF SaverOK, Passed, Comparing
  <2>6. SaverOK(u)'
    BY <1>1, <1>2, <2>1, <2>2, <2>3, <2>4, <2>5
       DEF SaverOK, Passed, Comparing, Writing, Has, AccountOfUser, Fits, Found, Filed
  <2> QED BY <1>1, <1>2, <2>1, <2>2, <2>6, SaverStep
<1>4. CASE Proceed(u, NotSaving)
  BY <1>1, <1>2, <1>4, GivesUp
<1> QED BY <1>3, <1>4 DEF Compared

\* From one of the last steps of a saver to another.
LEMMA WriterGoes ==
  ASSUME NEW u \in Users, NEW place \in Steps, ConnInv,
         saver[u].at \in {"insert", "write", "commit", "forget"}, GoTo(u, place)
  PROVE  /\ [saver[u] EXCEPT !.at = place] \in Saver
         /\ [saver[u] EXCEPT !.at = place].at = place
         /\ [saver[u] EXCEPT !.at = place].key = saver[u].key
         /\ [saver[u] EXCEPT !.at = place].file = saver[u].file
         /\ saver[u].key \in Keys /\ clients[u] # Closed /\ stage = "up"
         /\ saver' = [saver EXCEPT ![u] = [saver[u] EXCEPT !.at = place]]
         /\ saver'[u] = [saver[u] EXCEPT !.at = place]
<1>1. saver[u] \in Saver /\ saver \in [Users -> Saver] /\ SaverOK(u)
  BY DEF ConnInv, ConnTypes
<1>2. stage = "up" /\ saver[u].key \in Keys /\ clients[u] # Closed
  BY <1>1, WorkIsUp DEF SaverOK
<1>3. saver' = [saver EXCEPT ![u] = [saver[u] EXCEPT !.at = place]]
  BY DEF GoTo, Proceed
<1>4. saver'[u] = [saver[u] EXCEPT !.at = place]
  BY <1>1, <1>3
<1>5. /\ [saver[u] EXCEPT !.at = place] \in Saver
      /\ [saver[u] EXCEPT !.at = place].at = place
      /\ [saver[u] EXCEPT !.at = place].key = saver[u].key
      /\ [saver[u] EXCEPT !.at = place].file = saver[u].file
  BY <1>1 DEF Saver
<1> QED BY <1>2, <1>3, <1>4, <1>5

LEMMA InsertRowKeeps == ASSUME NEW u \in Users, ConnInv, InsertRow(u) PROVE ConnInv'
<1> DEFINE mine == AccountOf[saver[u].key]
<1>1. /\ saver[u].at = "insert" /\ SaverOK(u)
      /\ \A w \in Users \ {u} : saver[w].at \in {"write", "commit"} => AccountOf[saver[w].key] # mine
      /\ UNCHANGED <<rows, column, files, cache, clients, finder, stage, unanswered>>
  BY DEF InsertRow, ConnInv
<1>2. ASSUME NEW place \in {"write", "undo"}, GoTo(u, place),
             place = "write" => \A w \in Users \ {u} : Identity(w) # mine
      PROVE  ConnInv'
  <2> DEFINE next == [saver[u] EXCEPT !.at = place]
  <2>1. /\ next \in Saver /\ next.at = place /\ next.key = saver[u].key
        /\ next.file = saver[u].file /\ saver[u].key \in Keys
        /\ clients[u] # Closed /\ stage = "up"
        /\ saver' = [saver EXCEPT ![u] = next] /\ saver'[u] = next
    BY <1>1, <1>2, WriterGoes DEF Writing, Steps
  <2> HIDE DEF next
  <2>2. SaverOK(u)'
    BY <1>1, <2>1 DEF SaverOK, Passed, Comparing, Writing, Has, AccountOfUser, Fits, Found, Filed
  <2> QED BY <1>1, <1>2, <2>1, <2>2, SaverStep
<1> QED BY <1>2 DEF InsertRow

LEMMA WriteFileKeeps == ASSUME NEW u \in Users, ConnInv, WriteFile(u) PROVE ConnInv'
<1>1. /\ saver[u].at = "write" /\ SaverOK(u)
      /\ UNCHANGED <<rows, column, cache, clients, finder, stage, unanswered>>
  BY DEF WriteFile, ConnInv
<1>2. CASE UNCHANGED files /\ GoTo(u, "undo")
  <2> DEFINE next == [saver[u] EXCEPT !.at = "undo"]
  <2>1. /\ next \in Saver /\ next.at = "undo" /\ next.key = saver[u].key
        /\ next.file = saver[u].file /\ saver[u].key \in Keys
        /\ clients[u] # Closed /\ stage = "up"
        /\ saver' = [saver EXCEPT ![u] = next] /\ saver'[u] = next
    BY <1>1, <1>2, WriterGoes DEF Writing, Steps
  <2> HIDE DEF next
  <2>2. SaverOK(u)'
    BY <1>1, <2>1 DEF SaverOK, Passed, Comparing, Writing, Has, AccountOfUser, Fits, Found, Filed
  <2> QED BY <1>1, <1>2, <2>1, <2>2, SaverStep
<1>3. CASE files' = [files EXCEPT ![u] = saver[u].key] /\ GoTo(u, "commit")
  <2> DEFINE next == [saver[u] EXCEPT !.at = "commit"]
  <2>1. /\ next \in Saver /\ next.at = "commit" /\ next.key = saver[u].key
        /\ next.file = saver[u].file /\ saver[u].key \in Keys
        /\ clients[u] # Closed /\ stage = "up"
        /\ saver' = [saver EXCEPT ![u] = next] /\ saver'[u] = next
    BY <1>1, <1>3, WriterGoes DEF Writing, Steps
  <2> HIDE DEF next
  <2>2. /\ files'[u] = saver[u].key /\ \A w \in Users \ {u} : files'[w] = files[w]
        /\ files' \in [Users -> MaybeKey]
    BY <1>3, <2>1 DEF ConnInv, ConnTypes, MaybeKey
  <2>3. \A w \in Users \ {u} : saver'[w] = saver[w]
    BY <2>1 DEF ConnInv, ConnTypes
  <2>4. ConnTypes'
    BY <1>1, <2>1, <2>2 DEF ConnInv, ConnTypes
  <2>5. RowsOK' /\ StageOK' /\ UnansweredOK' /\ FinderOK'
    BY <1>1, <2>1 DEF ConnInv, RowsOK, StageOK, UnansweredOK, FinderOK, Has, Fits, AccountOfUser
  <2>6. KeysOK'
    <3>1. Filed(u, saver[u].key)
      BY <1>1, <2>1, KeysOpenAccounts DEF SaverOK, Writing, Filed, Found, Fits, Has
    <3> QED BY <1>1, <2>2, <3>1 DEF ConnInv, KeysOK, Has, Fits, Found, Filed, AccountOfUser
  <2>7. SaverOK(u)'
    BY <1>1, <2>1, <2>2 DEF SaverOK, Passed, Comparing, Writing, Has, AccountOfUser, Fits, Found, Filed
  <2>8. ASSUME NEW w \in Users \ {u} PROVE SaverOK(w)'
    BY <1>1, <2>2, <2>3 DEF ConnInv, SaverOK, Passed, Has, Fits, Found, Filed, AccountOfUser
  <2>9. IndexOK'
    BY <1>1, <2>1, <2>3 DEF ConnInv, IndexOK, Identity
  <2> QED BY <2>4, <2>5, <2>6, <2>7, <2>8, <2>9 DEF ConnInv
<1> QED BY <1>2, <1>3 DEF WriteFile

LEMMA UndoKeeps == ASSUME NEW u \in Users, ConnInv, Undo(u) PROVE ConnInv'
<1>1. /\ saver[u].at = "undo" /\ SaverOK(u) /\ saver[u].file \in MaybeKey
      /\ saver' = [saver EXCEPT ![u] = NotSaving] /\ saver'[u] = NotSaving
      /\ UNCHANGED <<rows, column, cache, clients, finder, stage, unanswered>>
      /\ \A w \in Users \ {u} : saver'[w] = saver[w]
  BY DEF Undo, Proceed, ConnInv, ConnTypes, Saver
<1>2. /\ files' \in [Users -> MaybeKey] /\ \A w \in Users \ {u} : files'[w] = files[w]
      /\ files'[u] \in {files[u], saver[u].file}
  BY <1>1 DEF Undo, OldFile, ConnInv, ConnTypes
<1>3. stage = "up" /\ NotSaving \in Saver /\ NotSaving.at = "idle"
  BY <1>1, WorkIsUp, EmptyRecords
<1>4. ConnTypes'
  BY <1>1, <1>2, <1>3 DEF ConnInv, ConnTypes
<1>5. RowsOK' /\ StageOK' /\ UnansweredOK' /\ FinderOK'
  BY <1>1, <1>3 DEF ConnInv, RowsOK, StageOK, UnansweredOK, FinderOK, Has, Fits, AccountOfUser
<1>6. KeysOK'
  <2>1. Filed(u, saver[u].file)
    BY <1>1 DEF SaverOK, Writing
  <2> QED BY <1>1, <1>2, <2>1 DEF ConnInv, KeysOK, Has, Fits, Found, Filed, AccountOfUser
<1>7. SaverOK(u)'
  BY <1>1, <1>3 DEF SaverOK, Passed, Comparing, Writing
<1>8. ASSUME NEW w \in Users \ {u} PROVE SaverOK(w)'
  BY <1>1, <1>2 DEF ConnInv, SaverOK, Passed, Has, Fits, Found, Filed, AccountOfUser
<1>9. IndexOK'
  BY <1>1, <1>3 DEF ConnInv, IndexOK, Identity
<1> QED BY <1>4, <1>5, <1>6, <1>7, <1>8, <1>9 DEF ConnInv

\* The row: the account was nobody's, and the user's own if there was one.
LEMMA CommitRowKeeps == ASSUME NEW u \in Users, ConnInv, CommitRow(u) PROVE ConnInv'
<1> DEFINE mine == AccountOf[saver[u].key]
<1>1. /\ saver[u].at = "commit" /\ SaverOK(u)
      /\ UNCHANGED <<column, files, cache, clients, finder, stage>>
  BY DEF CommitRow, ConnInv
<1>2. CASE UNCHANGED <<rows, unanswered>> /\ GoTo(u, "undo")
  <2> DEFINE next == [saver[u] EXCEPT !.at = "undo"]
  <2>1. /\ next \in Saver /\ next.at = "undo" /\ next.key = saver[u].key
        /\ next.file = saver[u].file /\ saver[u].key \in Keys
        /\ clients[u] # Closed /\ stage = "up"
        /\ saver' = [saver EXCEPT ![u] = next] /\ saver'[u] = next
    BY <1>1, <1>2, WriterGoes DEF Writing, Steps
  <2> HIDE DEF next
  <2>2. SaverOK(u)'
    BY <1>1, <1>2, <2>1 DEF SaverOK, Passed, Comparing, Writing, Has, AccountOfUser, Fits, Found, Filed
  <2>3. UNCHANGED <<rows, column, files, cache, clients, finder, stage, unanswered>>
    BY <1>1, <1>2
  <2> QED BY <1>1, <2>1, <2>2, <2>3, SaverStep
\* The answer is heard, or the old file comes back.
<1>3. ASSUME NEW place \in {"forget", "undo"}, Committed(u), GoTo(u, place),
             unanswered' = IF place = "forget" \/ rows[u].source = "LOCAL" THEN unanswered
                           ELSE [unanswered EXCEPT ![u] = saver[u].file]
      PROVE  ConnInv'
  <2> DEFINE next == [saver[u] EXCEPT !.at = place]
             row == [source |-> "LOCAL", account |-> mine, revision |-> rows[u].revision + 1]
  <2>1. /\ next \in Saver /\ next.at = place /\ next.key = saver[u].key
        /\ next.file = saver[u].file /\ saver[u].key \in Keys
        /\ clients[u] # Closed /\ stage = "up"
        /\ saver' = [saver EXCEPT ![u] = next] /\ saver'[u] = next
    BY <1>1, <1>3, WriterGoes DEF Writing, Steps
  <2> HIDE DEF next
  <2>2. /\ row \in Row /\ row.source = "LOCAL" /\ row.account = mine
        /\ mine \in KeyAccounts
    BY <2>1, KeysOpenAccounts DEF ConnInv, ConnTypes, Row, MaybeAccount
  <2> HIDE DEF row
  <2>3. /\ rows'[u] = row /\ \A w \in Users \ {u} : rows'[w] = rows[w] /\ saver'[w] = saver[w]
        /\ rows' \in [Users -> Row]
    BY <1>3, <2>1, <2>2 DEF Committed, ConnInv, ConnTypes, row
  <2>16. /\ unanswered' \in [Users -> MaybeKey \cup {Answered}]
         /\ \A w \in Users \ {u} : unanswered'[w] = unanswered[w]
         /\ place = "forget" \/ rows[u].source = "LOCAL" => unanswered'[u] = unanswered[u]
         /\ place = "undo" /\ rows[u].source # "LOCAL" => unanswered'[u] = saver[u].file
    <3>1. saver[u].file \in MaybeKey /\ unanswered \in [Users -> MaybeKey \cup {Answered}]
      BY DEF ConnInv, ConnTypes, Saver
    <3> QED BY <1>3, <3>1
  <2>4. ConnTypes'
    BY <1>1, <2>1, <2>3, <2>16 DEF ConnInv, ConnTypes
  <2>5. /\ \A w \in Users \ {u} : Has(w)' = Has(w) /\ AccountOfUser(w)' = AccountOfUser(w)
                                  /\ Identity(w)' = Identity(w)
        /\ Has(u)' /\ AccountOfUser(u)' = mine /\ Identity(u)' = mine
        /\ Has(u) => AccountOfUser(u) = mine
    BY <1>1, <2>2, <2>3 DEF Has, AccountOfUser, Identity, SaverOK, Writing
  <2>6. \A w \in Users \ {u} : Has(w) => AccountOfUser(w) # mine
    <3> TAKE w \in Users \ {u}
    <3> HAVE Has(w)
    <3>1. CASE rows[w].source = "ENV"
      <4>1. Passed(u, w)
        BY <1>1 DEF Passed, Comparing, Writing
      <4> QED BY <1>1, <3>1, <4>1 DEF SaverOK, AccountOfUser, EnvAccount
    <3>2. CASE rows[w].source = "LOCAL"
      BY <1>1, <3>2 DEF ConnInv, IndexOK, Identity, AccountOfUser
    <3> QED BY <3>1, <3>2, AccountsOfUsers DEF ConnInv
  <2>7. \A w \in Users \ {u} : ~(w = Owner /\ ~Has(w))
    BY <2>1 DEF ConnInv, StageOK
  <2>8. RowsOK'
    <3>1. ASSUME NEW v \in Users
          PROVE  /\ rows'[v].source = "none" => rows'[v] = NoRow
                 /\ rows'[v].source = "LOCAL" => rows'[v].account \in KeyAccounts
                 /\ rows'[v].source = "ENV" => v = Owner /\ rows'[v].account \in {EnvAccount, NoAccount}
      BY <2>2, <2>3 DEF ConnInv, RowsOK
    <3>2. ASSUME NEW v \in Users, NEW w \in Users, v # w, rows'[w].source = "LOCAL"
          PROVE  /\ Has(v)' => rows'[w].account # AccountOfUser(v)'
                 /\ v = Owner /\ ~Has(v)' => rows'[w].account # EnvAccount
      <4>1. CASE w = u
        BY <2>2, <2>3, <2>5, <2>6, <2>7, <3>2, <4>1
      <4>2. CASE v = u
        BY <2>3, <2>5, <2>6, <3>2, <4>2, AccountsOfUsers DEF ConnInv, Has
      <4>3. CASE w # u /\ v # u
        BY <2>3, <2>5, <3>2, <4>3 DEF ConnInv, RowsOK
      <4> QED BY <4>1, <4>2, <4>3
    <3> QED BY <3>1, <3>2 DEF RowsOK
  <2>9. \A w \in Users : \A key : Fits(w, key) => Fits(w, key)'
    BY <2>5 DEF Fits
  <2>17. \A w \in Users : \A key \in MaybeKey : Found(w, key) => Found(w, key)'
    <3> TAKE w \in Users
    <3> TAKE key \in MaybeKey
    <3>1. rows[u].source # "LOCAL" => unanswered[u] = Answered
      BY DEF ConnInv, UnansweredOK
    <3> QED BY <2>9, <2>16, <3>1, KeysOpenAccounts DEF Found
  <2>18. UnansweredOK'
    <3>1. ASSUME NEW w \in Users, unanswered'[w] # Answered, unanswered'[w] = unanswered[w]
          PROVE  rows'[w].source = "LOCAL" /\ (w = Owner => Fits(w, unanswered[w])')
      BY <2>2, <2>3, <2>9, <2>16, <3>1 DEF ConnInv, UnansweredOK, Fits
    <3>2. ASSUME u = Owner, rows[u].source # "LOCAL" PROVE Fits(u, saver[u].file)
      <4>1. Has(u) /\ unanswered[u] = Answered /\ saver[u].file \in MaybeKey
        BY <2>1, <3>2 DEF ConnInv, ConnTypes, StageOK, UnansweredOK, Saver
      <4> QED BY <1>1, <4>1, KeysOpenAccounts DEF SaverOK, Writing, Filed, Found
    <3> QED BY <2>2, <2>3, <2>9, <2>16, <3>1, <3>2 DEF UnansweredOK, Fits
  <2>10. StageOK'
    <3>1. Has(Owner)'
      BY <1>1, <2>1, <2>5, KeysOpenAccounts DEF ConnInv, StageOK
    <3> QED BY <1>1, <2>1, <3>1 DEF ConnInv, StageOK
  <2>11. KeysOK'
    <3>1. ASSUME NEW v \in Users, column[v] # NoKey PROVE FALSE
      BY <2>1, <3>1 DEF ConnInv, StageOK
    <3>2. Filed(u, files[u])'
      BY <1>1, <2>1, <2>5, KeysOpenAccounts DEF SaverOK, Filed, Found, Fits
    <3>3. \A v \in Users : Found(v, cache[v].key)' /\ (clients[v] # Closed => Found(v, clients[v])')
      <4> TAKE v \in Users
      <4>1. cache[v].key \in MaybeKey /\ (clients[v] # Closed => clients[v] \in MaybeKey)
        BY DEF ConnInv, ConnTypes
      <4>2. Found(v, cache[v].key) /\ (clients[v] # Closed => Found(v, clients[v]))
        BY DEF ConnInv, KeysOK
      <4> QED BY <1>1, <2>17, <4>1, <4>2 DEF Found, Fits
    <3>4. ASSUME NEW v \in Users \ {u} PROVE Filed(v, files[v])'
      <4>1. Filed(v, files[v]) /\ files[v] \in MaybeKey
        BY <3>1 DEF ConnInv, ConnTypes, KeysOK
      <4> QED BY <1>1, <2>3, <2>5, <2>16, <4>1 DEF Filed, Found, Fits
    <3> QED BY <1>1, <3>1, <3>2, <3>3, <3>4 DEF KeysOK
  <2>12. FinderOK'
    <3>1. ASSUME finder.at = "build", finder.row.source = "ENV"
          PROVE  Has(finder.for)' /\ AccountOfUser(finder.for)' = EnvAccount
      <4>1. finder.for \in Users /\ Has(finder.for) /\ AccountOfUser(finder.for) = EnvAccount
        BY <3>1 DEF ConnInv, ConnTypes, FinderOK
      <4>2. \A v \in Users : Has(v) => Has(v)' /\ AccountOfUser(v)' = AccountOfUser(v)
        BY <2>5
      <4>3. (finder.for)' = finder.for
        BY <1>1
      <4> QED BY <4>1, <4>2, <1>1
    <3>2. ASSUME finder.at = "build", finder.row.source = "LOCAL"
          PROVE  rows'[finder.for].source = "LOCAL"
      BY <2>2, <2>3, <3>2 DEF ConnInv, ConnTypes, FinderOK
    <3>3. finder.at = "build" /\ clients[finder.user] # Closed => finder.user # u
      BY <1>1 DEF ConnInv, FinderOK
    <3>4. finder.at = "build" /\ clients[finder.user] # Closed => saver'[finder.user] = saver[finder.user]
      BY <2>3, <3>3 DEF ConnInv, ConnTypes
    <3> QED BY <1>1, <3>1, <3>2, <3>4 DEF ConnInv, FinderOK
  <2>13. SaverOK(u)'
    <3>1. place = "undo" => Filed(u, saver[u].file)'
      <4>1. Filed(u, saver[u].file) /\ saver[u].file \in MaybeKey
        BY <1>1 DEF SaverOK, Writing, ConnInv, ConnTypes, Saver
      <4>2. CASE rows[u].source = "LOCAL"
        BY <2>1, <2>5, <2>16, <4>1, <4>2 DEF Filed, Found, Fits, Has
      <4>3. CASE rows[u].source # "LOCAL"
        BY <2>1, <2>16, <4>3 DEF Filed, Found
      <4> QED BY <4>2, <4>3
    <3> QED BY <1>1, <2>1, <2>5, <3>1 DEF SaverOK, Passed, Comparing, Writing
  <2>14. ASSUME NEW w \in Users \ {u} PROVE SaverOK(w)'
    <3>1. /\ saver'[w] = saver[w] /\ SaverOK(w) /\ rows'[w] = rows[w]
          /\ \A v \in Users : Passed(w, v)' = Passed(w, v)
      BY <2>3 DEF ConnInv, Passed
    <3>2. saver[w].at = "compare" => Fits(saver[w].about, saver[w].found)'
      BY <2>4, <2>9, <3>1 DEF SaverOK, ConnInv, ConnTypes, Saver
    <3>3. saver[w].at \in Writing => Filed(w, saver[w].file)'
      BY <2>5, <2>16, <3>1 DEF SaverOK, Filed, Found, Fits
    <3>5. saver[w].at = "adopt" => Fits(w, cache[w].key)'
      BY <1>1, <2>9, <3>1 DEF SaverOK, Fits
    <3>4. ASSUME NEW v \in Users \ {w}, rows'[v].source = "ENV" PROVE rows[v].source = "ENV"
      BY <2>2, <2>3, <3>4
    <3> QED BY <1>1, <2>5, <3>1, <3>2, <3>3, <3>4, <3>5 DEF SaverOK
  <2>15. IndexOK'
    <3>1. ASSUME NEW w \in Users \ {u}, saver[w].at \in {"write", "commit"}
          PROVE  AccountOf[saver[w].key] # mine
      BY <1>1, <3>1 DEF ConnInv, IndexOK
    <3> QED BY <2>1, <2>3, <2>5, <3>1 DEF ConnInv, IndexOK
  <2> QED BY <2>4, <2>8, <2>10, <2>11, <2>12, <2>13, <2>14, <2>15, <2>18 DEF ConnInv
<1>4. \/ UNCHANGED <<rows, unanswered>> /\ GoTo(u, "undo")
      \/ Committed(u) /\ GoTo(u, "forget") /\ UNCHANGED unanswered
      \/ /\ Committed(u) /\ GoTo(u, "undo")
         /\ unanswered' = IF rows[u].source = "LOCAL" THEN unanswered
                          ELSE [unanswered EXCEPT ![u] = saver[u].file]
  BY DEF CommitRow
<1> QED BY <1>2, <1>3, <1>4

-----------------------------------------------------------------------------
(* Clients: what is kept for a user opens the account of the user.           *)

LEMMA ForgetKeeps == ASSUME NEW u \in Users, ConnInv, Forget(u) PROVE ConnInv'
<1> DEFINE next == [saver[u] EXCEPT !.at = "adopt"]
<1>1. /\ saver[u].at = "forget" /\ SaverOK(u) /\ GoTo(u, "adopt")
      /\ cache' = [cache EXCEPT ![u] = NotCached]
      /\ UNCHANGED <<rows, column, files, clients, finder, stage, unanswered>>
  BY DEF Forget, ConnInv
<1>2. /\ next \in Saver /\ next.at = "adopt" /\ next.key = saver[u].key
      /\ saver[u].key \in Keys /\ clients[u] # Closed /\ stage = "up"
      /\ saver' = [saver EXCEPT ![u] = next] /\ saver'[u] = next
  BY <1>1, WriterGoes DEF Steps
<1> HIDE DEF next
<1>3. /\ \A w \in Users \ {u} : saver'[w] = saver[w]
      /\ cache' \in [Users -> [revision : Int, key : MaybeKey]]
      /\ \A w \in Users : cache'[w].key \in {cache[w].key, NoKey}
      /\ cache'[u].key = NoKey
  BY <1>1, <1>2, EmptyRecords DEF ConnInv, ConnTypes
<1>4. ConnTypes'
  BY <1>1, <1>2, <1>3 DEF ConnInv, ConnTypes
<1>5. RowsOK' /\ StageOK' /\ UnansweredOK' /\ FinderOK' /\ KeysOK'
  BY <1>1, <1>2, <1>3
     DEF ConnInv, RowsOK, StageOK, UnansweredOK, FinderOK, KeysOK, Has, Fits, Found, Filed,
         AccountOfUser
<1>6. SaverOK(u)'
  BY <1>1, <1>2, <1>3 DEF SaverOK, Passed, Comparing, Writing, Has, Fits, AccountOfUser
<1>7. ASSUME NEW w \in Users \ {u} PROVE SaverOK(w)'
  BY <1>1, <1>3 DEF ConnInv, SaverOK, Passed, Has, Fits, Found, Filed, AccountOfUser
<1>8. IndexOK'
  BY <1>1, <1>2, <1>3 DEF ConnInv, IndexOK, Identity
<1> QED BY <1>4, <1>5, <1>6, <1>7, <1>8 DEF ConnInv

LEMMA AdoptKeeps == ASSUME NEW u \in Users, ConnInv, Adopt(u) PROVE ConnInv'
<1>1. /\ saver[u].at = "adopt" /\ SaverOK(u) /\ saver[u].key \in Keys
      /\ saver' = [saver EXCEPT ![u] = NotSaving] /\ saver'[u] = NotSaving
      /\ clients' = [clients EXCEPT ![u] = saver[u].key]
      /\ unanswered' = [unanswered EXCEPT ![u] = Answered]
      /\ UNCHANGED <<rows, column, files, cache, finder, stage>>
      /\ \A w \in Users \ {u} : saver'[w] = saver[w]
  BY DEF Adopt, Proceed, ConnInv, ConnTypes, SaverOK
<1>2. /\ stage = "up" /\ NotSaving \in Saver /\ NotSaving.at = "idle"
      /\ clients[u] # Closed /\ Fits(u, saver[u].key) /\ Fits(u, cache[u].key)
      /\ files[u] = saver[u].key
  BY <1>1, WorkIsUp, EmptyRecords DEF SaverOK, Fits
<1>3. /\ clients' \in [Users -> MaybeKey \cup {Closed}] /\ clients'[u] = saver[u].key
      /\ \A w \in Users \ {u} : clients'[w] = clients[w]
  BY <1>1 DEF ConnInv, ConnTypes, MaybeKey
<1>10. /\ unanswered' \in [Users -> MaybeKey \cup {Answered}] /\ unanswered'[u] = Answered
       /\ \A w \in Users \ {u} : unanswered'[w] = unanswered[w]
  BY <1>1 DEF ConnInv, ConnTypes
<1>4. ConnTypes'
  BY <1>1, <1>2, <1>3, <1>10 DEF ConnInv, ConnTypes
<1>5. RowsOK' /\ StageOK' /\ UnansweredOK'
  BY <1>1, <1>2, <1>3, <1>10
     DEF ConnInv, RowsOK, StageOK, UnansweredOK, Has, Fits, AccountOfUser
<1>11. KeysOK'
  <2>1. Filed(u, files[u])' /\ Found(u, cache[u].key)' /\ Found(u, clients[u])'
    BY <1>1, <1>2, <1>3, KeysOpenAccounts DEF Filed, Found, Fits, Has, AccountOfUser
  <2> QED BY <1>1, <1>2, <1>3, <1>10, <2>1
          DEF ConnInv, KeysOK, StageOK, Has, Fits, Found, Filed, AccountOfUser
\* A client that is open stays open, and another's stays closed.
<1>6. FinderOK'
  <2>1. finder.at = "build" /\ clients'[finder.user] = Closed => clients[finder.user] = Closed
    BY <1>1, <1>3, KeysOpenAccounts DEF ConnInv, ConnTypes, MaybeKey
  <2> QED BY <1>1, <1>2, <2>1 DEF ConnInv, FinderOK, Has, AccountOfUser
<1>7. SaverOK(u)'
  BY <1>1, <1>2 DEF SaverOK, Passed, Comparing, Writing
<1>8. ASSUME NEW w \in Users \ {u} PROVE SaverOK(w)'
  BY <1>1, <1>3, <1>10 DEF ConnInv, SaverOK, Passed, Has, Fits, Found, Filed, AccountOfUser
<1>9. IndexOK'
  BY <1>1, <1>2 DEF ConnInv, IndexOK, Identity
<1> QED BY <1>4, <1>5, <1>6, <1>7, <1>8, <1>9, <1>11 DEF ConnInv

LEMMA LookKeeps ==
  ASSUME NEW u \in Users, NEW w \in Users, ConnInv, Look(u, w) PROVE ConnInv'
<1> DEFINE next == [user |-> u, for |-> w, at |-> "build", row |-> rows[w]]
<1>1. /\ stage = "up" /\ finder' = next
      /\ UNCHANGED <<rows, column, files, cache, clients, saver, stage, unanswered>>
  BY DEF Look
<1>2. /\ next.user = u /\ next.for = w /\ next.row = rows[w]
      /\ next \in [user : Users, for : Users, at : {"free", "build"}, row : Row]
  BY DEF ConnInv, ConnTypes
<1> HIDE DEF next
<1>3. clients[u] = Closed => u = w
  <2>1. saver[u].at = "check" => clients[u] # Closed
    BY DEF ConnInv, SaverOK
  <2> QED BY <2>1 DEF Look
<1>4. FinderOK'
  <2>1. clients[u] # Closed => saver[u].at = "check" /\ w \in saver[u].rest
    BY DEF Look
  <2> QED BY <1>1, <1>2, <1>3, <2>1 DEF FinderOK, Has, AccountOfUser, EnvAccount
<1>5. ConnTypes' /\ RowsOK' /\ StageOK' /\ UnansweredOK' /\ KeysOK' /\ IndexOK'
  BY <1>1, <1>2
     DEF ConnInv, ConnTypes, RowsOK, StageOK, UnansweredOK, KeysOK, IndexOK, Has, Fits, Found,
         Filed, AccountOfUser, Identity
<1>6. ASSUME NEW v \in Users PROVE SaverOK(v)'
  BY <1>1 DEF ConnInv, SaverOK, Passed, Has, Fits, Found, Filed, AccountOfUser
<1> QED BY <1>4, <1>5, <1>6 DEF ConnInv

\* The client: from the cache, from the settings or from the user's file.
LEMMA BuildKeeps == ASSUME ConnInv, Build PROVE ConnInv'
<1> SUFFICES ASSUME NEW f \in Users, NEW u \in Users, NEW r \in Row,
                    f = finder.user, u = finder.for, r = finder.row
             PROVE  ConnInv'
  BY DEF ConnInv, ConnTypes
<1> DEFINE hit == cache[u].revision = r.revision /\ cache[u].key # NoKey
           key == IF hit THEN cache[u].key
                  ELSE IF r.source = "ENV" THEN EnvKey
                  ELSE IF r.source = "LOCAL" THEN files[u] ELSE NoKey
<1>1. /\ finder.at = "build" /\ finder' = NotFinding /\ NotFinding.at = "free"
      /\ NotFinding \in [user : Users, for : Users, at : {"free", "build"}, row : Row]
      /\ UNCHANGED <<rows, column, files, stage, unanswered>>
  BY EmptyRecords DEF Build, ConnInv, ConnTypes
<1>2. stage = "up" /\ Has(Owner) /\ \A w \in Users : column[w] = NoKey
  BY <1>1 DEF ConnInv, StageOK
<1>3. key \in MaybeKey
  BY KeysOpenAccounts, <1>1 DEF ConnInv, ConnTypes, MaybeKey
<1>4. Found(u, key) /\ (saver[u].at = "adopt" => Fits(u, key))
  <2>1. CASE hit
    BY <1>1, <2>1 DEF ConnInv, KeysOK, SaverOK
  <2>2. CASE ~hit /\ r.source = "ENV"
    BY <1>1, <2>2 DEF ConnInv, FinderOK, Found, Fits, EnvAccount
  <2>3. CASE ~hit /\ r.source = "LOCAL"
    <3>1. key = files[u] /\ rows[u].source = "LOCAL"
      BY <1>1, <2>3 DEF ConnInv, FinderOK
    <3>2. Found(u, files[u])
      BY <1>2, <3>1 DEF ConnInv, KeysOK, Filed, Has
    <3>3. saver[u].at = "adopt" => Fits(u, files[u])
      BY DEF ConnInv, SaverOK, Fits
    <3> QED BY <3>1, <3>2, <3>3
  <2>4. CASE ~hit /\ r.source \notin {"ENV", "LOCAL"}
    BY <2>4 DEF Found, Fits
  <2> QED BY <2>1, <2>2, <2>3, <2>4
<1>5. /\ cache' \in [Users -> [revision : Int, key : MaybeKey]]
      /\ \A w \in Users : Found(w, cache'[w].key)
      /\ \A w \in Users : saver[w].at = "adopt" => Fits(w, cache'[w].key)
  <2>1. cache' \in {cache, [cache EXCEPT ![u] = [revision |-> r.revision, key |-> key]]}
    BY DEF Build
  <2>2. r.revision \in Int
    BY <1>1 DEF Row
  <2>3. CASE cache' = cache
    BY <2>3 DEF ConnInv, ConnTypes, KeysOK, SaverOK
  <2>4. CASE cache' = [cache EXCEPT ![u] = [revision |-> r.revision, key |-> key]]
    <3> HIDE DEF key
    <3>1. /\ cache'[u] = [revision |-> r.revision, key |-> key]
          /\ \A w \in Users \ {u} : cache'[w] = cache[w]
          /\ cache' \in [Users -> [revision : Int, key : MaybeKey]]
      BY <1>1, <1>3, <2>2, <2>4 DEF ConnInv, ConnTypes
    <3> QED BY <1>4, <3>1 DEF ConnInv, KeysOK, SaverOK
  <2> QED BY <2>1, <2>3, <2>4
<1>6. CASE clients[f] = Closed
  <2>1. clients' = [clients EXCEPT ![f] = key] /\ UNCHANGED saver /\ f = u
    BY <1>1, <1>6 DEF Build, ConnInv, FinderOK
  <2> HIDE DEF key
  <2>2. /\ clients' \in [Users -> MaybeKey \cup {Closed}] /\ clients'[u] = key
        /\ \A w \in Users \ {u} : clients'[w] = clients[w]
    BY <1>1, <1>3, <2>1 DEF ConnInv, ConnTypes
  <2>3. ConnTypes' /\ RowsOK' /\ StageOK' /\ UnansweredOK' /\ FinderOK' /\ IndexOK'
    BY <1>1, <1>2, <1>5, <2>1, <2>2
       DEF ConnInv, ConnTypes, RowsOK, StageOK, UnansweredOK, FinderOK, IndexOK, Has, Fits,
           AccountOfUser, Identity
  <2>4. KeysOK'
    BY <1>1, <1>2, <1>4, <1>5, <2>2 DEF ConnInv, KeysOK, Has, Fits, Found, Filed, AccountOfUser
  <2>5. ASSUME NEW w \in Users PROVE SaverOK(w)'
    <3>1. clients[w] # Closed => clients'[w] # Closed
      BY <1>6, <2>1, <2>2
    <3> QED BY <1>1, <1>5, <2>1, <3>1
            DEF ConnInv, SaverOK, Passed, Has, Fits, Found, Filed, AccountOfUser
  <2> QED BY <2>3, <2>4, <2>5 DEF ConnInv
<1>7. CASE clients[f] # Closed
  <2> DEFINE next == [saver[f] EXCEPT !.at = "compare", !.rest = @ \ {u}, !.about = u, !.found = key]
  <2>1. UNCHANGED clients /\ saver' = [saver EXCEPT ![f] = next]
    BY <1>7 DEF Build, Proceed
  <2>2. saver[f].at = "check" /\ u \in saver[f].rest /\ saver[f] \in Saver /\ SaverOK(f)
    BY <1>1, <1>7 DEF ConnInv, ConnTypes, FinderOK
  <2> HIDE DEF key
  <2>3. /\ next \in Saver /\ next.at = "compare" /\ next.rest = saver[f].rest \ {u}
        /\ next.about = u /\ next.found = key /\ next.key = saver[f].key
        /\ next.previous = saver[f].previous
    BY <1>1, <1>3, <2>2 DEF Saver, Steps, Comparing
  <2> HIDE DEF next
  <2>4. saver'[f] = next /\ \A w \in Users \ {f} : saver'[w] = saver[w]
    BY <1>1, <2>1, <2>3 DEF ConnInv, ConnTypes
  <2>5. ConnTypes' /\ RowsOK' /\ StageOK' /\ UnansweredOK' /\ FinderOK'
    BY <1>1, <1>2, <1>5, <2>1, <2>3
       DEF ConnInv, ConnTypes, RowsOK, StageOK, UnansweredOK, FinderOK, Has, Fits, AccountOfUser
  <2>6. KeysOK'
    BY <1>1, <1>2, <1>5, <2>1 DEF ConnInv, KeysOK, Has, Fits, Found, Filed, AccountOfUser
  <2>7. IndexOK'
    BY <1>1, <2>3, <2>4 DEF ConnInv, IndexOK, Identity
  <2>10. Fits(u, key)
    <3>1. u = Owner
      BY <1>1, <2>2 DEF Saver
    <3> QED BY <1>3, <1>4, <3>1, KeysOpenAccounts DEF ConnInv, UnansweredOK, Found
  <2>8. SaverOK(f)'
    BY <1>1, <1>7, <2>1, <2>2, <2>3, <2>4, <2>10
       DEF SaverOK, Passed, Comparing, Writing, Has, Fits, Found, Filed, AccountOfUser
  <2>9. ASSUME NEW w \in Users \ {f} PROVE SaverOK(w)'
    BY <1>1, <1>5, <2>1, <2>4
       DEF ConnInv, SaverOK, Passed, Has, Fits, Found, Filed, AccountOfUser
  <2> QED BY <2>5, <2>6, <2>7, <2>8, <2>9 DEF ConnInv
<1> QED BY <1>6, <1>7

-----------------------------------------------------------------------------
(* The start of the server, and its end.                                     *)

LEMMA MigrateKeeps == ASSUME NEW u \in Users, ConnInv, Migrate(u) PROVE ConnInv'
<1>1. /\ stage = "migrating" /\ column[u] # NoKey
      /\ UNCHANGED <<rows, column, cache, clients, finder, saver, stage, unanswered>>
  BY DEF Migrate
<1>2. /\ files' \in [Users -> MaybeKey] /\ files'[u] = column[u]
      /\ \A w \in Users \ {u} : files'[w] = files[w]
  BY DEF Migrate, ConnInv, ConnTypes
<1>3. ConnTypes' /\ RowsOK' /\ StageOK' /\ UnansweredOK' /\ FinderOK' /\ IndexOK'
  <2>1. Has(u)
    BY <1>1 DEF ConnInv, KeysOK, Has
  <2>2. ConnTypes' /\ RowsOK' /\ UnansweredOK' /\ IndexOK'
    BY <1>1, <1>2 DEF ConnInv, ConnTypes, RowsOK, UnansweredOK, IndexOK, Has, Fits,
                      AccountOfUser, Identity
  <2>3. StageOK' /\ FinderOK'
    BY <1>1, <1>2, <2>1, KeysOpenAccounts DEF ConnInv, StageOK, FinderOK, Has, AccountOfUser
  <2> QED BY <2>2, <2>3
<1>4. KeysOK'
  BY <1>1, <1>2 DEF ConnInv, KeysOK, Has, Fits, Found, Filed, AccountOfUser
<1>5. ASSUME NEW w \in Users PROVE SaverOK(w)'
  BY <1>1 DEF ConnInv, StageOK, SaverOK, Passed, Comparing, Writing
<1> QED BY <1>3, <1>4, <1>5 DEF ConnInv

LEMMA DropColumnKeeps == ASSUME ConnInv, DropColumn PROVE ConnInv'
<1>1. /\ stage = "migrating" /\ stage' = "owning"
      /\ \A u \in Users : column'[u] = NoKey /\ (column[u] # NoKey => files[u] = column[u])
      /\ column' \in [Users -> MaybeKey]
      /\ UNCHANGED <<rows, files, cache, clients, finder, saver, unanswered>>
  BY DEF DropColumn, MaybeKey
<1>2. ConnTypes' /\ RowsOK' /\ StageOK' /\ UnansweredOK' /\ FinderOK' /\ IndexOK'
  BY <1>1
     DEF ConnInv, ConnTypes, RowsOK, StageOK, UnansweredOK, FinderOK, IndexOK, Has, Fits,
         AccountOfUser, Identity
<1>3. KeysOK'
  BY <1>1 DEF ConnInv, KeysOK, Has, Fits, Found, Filed, AccountOfUser
<1>4. ASSUME NEW w \in Users PROVE SaverOK(w)'
  BY <1>1 DEF ConnInv, StageOK, SaverOK, Passed, Comparing, Writing
<1> QED BY <1>2, <1>3, <1>4 DEF ConnInv

\* Nobody has the account of the settings while the owner has no connection.
LEMMA OwnSettingsKeeps == ASSUME ConnInv, OwnSettings PROVE ConnInv'
<1>1. /\ stage = "owning" /\ stage' = "up" /\ Owner \in Users
      /\ UNCHANGED <<column, files, cache, clients, finder, saver, unanswered>>
  BY KeysOpenAccounts DEF OwnSettings
<1>2. /\ finder.at = "free" /\ \A u \in Users : column[u] = NoKey
      /\ \A u \in Users : clients[u] = Closed /\ cache[u].key = NoKey /\ saver[u].at = "idle"
  BY <1>1 DEF ConnInv, StageOK, KeysOK
<1>3. /\ rows' \in [Users -> Row] /\ RowsOK' /\ Has(Owner)'
      /\ \A u \in Users : rows'[u].source = "LOCAL" =>
           rows[u].source = "LOCAL" /\ rows'[u] = rows[u]
  <2>1. CASE rows[Owner] # NoRow /\ rows' = rows
    BY <1>1, <2>1 DEF ConnInv, ConnTypes, RowsOK, Has, AccountOfUser
  <2>2. ASSUME NEW account \in {EnvAccount, NoAccount}, rows[Owner] = NoRow,
               rows' = [rows EXCEPT ![Owner] = [source |-> "ENV", account |-> account, revision |-> 1]]
        PROVE  /\ rows' \in [Users -> Row] /\ RowsOK' /\ Has(Owner)'
               /\ \A u \in Users : rows'[u].source = "LOCAL" =>
                    rows[u].source = "LOCAL" /\ rows'[u] = rows[u]
    <3> DEFINE row == [source |-> "ENV", account |-> account, revision |-> 1]
    <3>1. row \in Row /\ row.source = "ENV" /\ row.account = account
      BY KeysOpenAccounts DEF Row, MaybeAccount
    <3> HIDE DEF row
    <3>2. /\ rows' \in [Users -> Row] /\ rows'[Owner] = row
          /\ \A u \in Users \ {Owner} : rows'[u] = rows[u]
      BY <1>1, <2>2, <3>1 DEF ConnInv, ConnTypes, row
    <3>3. ~Has(Owner)
      BY <2>2, EmptyRecords DEF Has
    <3>4. \A u \in Users \ {Owner} : rows'[u].source # "ENV"
      BY <3>2 DEF ConnInv, RowsOK
    <3>5. ASSUME NEW u \in Users, NEW w \in Users, u # w, rows'[w].source = "LOCAL"
          PROVE  Has(u)' => rows'[w].account # AccountOfUser(u)'
      <4>1. w # Owner /\ rows'[w] = rows[w]
        BY <3>1, <3>2, <3>5
      <4>2. CASE u = Owner
        BY <3>1, <3>2, <3>3, <3>5, <4>1, <4>2 DEF ConnInv, RowsOK, AccountOfUser, EnvAccount
      <4>3. CASE u # Owner
        BY <3>2, <3>5, <4>1, <4>3 DEF ConnInv, RowsOK, Has, AccountOfUser
      <4> QED BY <4>2, <4>3
    <3>6. RowsOK'
      BY <3>1, <3>2, <3>4, <3>5 DEF ConnInv, RowsOK, Has
    <3> QED BY <3>1, <3>2, <3>6, <1>1 DEF Has
  <2> QED BY <2>1, <2>2 DEF OwnSettings, EnvAccount
<1>4. ConnTypes' /\ StageOK' /\ FinderOK' /\ IndexOK'
  BY <1>1, <1>2, <1>3 DEF ConnInv, ConnTypes, StageOK, FinderOK, IndexOK
\* Only the owner's row is new, and the owner had no file without one.
<1>7. \A u \in Users : rows'[u] = rows[u] \/ (~Has(u) /\ files[u] = NoKey /\ rows'[u].source = "ENV")
  BY <1>1, EmptyRecords DEF OwnSettings, ConnInv, ConnTypes, RowsOK, StageOK, Has
<1>8. UnansweredOK'
  BY <1>1, <1>7 DEF ConnInv, UnansweredOK, Has, Fits, AccountOfUser
<1>5. KeysOK'
  <2> SUFFICES ASSUME NEW u \in Users
               PROVE  Found(u, NoKey)' /\ (clients[u] # Closed => FALSE) /\ Filed(u, files[u])'
    BY <1>1, <1>2 DEF KeysOK
  <2>1. Found(u, NoKey)'
    BY DEF Found, Fits
  <2>2. CASE rows'[u] = rows[u]
    <3>1. Filed(u, files[u])
      BY <1>2 DEF ConnInv, KeysOK
    <3>2. Filed(u, files[u])'
      BY <1>1, <2>2, <3>1 DEF Filed, Found, Fits, Has, AccountOfUser
    <3> QED BY <1>2, <2>1, <3>2
  <2>3. CASE files[u] = NoKey /\ rows'[u].source = "ENV"
    BY <1>1, <1>2, <2>1, <2>3 DEF Filed, Found, Fits
  <2> QED BY <1>7, <2>2, <2>3
<1>6. ASSUME NEW w \in Users PROVE SaverOK(w)'
  BY <1>1, <1>2 DEF SaverOK, Passed, Comparing, Writing
<1> QED BY <1>3, <1>4, <1>5, <1>6, <1>8 DEF ConnInv

LEMMA GoDownKeeps == ASSUME ConnInv, GoDown PROVE ConnInv'
<1>1. /\ stage' = "migrating" /\ finder' = NotFinding
      /\ cache' = [u \in Users |-> NotCached] /\ clients' = [u \in Users |-> Closed]
      /\ saver' = [u \in Users |-> NotSaving]
      /\ UNCHANGED <<rows, column, files>>
  BY DEF GoDown
\* The save of a user whose answers are no longer missing has its file.
<1>2. /\ unanswered' \in [Users -> MaybeKey \cup {Answered}]
      /\ \A u \in Users : \/ unanswered'[u] = unanswered[u]
                          \/ unanswered'[u] = Answered /\ Fits(u, files[u]) /\ files[u] # NoKey
  <2> DEFINE cut == [u \in Users |->
               IF saver[u].at \in {"forget", "adopt"} THEN Answered ELSE unanswered[u]]
  <2>1. unanswered' = cut
    BY DEF GoDown
  <2>2. cut \in [Users -> MaybeKey \cup {Answered}]
    BY DEF ConnInv, ConnTypes
  <2>3. ASSUME NEW u \in Users
        PROVE  \/ cut[u] = unanswered[u]
               \/ cut[u] = Answered /\ Fits(u, files[u]) /\ files[u] # NoKey
    <3>1. CASE saver[u].at \in {"forget", "adopt"}
      <4>1. Fits(u, files[u]) /\ files[u] # NoKey
        BY <3>1, KeysOpenAccounts DEF ConnInv, SaverOK, Fits
      <4> QED BY <3>1, <4>1
    <3>2. CASE saver[u].at \notin {"forget", "adopt"}
      BY <3>2
    <3> QED BY <3>1, <3>2
  <2> QED BY <2>1, <2>2, <2>3
<1>3. ~Has(Owner) => files[Owner] = NoKey
  BY DEF ConnInv, StageOK
<1>4. ConnTypes' /\ RowsOK' /\ StageOK' /\ FinderOK' /\ IndexOK'
  BY <1>1, <1>2, <1>3, EmptyRecords
     DEF ConnInv, ConnTypes, RowsOK, StageOK, FinderOK, IndexOK, Has, AccountOfUser, Identity
<1>5. UnansweredOK'
  BY <1>1, <1>2 DEF ConnInv, UnansweredOK, Has, Fits, AccountOfUser
<1>6. KeysOK'
  <2>1. ASSUME NEW u \in Users, Filed(u, files[u]) PROVE Filed(u, files[u])'
    BY <1>1, <1>2, <2>1 DEF Filed, Found, Has, Fits, AccountOfUser
  <2>2. ASSUME NEW u \in Users PROVE Found(u, cache[u].key)' /\ clients'[u] = Closed
    BY <1>1, EmptyRecords DEF Found, Fits
  <2>3. \A u \in Users : column[u] # NoKey => stage = "migrating" /\ Fits(u, column[u])'
    BY <1>1 DEF ConnInv, KeysOK, Fits, Has, AccountOfUser
  <2> QED BY <1>1, <2>1, <2>2, <2>3 DEF ConnInv, KeysOK, Found, Fits
<1>7. ASSUME NEW w \in Users PROVE SaverOK(w)'
  BY <1>1, EmptyRecords DEF SaverOK, Passed, Comparing, Writing
<1> QED BY <1>4, <1>5, <1>6, <1>7 DEF ConnInv

LEMMA InitEstablishes == ConnectionInit => ConnInv
<1> SUFFICES ASSUME ConnectionInit PROVE ConnInv
  OBVIOUS
<1>1. /\ column \in Legacy /\ column \in [Users -> MaybeKey]
      /\ files = [u \in Users |-> NoKey] /\ stage = "migrating" /\ finder = NotFinding
      /\ cache = [u \in Users |-> NotCached] /\ clients = [u \in Users |-> Closed]
      /\ saver = [u \in Users |-> NotSaving] /\ unanswered = [u \in Users |-> Answered]
  BY ConnectionAssumption DEF ConnectionInit, MaybeKey
<1>2. \A u \in Users :
        /\ rows[u] = IF column[u] = NoKey THEN NoRow
                     ELSE [source |-> "LOCAL", account |-> AccountOf[column[u]], revision |-> 1]
        /\ column[u] # NoKey => column[u] \in Keys
  BY <1>1 DEF ConnectionInit, MaybeKey
<1>3. \A u \in Users :
        /\ rows[u] \in Row
        /\ column[u] = NoKey => rows[u] = NoRow /\ rows[u].source = "none"
        /\ column[u] # NoKey => /\ rows[u].source = "LOCAL"
                                /\ rows[u].account = AccountOf[column[u]]
                                /\ rows[u].account \in KeyAccounts
  <2> TAKE u \in Users
  <2>1. CASE column[u] = NoKey
    BY <1>2, <2>1, EmptyRecords
  <2>2. CASE column[u] # NoKey
    <3>1. /\ rows[u] = [source |-> "LOCAL", account |-> AccountOf[column[u]], revision |-> 1]
          /\ AccountOf[column[u]] \in KeyAccounts
      BY <1>2, <2>2, KeysOpenAccounts
    <3>2. rows[u] \in Row
      BY <3>1 DEF Row, MaybeAccount
    <3> QED BY <2>2, <3>1, <3>2
  <2> QED BY <2>1, <2>2
<1>4. ConnTypes
  <2>1. rows \in [Users -> Row]
    BY <1>3 DEF ConnectionInit
  <2> QED BY <1>1, <2>1, EmptyRecords DEF ConnTypes, MaybeKey
<1>5. RowsOK
  <2>1. ASSUME NEW u \in Users, NEW w \in Users, u # w, column[w] # NoKey
        PROVE  /\ column[u] # NoKey => AccountOf[column[w]] # AccountOf[column[u]]
               /\ u = Owner /\ column[u] = NoKey => AccountOf[column[w]] # EnvAccount
    BY <1>1, <2>1, LegacyAssumption DEF EnvAccount
  <2> QED BY <1>3, <2>1 DEF RowsOK, Has, AccountOfUser
<1>6. StageOK /\ UnansweredOK /\ FinderOK /\ IndexOK
  BY <1>1, EmptyRecords, KeysOpenAccounts DEF StageOK, UnansweredOK, FinderOK, IndexOK
<1>7. KeysOK
  BY <1>1, <1>3, EmptyRecords DEF KeysOK, Has, Fits, Found, Filed, AccountOfUser
<1>8. ASSUME NEW w \in Users PROVE SaverOK(w)
  BY <1>1, EmptyRecords DEF SaverOK, Passed, Comparing, Writing
<1> QED BY <1>4, <1>5, <1>6, <1>7, <1>8 DEF ConnInv

-----------------------------------------------------------------------------

LEMMA NextKeeps == ConnInv /\ [ConnectionNext]_connectionVars => ConnInv'
<1> SUFFICES ASSUME ConnInv, [ConnectionNext]_connectionVars PROVE ConnInv'
  OBVIOUS
<1>1. CASE UNCHANGED connectionVars
  BY <1>1
     DEF connectionVars, ConnInv, ConnTypes, RowsOK, StageOK, UnansweredOK, KeysOK, FinderOK,
         IndexOK, SaverOK, Passed, Has, Fits, Found, Filed, AccountOfUser, Identity
<1>2. ASSUME NEW u \in Users,
             \/ Migrate(u) \/ Reject(u) \/ ReadRows(u) \/ Compare(u) \/ Compared(u)
             \/ InsertRow(u) \/ WriteFile(u) \/ CommitRow(u) \/ Undo(u) \/ Forget(u) \/ Adopt(u)
      PROVE  ConnInv'
  BY <1>2, MigrateKeeps, RejectKeeps, ReadRowsKeeps, CompareKeeps, ComparedKeeps, InsertRowKeeps,
     WriteFileKeeps, CommitRowKeeps, UndoKeeps, ForgetKeeps, AdoptKeeps
<1>3. ASSUME NEW u \in Users, NEW w \in Users, Look(u, w) PROVE ConnInv'
  BY <1>3, LookKeeps
<1>4. ASSUME NEW u \in Users, NEW k \in Keys, Save(u, k) PROVE ConnInv'
  BY <1>4, SaveKeeps
<1>5. CASE DropColumn \/ OwnSettings \/ Build \/ GoDown
  BY <1>5, DropColumnKeeps, OwnSettingsKeeps, BuildKeeps, GoDownKeeps
<1> QED BY <1>1, <1>2, <1>3, <1>4, <1>5 DEF ConnectionNext

LEMMA ConnectionsKeepTheirAccounts == ConnectionSpec => []ConnInv
<1> QED BY InitEstablishes, NextKeeps, PTL DEF ConnectionSpec

(* However many users save at the same time, whatever the broker answers and  *)
(* whenever the server goes down, no two of them trade on one account: the    *)
(* comparison with the connection of the settings and the index of identities *)
(* leave no gap (user_connections.py:91-123).                              *)
THEOREM AccountsHaveOneOwner == ConnectionSpec => []OneOwnerPerAccount
<1>1. ConnInv => OneOwnerPerAccount
  <2> SUFFICES ASSUME ConnInv, NEW u \in Users, NEW w \in Users, u # w,
                      rows[u] # NoRow, rows[w] # NoRow
               PROVE  AccountOfUser(u) # AccountOfUser(w)
    BY DEF OneOwnerPerAccount
  <2>1. Has(u) /\ Has(w)
    BY DEF ConnInv, RowsOK, Has
  <2>2. CASE rows[w].source = "LOCAL"
    BY <2>1, <2>2 DEF ConnInv, RowsOK, AccountOfUser
  <2>3. CASE rows[u].source = "LOCAL"
    BY <2>1, <2>3 DEF ConnInv, RowsOK, AccountOfUser
  <2>4. CASE rows[u].source = "ENV" /\ rows[w].source = "ENV"
    BY <2>4 DEF ConnInv, RowsOK
  <2> QED BY <2>1, <2>2, <2>3, <2>4, AccountsOfUsers DEF ConnInv
<1> QED BY <1>1, ConnectionsKeepTheirAccounts, PTL

(* A failed save, a failed undo, a lost answer and a crash between file and   *)
(* row all leave credentials of the row's account, and the client of an open  *)
(* workspace is of that account too; but for the file from before a first     *)
(* save whose commit was not answered (user_connections.py:122-139).        *)
THEOREM CredentialsAlwaysFit == ConnectionSpec => []CredentialsFit
<1>1. ConnInv => CredentialsFit
  <2> SUFFICES ASSUME ConnInv, NEW u \in Users
               PROVE  /\ rows[u].source = "LOCAL" =>
                           LET key == IF stage = "migrating" /\ column[u] # NoKey
                                      THEN column[u] ELSE files[u]
                           IN (key # NoKey /\ AccountOf[key] = rows[u].account)
                              \/ key = unanswered[u]
                      /\ clients[u] \notin {Closed, NoKey, unanswered[u]} =>
                           rows[u] # NoRow /\ AccountOf[clients[u]] = AccountOfUser(u)
    BY DEF CredentialsFit
  <2>1. rows[u].source = "LOCAL" => AccountOfUser(u) = rows[u].account /\ Has(u)
    BY DEF AccountOfUser, Has
  <2>2. Has(u) => rows[u] # NoRow
    BY EmptyRecords DEF Has
  <2>3. clients[u] \notin {Closed, NoKey, unanswered[u]} =>
          rows[u] # NoRow /\ AccountOf[clients[u]] = AccountOfUser(u)
    BY <2>2 DEF ConnInv, KeysOK, Found, Fits
  <2>4. column[u] # NoKey => stage = "migrating" /\ Fits(u, column[u])
    BY DEF ConnInv, KeysOK
  <2>5. column[u] = NoKey => Filed(u, files[u])
    BY DEF ConnInv, KeysOK
  <2> QED BY <2>1, <2>3, <2>4, <2>5 DEF Filed, Found, Fits
<1> QED BY <1>1, ConnectionsKeepTheirAccounts, PTL


(***************************************************************************)
(* The quote stream (QuoteStream)                                          *)
(***************************************************************************)

Living == {"token", "connect", "listen", "backoff"}
TaskRecord == [stream : Nat, at : Living \cup {"unborn", "closing", "ended"}, told : SUBSET Codes]
Frames == {"none", "connecting", "reconnecting", "answer"}

QuoteTypes ==
  /\ wanted \in [Viewers -> Seq(Codes)] /\ current \in Streams
  /\ listeners \in [Streams -> SUBSET Pairs]
  /\ task \in [Streams -> Viewers \cup {Nobody}] /\ tasks \in [Viewers -> TaskRecord]
  /\ viewer \in [Viewers -> [at : {"out", "watching", "rejected", "closing", "gone"},
                             task : Viewers \cup {Nobody}]]
  /\ view \in [Pairs -> [frame : Frames, unread : BOOLEAN]]
  /\ change.at \in {"none", "closing"}

\* A task that can be heard is the one its stream holds.
TasksAreHeld ==
  /\ \A s \in Streams : task[s] # Nobody => tasks[task[s]].stream = s /\ Alive(task[s])
  /\ \A t \in Viewers : Alive(t) => tasks[t].stream \in Streams /\ task[tasks[t].stream] = t

\* A viewer signs on once, to one stream.
SignedOnOnce ==
  /\ \A v \in Viewers : viewer[v].at = "out" =>
       tasks[v].at = "unborn" /\ \A s \in Streams : \A p \in listeners[s] : p[2] # v
  /\ \A s, r \in Streams : \A p \in listeners[s] : p \in listeners[r] => s = r

\* Nobody has signed on to the streams to come, and the present one has a task
\* as long as it has listeners.
StreamsInTurn ==
  /\ \A s \in Streams : s > current => listeners[s] = {} /\ task[s] = Nobody
  /\ change.at = "closing" => current + 1 \in Streams
  /\ change.at = "none" /\ task[current] = Nobody => listeners[current] = {}

\* What is asked for was heard of, and never too much.
WithinLimit ==
  /\ \A s \in Streams : IsFiniteSet(Heard(s)) /\ Cardinality(Heard(s)) <= Limit
  /\ \A t \in Viewers : IsFiniteSet(tasks[t].told) /\ Cardinality(tasks[t].told) <= Limit

\* What the streams and their viewers know of each other.
Registers == QuoteTypes /\ TasksAreHeld /\ SignedOnOnce /\ StreamsInTurn /\ WithinLimit

QuoteInvariant == Registers /\ ViewsAreHonest

\* Alive tasks of one stream are one and the same.
LEMMA HeldTasksAreAlone == QuoteInvariant => OneTaskPerStream
<1> SUFFICES ASSUME QuoteInvariant PROVE OneTaskPerStream
  OBVIOUS
<1>1. ASSUME NEW s \in Streams
      PROVE  Cardinality({t \in Viewers : tasks[t].stream = s /\ Alive(t)}) <= 1
  <2> DEFINE T == {t \in Viewers : tasks[t].stream = s /\ Alive(t)}
  <2>1. T \subseteq {task[s]}
    BY DEF QuoteInvariant, Registers, TasksAreHeld
  <2>2. IsFiniteSet({task[s]}) /\ Cardinality({task[s]}) = 1
    BY FS_Singleton
  <2> HIDE DEF T
  <2>3. Cardinality(T) <= 1
    BY <2>1, <2>2, FS_Subset
  <2> QED BY <2>3 DEF T
<1>2. \A t \in Viewers : Cardinality(tasks[t].told) <= Limit
  BY DEF QuoteInvariant, Registers, WithinLimit
<1> QED BY <1>1, <1>2 DEF OneTaskPerStream

\* Where the places in a stream run out, a viewer gets no more stocks.
LEMMA AdmittedFit ==
  ASSUME QuoteTypes, IsFiniteSet(Heard(current)), Cardinality(Heard(current)) <= Limit, NEW v \in Viewers
  PROVE  LET all == Heard(current) \cup Admitted(v)
         IN IsFiniteSet(all) /\ Cardinality(all) <= Limit
<1> DEFINE w == wanted[v]
           upTo(n) == Heard(current) \cup ToSet(SubSeq(w, 1, n))
           fits == {n \in DOMAIN w : Cardinality(upTo(n)) <= Limit}
           all == Heard(current) \cup Admitted(v)
<1>1. Admitted(v) = {w[i] : i \in fits}
  BY DEF Admitted
<1>2. w \in Seq(Codes) /\ fits \subseteq 1..Len(w) /\ Len(w) \in Nat
  BY DEF QuoteTypes
<1> HIDE DEF w
<1>3. CASE fits = {}
  <2>1. all = Heard(current)
    BY <1>1, <1>3
  <2> QED BY <2>1
<1>4. CASE fits # {}
  <2> DEFINE m == Max(fits)
  <2>1. m \in fits /\ \A i \in fits : m >= i
    <3>1. IsFiniteSet(1..Len(w))
      BY <1>2, FS_Interval
    <3>2. IsFiniteSet(fits)
      BY <1>2, <3>1, FS_Subset
    <3>3. fits \subseteq Int
      BY <1>2
    <3> HIDE DEF fits
    <3> QED BY <1>4, <3>2, <3>3, MaxInSet
  <2> HIDE DEF m
  <2>2. Cardinality(upTo(m)) <= Limit /\ m \in 1..Len(w)
    BY <1>2, <2>1
  <2> DEFINE part == SubSeq(w, 1, m)
  <2>3. DOMAIN part = 1..m /\ \A i \in 1..m : part[i] = w[i]
    BY <1>2, <2>2
  <2>4. IsFiniteSet(ToSet(part))
    <3> HIDE DEF part
    <3>1. IsFiniteSet(1..m)
      BY <2>2, FS_Interval
    <3>2. IsFiniteSet({part[i] : i \in DOMAIN part})
      BY <2>3, <3>1, FiniteImage
    <3> QED BY <3>2 DEF ToSet
  <2>5. Admitted(v) \subseteq ToSet(part)
    <3> SUFFICES ASSUME NEW i \in fits PROVE w[i] \in ToSet(part)
      BY <1>1
    <3>1. i \in 1..m
      BY <1>2, <2>1, <2>2
    <3> HIDE DEF part
    <3> QED BY <2>3, <3>1 DEF ToSet
  <2>6. IsFiniteSet(upTo(m)) /\ all \subseteq upTo(m)
    <3> HIDE DEF part
    <3>1. IsFiniteSet(Heard(current) \cup ToSet(part))
      BY <2>4, FS_Union
    <3> QED BY <2>5, <3>1 DEF part
  <2>7. IsFiniteSet(all) /\ Cardinality(all) <= Cardinality(upTo(m))
    <3> HIDE DEF all, upTo
    <3> QED BY <2>6, FS_Subset
  <2>8. Cardinality(upTo(m)) \in Nat /\ Cardinality(all) \in Nat
    BY <2>6, <2>7, FS_CardinalityType
  <2> HIDE DEF upTo, all
  <2>9. IsFiniteSet(all) /\ Cardinality(all) <= Limit
    BY <2>2, <2>7, <2>8, StreamAssumption
  <2> QED BY <2>9 DEF all
<1> QED BY <1>3, <1>4

-----------------------------------------------------------------------------
(* What the parts of a step leave as it was                                 *)

\* Views do not matter to the registers.
LEMMA ViewsChange ==
  ASSUME Registers, UNCHANGED <<wanted, current, listeners, task, tasks, viewer, change>>,
         view' \in [Pairs -> [frame : Frames, unread : BOOLEAN]]
  PROVE  Registers'
BY DEF Registers, QuoteTypes, TasksAreHeld, SignedOnOnce, StreamsInTurn, WithinLimit, Alive, Heard

\* A task that lives on, with what it asks for.
LEMMA TaskGoesOn ==
  ASSUME Registers, UNCHANGED <<wanted, current, listeners, task, viewer, change>>,
         view' \in [Pairs -> [frame : Frames, unread : BOOLEAN]],
         NEW t \in Viewers, Alive(t), NEW r \in TaskRecord, r.at \in Living, r.stream = tasks[t].stream,
         IsFiniteSet(r.told), Cardinality(r.told) <= Limit, tasks' = [tasks EXCEPT ![t] = r]
  PROVE  Registers'
<1>1. tasks \in [Viewers -> TaskRecord] /\ tasks' \in [Viewers -> TaskRecord]
      /\ tasks'[t] = r /\ \A u \in Viewers : u # t => tasks'[u] = tasks[u]
  BY DEF Registers, QuoteTypes
<1>2. QuoteTypes'
  BY <1>1 DEF Registers, QuoteTypes
<1>3. \A u \in Viewers : Alive(u)' <=> Alive(u)
  BY <1>1 DEF Alive, Living
<1>4. TasksAreHeld'
  <2>1. \A s \in Streams : task[s] # Nobody => task[s] \in Viewers
    BY DEF Registers, QuoteTypes
  <2> QED BY <1>1, <1>3, <2>1 DEF Registers, TasksAreHeld, Alive
<1>5. SignedOnOnce'
  <2>1. \A v \in Viewers : viewer[v].at = "out" => v # t
    BY DEF Registers, SignedOnOnce, Alive
  <2> QED BY <1>1, <2>1 DEF Registers, SignedOnOnce
<1>6. StreamsInTurn' /\ WithinLimit'
  BY <1>1 DEF Registers, StreamsInTurn, WithinLimit, Heard
<1> QED BY <1>2, <1>4, <1>5, <1>6 DEF Registers

\* Frames are published to the pairs they are for.
LEMMA Published ==
  ASSUME QuoteTypes, NEW pairs, NEW frame \in Frames, view' = Publish(pairs, frame)
  PROVE  /\ view' \in [Pairs -> [frame : Frames, unread : BOOLEAN]]
         /\ \A p \in Pairs : view'[p].frame = IF p \in pairs THEN frame ELSE view[p].frame
BY DEF QuoteTypes, Publish

\* A cancelled task is heard no more; the others go on.
Silenced(t) ==
  /\ tasks' \in [Viewers -> TaskRecord]
  /\ tasks'[t].at \notin Living /\ \A u \in Viewers : u # t => tasks'[u] = tasks[u]
  /\ \A u \in Viewers : IsFiniteSet(tasks'[u].told) /\ Cardinality(tasks'[u].told) <= Limit

\* A task that is cancelled can no longer be heard.
LEMMA TaskCancelled ==
  ASSUME QuoteTypes, WithinLimit, NEW t \in Viewers, tasks' = Cancelled(t)
  PROVE  Silenced(t)
<1>1. tasks \in [Viewers -> TaskRecord] /\ Limit >= 0 /\ Limit \in Nat
  BY StreamAssumption DEF QuoteTypes
<1>2. tasks' = [u \in Viewers |-> IF u = t /\ Alive(u) THEN [tasks[u] EXCEPT !.at = "closing", !.told = {}] ELSE tasks[u]]
  BY DEF Cancelled
<1>3. \A u \in Viewers : u # t => tasks'[u] = tasks[u]
  BY <1>2
<1>4. CASE Alive(t)
  <2> DEFINE r == [tasks[t] EXCEPT !.at = "closing", !.told = {}]
  <2>1. tasks'[t] = r
    BY <1>2, <1>4
  <2>2. r \in TaskRecord /\ r.at = "closing" /\ r.told = {}
    BY <1>1 DEF TaskRecord
  <2> HIDE DEF r
  <2>3. IsFiniteSet(tasks'[t].told) /\ Cardinality(tasks'[t].told) <= Limit
    BY <1>1, <2>1, <2>2, FS_EmptySet
  <2>4. tasks'[t].at \notin Living
    BY <2>1, <2>2 DEF Living
  <2>5. tasks' \in [Viewers -> TaskRecord]
    <3>1. \A u \in Viewers : tasks'[u] \in TaskRecord
      BY <1>1, <1>3, <2>1, <2>2
    <3> QED BY <1>2, <3>1
  <2> QED BY <1>3, <2>3, <2>4, <2>5 DEF WithinLimit, Silenced
<1>5. CASE ~Alive(t)
  <2>1. tasks' = tasks
    BY <1>1, <1>2, <1>5
  <2> QED BY <1>1, <1>5, <2>1 DEF WithinLimit, Alive, Living, Silenced
<1> QED BY <1>4, <1>5

-----------------------------------------------------------------------------
(* Viewers and connection changes, for the registers                        *)

\* A viewer that signs on begins a task only when the stream has none.
LEMMA EnterRegisters ==
  ASSUME Registers, NEW v \in Viewers, Enter(v)
  PROVE  Registers'
<1> DEFINE pairs == {<<c, v>> : c \in Admitted(v)}
<1>1. viewer[v].at = "out" /\ UNCHANGED <<wanted, current, change, token, troubles>>
  BY DEF Enter
<1>2. /\ viewer' \in [Viewers -> [at : {"out", "watching", "rejected", "closing", "gone"},
                                  task : Viewers \cup {Nobody}]]
      /\ \A u \in Viewers : viewer'[u].at = "out" => u # v /\ viewer[u].at = "out"
  <2> DEFINE place == IF Cardinality(pairs) = Len(wanted[v]) THEN "watching" ELSE "rejected"
  <2>1. viewer' = [viewer EXCEPT ![v].at = place] /\ place \in {"watching", "rejected"}
    BY DEF Enter
  <2> HIDE DEF place
  <2> QED BY <2>1 DEF Registers, QuoteTypes
<1>3. QuoteTypes /\ TasksAreHeld /\ SignedOnOnce /\ StreamsInTurn /\ WithinLimit /\ current \in Streams
  BY DEF Registers, QuoteTypes
<1>4. CASE pairs = {}
  <2>1. UNCHANGED <<listeners, changed, task, tasks, view>>
    BY <1>4 DEF Enter
  <2> HIDE DEF pairs
  <2>2. QuoteTypes'
    BY <1>1, <1>2, <1>3, <2>1 DEF QuoteTypes
  <2>3. TasksAreHeld'
    BY <1>3, <2>1 DEF TasksAreHeld, Alive
  <2>4. SignedOnOnce'
    BY <1>2, <1>3, <2>1 DEF SignedOnOnce
  <2>5. StreamsInTurn' /\ WithinLimit'
    BY <1>1, <1>3, <2>1 DEF StreamsInTurn, WithinLimit, Heard
  <2> QED BY <2>2, <2>3, <2>4, <2>5 DEF Registers
<1>5. CASE pairs # {}
  <2>1. /\ listeners' = [listeners EXCEPT ![current] = @ \cup pairs]
        /\ view' = Publish(pairs, "connecting")
        /\ \/ /\ Idle(current)
              /\ task' = [task EXCEPT ![current] = v]
              /\ tasks' = [tasks EXCEPT ![v] = [stream |-> current, at |-> "token", told |-> {}]]
           \/ ~Idle(current) /\ UNCHANGED <<task, tasks>>
    BY <1>5 DEF Enter, Needs
  <2>2. pairs \subseteq Pairs /\ \A p \in pairs : p[2] = v
    <3>1. Admitted(v) \subseteq Codes
      <4> DEFINE w == wanted[v]
      <4>1. w \in Seq(Codes) /\ Admitted(v) \subseteq {w[i] : i \in DOMAIN w}
        BY <1>3 DEF Admitted, QuoteTypes
      <4> HIDE DEF w
      <4> QED BY <4>1
    <3> QED BY <3>1 DEF Pairs
  <2>3. {p[1] : p \in pairs} = Admitted(v)
    <3> DEFINE A == Admitted(v)
    <3>1. pairs = {<<c, v>> : c \in A}
      OBVIOUS
    <3> HIDE DEF A, pairs
    <3>2. ASSUME NEW c \in A PROVE c \in {p[1] : p \in pairs}
      <4>1. <<c, v>> \in pairs /\ <<c, v>>[1] = c
        BY <3>1
      <4> QED BY <4>1
    <3>3. \A p \in pairs : p[1] \in A
      BY <3>1
    <3>4. {p[1] : p \in pairs} = A
      BY <3>2, <3>3
    <3> QED BY <3>4 DEF A
  <2> HIDE DEF pairs
  <2>4. /\ listeners' \in [Streams -> SUBSET Pairs]
        /\ listeners'[current] = listeners[current] \cup pairs
        /\ \A s \in Streams : s # current => listeners'[s] = listeners[s]
    BY <1>3, <2>1, <2>2 DEF QuoteTypes
  <2>5. view' \in [Pairs -> [frame : Frames, unread : BOOLEAN]]
    BY <1>3, <2>1, Published DEF Frames
  <2>6. \A s \in Streams : IsFiniteSet(Heard(s)') /\ Cardinality(Heard(s)') <= Limit
    <3>1. Heard(current)' = Heard(current) \cup Admitted(v)
      BY <1>1, <2>3, <2>4 DEF Heard
    <3>2. IsFiniteSet(Heard(current)) /\ Cardinality(Heard(current)) <= Limit
      BY <1>3 DEF WithinLimit
    <3>3. IsFiniteSet(Heard(current)') /\ Cardinality(Heard(current)') <= Limit
      BY <1>3, <3>1, <3>2, AdmittedFit
    <3>4. \A s \in Streams : s # current => Heard(s)' = Heard(s)
      BY <2>4 DEF Heard
    <3>5. \A s \in Streams : s = current => Heard(s)' = Heard(current)'
      BY <1>1, <2>4 DEF Heard
    <3> QED BY <1>3, <3>3, <3>4, <3>5 DEF WithinLimit
  <2>7. SignedOnOnce' /\ TasksAreHeld' /\ StreamsInTurn' /\ QuoteTypes' /\ WithinLimit'
    <3>1. \A s, r \in Streams : \A p \in listeners'[s] : p \in listeners'[r] => s = r
      <4> SUFFICES ASSUME NEW s \in Streams, NEW r \in Streams, NEW p \in listeners'[s], p \in listeners'[r]
                   PROVE  s = r
        OBVIOUS
      <4>1. CASE p \in pairs
        <5>1. \A q \in Streams : p \notin listeners[q]
          BY <1>1, <1>3, <2>2, <4>1 DEF SignedOnOnce
        <5> QED BY <2>4, <5>1
      <4>2. CASE p \notin pairs
        BY <1>3, <2>4, <4>2 DEF SignedOnOnce
      <4> QED BY <4>1, <4>2
    <3>2. \A u \in Viewers : viewer'[u].at = "out" => \A s \in Streams : \A p \in listeners'[s] : p[2] # u
      <4> SUFFICES ASSUME NEW u \in Viewers, viewer'[u].at = "out", NEW s \in Streams, NEW p \in listeners'[s]
                   PROVE  p[2] # u
        OBVIOUS
      <4>1. u # v /\ viewer[u].at = "out"
        BY <1>2
      <4>2. p \in pairs \/ p \in listeners[s]
        BY <2>4
      <4> QED BY <1>3, <2>2, <4>1, <4>2 DEF SignedOnOnce
    <3>3. tasks[v].at = "unborn" /\ ~Alive(v) /\ v # Nobody
      BY <1>1, <1>3, StreamAssumption DEF SignedOnOnce, Alive
    <3>4. CASE Idle(current)
      <4> DEFINE new == [stream |-> current, at |-> "token", told |-> {}]
      <4>1. task' = [task EXCEPT ![current] = v] /\ tasks' = [tasks EXCEPT ![v] = new]
        BY <2>1, <3>4
      <4>2. task[current] = Nobody
        BY <1>3, <3>4 DEF Idle, TasksAreHeld, Alive
      <4>3. new \in TaskRecord /\ new.stream = current /\ new.at = "token" /\ new.told = {}
        BY <1>3, StreamAssumption DEF TaskRecord, Living, QuoteTypes
      <4> HIDE DEF new
      <4>4. /\ task' \in [Streams -> Viewers \cup {Nobody}] /\ task'[current] = v
            /\ \A s \in Streams : s # current => task'[s] = task[s]
            /\ tasks' \in [Viewers -> TaskRecord] /\ tasks'[v] = new
            /\ \A u \in Viewers : u # v => tasks'[u] = tasks[u]
        BY <1>3, <4>1, <4>3 DEF QuoteTypes
      <4>5. TasksAreHeld'
        <5>1. ASSUME NEW s \in Streams, task'[s] # Nobody
              PROVE  tasks'[task'[s]].stream = s /\ tasks'[task'[s]].at \in Living
          <6>1. CASE s = current
            BY <4>3, <4>4, <6>1 DEF Living
          <6>2. CASE s # current
            <7>1. task'[s] = task[s] /\ task[s] \in Viewers /\ Alive(task[s]) /\ tasks[task[s]].stream = s
              BY <1>3, <4>4, <5>1, <6>2 DEF QuoteTypes, TasksAreHeld
            <7>2. task[s] # v
              BY <3>3, <7>1
            <7> QED BY <4>4, <7>1, <7>2 DEF Alive, Living
          <6> QED BY <6>1, <6>2
        <5>2. ASSUME NEW u \in Viewers, tasks'[u].at \in Living
              PROVE  tasks'[u].stream \in Streams /\ task'[tasks'[u].stream] = u
          <6>1. CASE u = v
            BY <1>3, <4>3, <4>4, <6>1
          <6>2. CASE u # v
            <7>1. tasks'[u] = tasks[u] /\ tasks[u].stream \in Streams /\ task[tasks[u].stream] = u
              BY <1>3, <4>4, <5>2, <6>2 DEF TasksAreHeld, Alive, Living
            <7>2. tasks[u].stream # current
              BY <4>2, <7>1, StreamAssumption
            <7> QED BY <4>4, <7>1, <7>2
          <6> QED BY <6>1, <6>2
        <5> QED BY <5>1, <5>2 DEF TasksAreHeld, Alive, Living
      <4>6. SignedOnOnce'
        BY <1>2, <1>3, <3>1, <3>2, <4>4 DEF SignedOnOnce
      <4>7. StreamsInTurn'
        <5>1. \A s \in Streams : s > current => s # current
          BY <1>3, StreamAssumption
        <5> QED BY <1>1, <1>3, <2>4, <3>3, <4>4, <5>1 DEF StreamsInTurn
      <4>8. QuoteTypes'
        BY <1>1, <1>2, <1>3, <2>4, <2>5, <4>4 DEF QuoteTypes
      <4>9. \A u \in Viewers : IsFiniteSet(tasks'[u].told) /\ Cardinality(tasks'[u].told) <= Limit
        <5>1. IsFiniteSet({}) /\ Cardinality({}) <= Limit
          BY FS_EmptySet, StreamAssumption
        <5> QED BY <1>3, <4>3, <4>4, <5>1 DEF WithinLimit
      <4> QED BY <2>6, <4>5, <4>6, <4>7, <4>8, <4>9 DEF WithinLimit
    <3>5. CASE ~Idle(current)
      <4>1. UNCHANGED <<task, tasks>> /\ task[current] # Nobody
        BY <2>1, <3>5 DEF Idle
      <4>2. TasksAreHeld'
        BY <1>3, <4>1 DEF TasksAreHeld, Alive
      <4>3. SignedOnOnce'
        BY <1>2, <1>3, <3>1, <3>2, <4>1 DEF SignedOnOnce
      <4>4. StreamsInTurn'
        <5>1. \A s \in Streams : s > current => s # current
          BY <1>3, StreamAssumption
        <5> QED BY <1>1, <1>3, <2>4, <4>1, <5>1 DEF StreamsInTurn
      <4>5. QuoteTypes'
        BY <1>1, <1>2, <1>3, <2>4, <2>5, <4>1 DEF QuoteTypes
      <4> QED BY <1>3, <2>6, <4>1, <4>2, <4>3, <4>4, <4>5 DEF WithinLimit
    <3> QED BY <3>4, <3>5
  <2> QED BY <2>7 DEF Registers
<1> QED BY <1>4, <1>5

\* A viewer that signs off takes the task with it when it is the last one.
LEMMA LeaveRegisters ==
  ASSUME Registers, NEW v \in Viewers, Leave(v)
  PROVE  Registers'
<1> DEFINE left == {p \in listeners[current] : p[2] # v}
<1>1. /\ UNCHANGED <<wanted, current, change, token, troubles>>
      /\ viewer[v].at \in {"watching", "rejected"}
      /\ listeners' = [listeners EXCEPT ![current] = left]
      /\ view' = [p \in Pairs |-> IF p[2] = v THEN Blank ELSE view[p]]
      /\ \/ /\ left = {} /\ task[current] # Nobody
            /\ viewer' = [viewer EXCEPT ![v] = [at |-> "closing", task |-> task[current]]]
            /\ task' = [task EXCEPT ![current] = Nobody]
            /\ tasks' = Cancelled(task[current])
         \/ /\ ~(left = {} /\ task[current] # Nobody)
            /\ viewer' = [viewer EXCEPT ![v].at = "gone"]
            /\ UNCHANGED <<task, tasks>>
  BY DEF Leave
<1>2. QuoteTypes /\ TasksAreHeld /\ SignedOnOnce /\ StreamsInTurn /\ WithinLimit /\ current \in Streams
  BY DEF Registers, QuoteTypes
<1>3. /\ listeners' \in [Streams -> SUBSET Pairs] /\ listeners'[current] = left
      /\ left \subseteq listeners[current]
      /\ \A s \in Streams : s # current => listeners'[s] = listeners[s]
  BY <1>1, <1>2 DEF QuoteTypes
<1>4. /\ viewer' \in [Viewers -> [at : {"out", "watching", "rejected", "closing", "gone"},
                                  task : Viewers \cup {Nobody}]]
      /\ \A u \in Viewers : viewer'[u].at = "out" => u # v /\ viewer[u].at = "out"
  <2>1. task[current] \in Viewers \cup {Nobody}
        /\ viewer \in [Viewers -> [at : {"out", "watching", "rejected", "closing", "gone"},
                                   task : Viewers \cup {Nobody}]]
    BY <1>2 DEF QuoteTypes
  <2>2. CASE viewer' = [viewer EXCEPT ![v] = [at |-> "closing", task |-> task[current]]]
    BY <2>1, <2>2
  <2>3. CASE viewer' = [viewer EXCEPT ![v].at = "gone"]
    BY <2>1, <2>3
  <2> HIDE DEF left
  <2> QED BY <1>1, <2>2, <2>3
<1>5. view' \in [Pairs -> [frame : Frames, unread : BOOLEAN]]
  <2>1. Blank \in [frame : Frames, unread : BOOLEAN]
    BY DEF Blank, Frames
  <2>2. view \in [Pairs -> [frame : Frames, unread : BOOLEAN]]
    BY <1>2 DEF QuoteTypes
  <2> QED BY <1>1, <2>1, <2>2
<1>6. \A s \in Streams : IsFiniteSet(Heard(s)') /\ Cardinality(Heard(s)') <= Limit
  <2> TAKE s \in Streams
  <2>1. Heard(s)' \subseteq Heard(s)
    BY <1>3 DEF Heard
  <2>2. IsFiniteSet(Heard(s)) /\ Cardinality(Heard(s)) <= Limit
    BY <1>2 DEF WithinLimit
  <2>3. IsFiniteSet(Heard(s)') /\ Cardinality(Heard(s)') <= Cardinality(Heard(s))
    BY <2>1, <2>2, FS_Subset
  <2>4. Cardinality(Heard(s)') \in Nat /\ Cardinality(Heard(s)) \in Nat
    BY <2>2, <2>3, FS_CardinalityType
  <2> QED BY <2>2, <2>3, <2>4, StreamAssumption
<1>7. /\ \A s, r \in Streams : \A p \in listeners'[s] : p \in listeners'[r] => s = r
      /\ \A u \in Viewers : viewer'[u].at = "out" => \A s \in Streams : \A p \in listeners'[s] : p[2] # u
  <2>1. \A s \in Streams : listeners'[s] \subseteq listeners[s]
    BY <1>3
  <2> HIDE DEF left
  <2> QED BY <1>2, <1>4, <2>1 DEF SignedOnOnce
<1>8. \A s \in Streams : s > current => s # current
  BY <1>2, StreamAssumption
<1>9. CASE left = {} /\ task[current] # Nobody
  <2>0. PICK t \in Viewers : t = task[current]
    BY <1>2, <1>9 DEF QuoteTypes
  <2>1. t \in Viewers /\ tasks[t].stream = current /\ Alive(t)
    BY <1>2, <1>9, <2>0 DEF TasksAreHeld
  <2>2. tasks' = Cancelled(t)
    BY <1>1, <1>9, <2>0
  <2>3. /\ tasks' \in [Viewers -> TaskRecord]
        /\ tasks'[t].at \notin Living /\ \A u \in Viewers : u # t => tasks'[u] = tasks[u]
        /\ \A u \in Viewers : IsFiniteSet(tasks'[u].told) /\ Cardinality(tasks'[u].told) <= Limit
    <3>1. Silenced(t)
      BY <1>2, <2>1, <2>2, TaskCancelled
    <3> QED BY <3>1 DEF Silenced
  <2>4. task' \in [Streams -> Viewers \cup {Nobody}] /\ task'[current] = Nobody
        /\ \A s \in Streams : s # current => task'[s] = task[s]
    BY <1>1, <1>2, <1>9 DEF QuoteTypes
  <2>5. TasksAreHeld'
    <3>1. ASSUME NEW s \in Streams, task'[s] # Nobody
          PROVE  tasks'[task'[s]].stream = s /\ tasks'[task'[s]].at \in Living
      <4>1. s # current /\ task'[s] = task[s] /\ task[s] \in Viewers /\ Alive(task[s]) /\ tasks[task[s]].stream = s
        BY <1>2, <2>4, <3>1 DEF QuoteTypes, TasksAreHeld
      <4>2. task[s] # t
        BY <2>1, <4>1
      <4> QED BY <2>3, <4>1, <4>2 DEF Alive, Living
    <3>2. ASSUME NEW u \in Viewers, tasks'[u].at \in Living
          PROVE  tasks'[u].stream \in Streams /\ task'[tasks'[u].stream] = u
      <4>0. u # t
        BY <2>3, <3>2
      <4>1. u # t /\ tasks'[u] = tasks[u]
        BY <2>3, <4>0
      <4>2. tasks[u].stream \in Streams /\ task[tasks[u].stream] = u
        BY <1>2, <3>2, <4>1 DEF TasksAreHeld, Alive, Living
      <4>3. tasks[u].stream # current
        BY <2>0, <4>1, <4>2
      <4> QED BY <2>4, <4>1, <4>2, <4>3
    <3> QED BY <3>1, <3>2 DEF TasksAreHeld, Alive, Living
  <2>6. SignedOnOnce'
    <3>1. \A u \in Viewers : viewer[u].at = "out" => u # t
      BY <1>2, <2>1 DEF SignedOnOnce, Alive
    <3> QED BY <1>2, <1>4, <1>7, <2>3, <3>1 DEF SignedOnOnce
  <2>7. StreamsInTurn'
    BY <1>1, <1>2, <1>3, <1>8, <1>9, <2>4 DEF StreamsInTurn
  <2>8. QuoteTypes'
    BY <1>1, <1>2, <1>3, <1>4, <1>5, <2>3, <2>4 DEF QuoteTypes
  <2> QED BY <1>6, <2>3, <2>5, <2>6, <2>7, <2>8 DEF Registers, WithinLimit
<1>10. CASE ~(left = {} /\ task[current] # Nobody)
  <2>1. UNCHANGED <<task, tasks>>
    BY <1>1, <1>10
  <2>2. TasksAreHeld'
    BY <1>2, <2>1 DEF TasksAreHeld, Alive
  <2>3. SignedOnOnce'
    BY <1>2, <1>4, <1>7, <2>1 DEF SignedOnOnce
  <2>4. StreamsInTurn'
    BY <1>1, <1>2, <1>3, <1>8, <1>10, <2>1 DEF StreamsInTurn
  <2>5. QuoteTypes'
    BY <1>1, <1>2, <1>3, <1>4, <1>5, <2>1 DEF QuoteTypes
  <2> QED BY <1>2, <1>6, <2>1, <2>2, <2>3, <2>4, <2>5 DEF Registers, WithinLimit
<1> QED BY <1>9, <1>10

\* The task a viewer waited for has ended.
LEMMA LeftRegisters ==
  ASSUME Registers, NEW v \in Viewers, Left(v)
  PROVE  Registers'
<1>1. /\ viewer' = [viewer EXCEPT ![v] = [at |-> "gone", task |-> Nobody]]
      /\ UNCHANGED <<wanted, current, listeners, task, tasks, view, change>>
  BY DEF Left
<1>2. /\ viewer' \in [Viewers -> [at : {"out", "watching", "rejected", "closing", "gone"},
                                  task : Viewers \cup {Nobody}]]
      /\ \A u \in Viewers : viewer'[u].at = "out" => viewer[u].at = "out"
  BY <1>1 DEF Registers, QuoteTypes
<1>3. QuoteTypes'
  BY <1>1, <1>2 DEF Registers, QuoteTypes
<1>4. TasksAreHeld' /\ StreamsInTurn' /\ WithinLimit'
  BY <1>1 DEF Registers, TasksAreHeld, StreamsInTurn, WithinLimit, Alive, Heard
<1>5. SignedOnOnce'
  BY <1>1, <1>2 DEF Registers, SignedOnOnce
<1> QED BY <1>3, <1>4, <1>5 DEF Registers

\* A task that was cancelled ends; nobody holds it.
LEMMA EndRegisters ==
  ASSUME Registers, NEW t \in Viewers, End(t)
  PROVE  Registers'
<1>1. /\ tasks[t].at = "closing" /\ tasks' = [tasks EXCEPT ![t].at = "ended"]
      /\ UNCHANGED <<wanted, current, listeners, task, viewer, view, change>>
  BY DEF End, At
<1>2. tasks' \in [Viewers -> TaskRecord] /\ tasks'[t].at = "ended" /\ tasks'[t].told = tasks[t].told
      /\ \A u \in Viewers : u # t => tasks'[u] = tasks[u]
  BY <1>1 DEF Registers, QuoteTypes, TaskRecord
<1>3. QuoteTypes'
  BY <1>1, <1>2 DEF Registers, QuoteTypes
<1>4. TasksAreHeld'
  <2>1. \A u \in Viewers : Alive(u)' => u # t /\ Alive(u)
    BY <1>2 DEF Alive
  <2>2. \A s \in Streams : task[s] # Nobody => task[s] # t /\ task[s] \in Viewers
    <3> TAKE s \in Streams
    <3>1. task[s] \in Viewers \cup {Nobody}
      BY DEF Registers, QuoteTypes
    <3>2. task[s] # Nobody => tasks[task[s]].at # "closing"
      BY DEF Registers, TasksAreHeld, Alive
    <3> QED BY <1>1, <3>1, <3>2
  <2> QED BY <1>1, <1>2, <2>1, <2>2 DEF Registers, TasksAreHeld, Alive
<1>5. SignedOnOnce'
  BY <1>1, <1>2 DEF Registers, SignedOnOnce
<1>6. StreamsInTurn' /\ WithinLimit'
  BY <1>1, <1>2 DEF Registers, StreamsInTurn, WithinLimit, Heard
<1> QED BY <1>3, <1>4, <1>5, <1>6 DEF Registers

\* A connection change takes the task from the stream, and the viewers stay.
LEMMA CloseRegisters == ASSUME Registers, CloseStream PROVE Registers'
<1>1. /\ change.at = "none" /\ current + 1 \in Streams /\ task[current] # Nobody
      /\ change'.at = "closing"
      /\ task' = [task EXCEPT ![current] = Nobody]
      /\ UNCHANGED <<wanted, current, listeners, viewer, view>>
  BY DEF CloseStream
<1>2. QuoteTypes /\ TasksAreHeld /\ SignedOnOnce /\ StreamsInTurn /\ WithinLimit /\ current \in Streams
  BY DEF Registers, QuoteTypes
<1>3. PICK t \in Viewers : t = task[current]
  BY <1>1, <1>2 DEF QuoteTypes
<1>4. Alive(t) /\ tasks[t].stream = current
  BY <1>1, <1>2, <1>3 DEF TasksAreHeld
<1>5. tasks' = Cancelled(t)
  BY <1>3 DEF CloseStream
<1>6. /\ tasks' \in [Viewers -> TaskRecord]
      /\ tasks'[t].at \notin Living /\ \A u \in Viewers : u # t => tasks'[u] = tasks[u]
      /\ \A u \in Viewers : IsFiniteSet(tasks'[u].told) /\ Cardinality(tasks'[u].told) <= Limit
  <2>1. Silenced(t)
    BY <1>2, <1>5, TaskCancelled
  <2> QED BY <2>1 DEF Silenced
<1>7. task' \in [Streams -> Viewers \cup {Nobody}] /\ task'[current] = Nobody
      /\ \A s \in Streams : s # current => task'[s] = task[s]
  BY <1>1, <1>2 DEF QuoteTypes
<1>8. TasksAreHeld'
  <2>1. ASSUME NEW s \in Streams, task'[s] # Nobody
        PROVE  tasks'[task'[s]].stream = s /\ tasks'[task'[s]].at \in Living
    <3>1. s # current /\ task'[s] = task[s] /\ task[s] \in Viewers /\ Alive(task[s]) /\ tasks[task[s]].stream = s
      BY <1>2, <1>7, <2>1 DEF QuoteTypes, TasksAreHeld
    <3>2. task[s] # t
      BY <1>4, <3>1
    <3> QED BY <1>6, <3>1, <3>2 DEF Alive, Living
  <2>2. ASSUME NEW u \in Viewers, tasks'[u].at \in Living
        PROVE  tasks'[u].stream \in Streams /\ task'[tasks'[u].stream] = u
    <3>1. u # t
      BY <1>6, <2>2
    <3>2. tasks'[u] = tasks[u]
      BY <1>6, <3>1
    <3>3. tasks[u].stream \in Streams /\ task[tasks[u].stream] = u
      BY <1>2, <2>2, <3>2 DEF TasksAreHeld, Alive, Living
    <3>4. tasks[u].stream # current
      BY <1>3, <3>1, <3>3
    <3> QED BY <1>7, <3>2, <3>3, <3>4
  <2> QED BY <2>1, <2>2 DEF TasksAreHeld, Alive, Living
<1>9. SignedOnOnce'
  <2>1. \A u \in Viewers : viewer[u].at = "out" => u # t
    BY <1>2, <1>4 DEF SignedOnOnce, Alive
  <2> QED BY <1>1, <1>2, <1>6, <2>1 DEF SignedOnOnce
<1>10. StreamsInTurn'
  <2>1. \A s \in Streams : s > current => s # current
    BY <1>2, StreamAssumption
  <2> QED BY <1>1, <1>2, <1>7, <2>1 DEF StreamsInTurn
<1>11. QuoteTypes'
  BY <1>1, <1>2, <1>6, <1>7 DEF QuoteTypes
<1>12. WithinLimit'
  BY <1>1, <1>2, <1>6 DEF WithinLimit, Heard
<1> QED BY <1>8, <1>9, <1>10, <1>11, <1>12 DEF Registers

\* The workspace goes on to a stream nobody has signed on to.
LEMMA ReplaceRegisters ==
  ASSUME Registers, Replace
  PROVE  Registers' /\ listeners'[current'] = {}
<1>1. /\ current' = current + 1 /\ change'.at = "none"
      /\ UNCHANGED <<wanted, listeners, task, tasks, viewer, view>>
  BY DEF Replace
<1>2. QuoteTypes /\ TasksAreHeld /\ SignedOnOnce /\ StreamsInTurn /\ WithinLimit /\ current \in Streams
  BY DEF Registers, QuoteTypes
<1>3. current + 1 \in Streams
  BY <1>2 DEF Replace, StreamsInTurn
<1>4. current + 1 > current /\ \A s \in Streams : s > current + 1 => s > current
  BY <1>2, StreamAssumption
<1>5. listeners[current + 1] = {}
  BY <1>2, <1>3, <1>4 DEF StreamsInTurn
<1>6. StreamsInTurn'
  BY <1>1, <1>2, <1>4, <1>5 DEF StreamsInTurn
<1>7. QuoteTypes'
  BY <1>1, <1>2, <1>3 DEF QuoteTypes
<1>8. TasksAreHeld' /\ SignedOnOnce' /\ WithinLimit'
  BY <1>1, <1>2 DEF TasksAreHeld, SignedOnOnce, WithinLimit, Alive, Heard
<1> QED BY <1>1, <1>5, <1>6, <1>7, <1>8 DEF Registers

-----------------------------------------------------------------------------
(* What viewers see                                                         *)

\* A pair that is not told the truth is one whose stream has no socket.
LEMMA EnterIsHonest ==
  ASSUME QuoteInvariant, NEW v \in Viewers, Enter(v)
  PROVE  ViewsAreHonest'
<1> DEFINE pairs == {<<c, v>> : c \in Admitted(v)}
<1>1. UNCHANGED <<current, change>> /\ current \in Streams /\ QuoteTypes /\ TasksAreHeld
      /\ StreamsInTurn /\ SignedOnOnce /\ ViewsAreHonest /\ viewer[v].at = "out"
  BY DEF Enter, QuoteInvariant, Registers, QuoteTypes
<1>2. CASE pairs = {}
  <2>1. UNCHANGED <<listeners, changed, task, tasks, view>>
    BY <1>2 DEF Enter
  <2> QED BY <1>1, <2>1 DEF ViewsAreHonest
<1>3. CASE pairs # {}
  <2>1. /\ listeners' = [listeners EXCEPT ![current] = @ \cup pairs]
        /\ view' = Publish(pairs, "connecting")
        /\ Idle(current) \/ UNCHANGED <<task, tasks>>
    BY <1>3 DEF Enter, Needs
  <2>2. Registers'
    BY EnterRegisters DEF QuoteInvariant
  <2> HIDE DEF pairs
  <2>3. listeners'[current] = listeners[current] \cup pairs
    BY <1>1, <2>1 DEF QuoteTypes
  <2>4. \A p \in Pairs : view'[p].frame = IF p \in pairs THEN "connecting" ELSE view[p].frame
    BY <1>1, <2>1, Published DEF Frames
  <2>5. listeners'[current] \subseteq Pairs
    BY <1>1, <2>2 DEF Registers, QuoteTypes
  <2>6. CASE Idle(current)
    <3>1. change.at = "none" => listeners[current] = {}
      BY <1>1, <2>6 DEF Idle, TasksAreHeld, Alive, StreamsInTurn
    <3> QED BY <1>1, <2>3, <2>4, <2>5, <3>1 DEF ViewsAreHonest
  <2>7. CASE UNCHANGED <<task, tasks>>
    BY <1>1, <2>3, <2>4, <2>5, <2>7 DEF ViewsAreHonest
  <2> QED BY <2>1, <2>6, <2>7
<1> QED BY <1>2, <1>3

\* Who stays is told what it was told before.
LEMMA LeaveIsHonest ==
  ASSUME QuoteInvariant, NEW v \in Viewers, Leave(v)
  PROVE  ViewsAreHonest'
<1> DEFINE left == {p \in listeners[current] : p[2] # v}
<1>1. /\ UNCHANGED <<current, change>> /\ listeners' = [listeners EXCEPT ![current] = left]
      /\ view' = [p \in Pairs |-> IF p[2] = v THEN Blank ELSE view[p]]
      /\ task'[current] = Nobody \/ UNCHANGED <<task, tasks>>
  BY DEF Leave, QuoteInvariant, Registers, QuoteTypes
<1>2. current \in Streams /\ listeners[current] \subseteq Pairs /\ listeners'[current] = left /\ ViewsAreHonest
  BY <1>1 DEF QuoteInvariant, Registers, QuoteTypes
<1>3. \A p \in left : p \in listeners[current] /\ view'[p] = view[p]
  BY <1>1, <1>2
<1> HIDE DEF left
<1> QED BY <1>1, <1>2, <1>3 DEF ViewsAreHonest

\* What a socket brings goes to the viewers of its stream only.
LEMMA HearIsHonest ==
  ASSUME QuoteInvariant, NEW t \in Viewers, Hear(t)
  PROVE  ViewsAreHonest'
<1>1. tasks[t].at = "listen" /\ UNCHANGED <<current, listeners, task, tasks, change>>
  BY DEF Hear
<1>2. PICK c \in tasks[t].told : view' = Publish({p \in listeners[Of(t)] : p[1] = c}, "answer")
  BY DEF Hear
<1>3. QuoteTypes /\ current \in Streams /\ listeners[current] \subseteq Pairs /\ ViewsAreHonest
  BY DEF QuoteInvariant, Registers, QuoteTypes
<1>4. Of(t) \in Streams /\ task[Of(t)] = t
  BY <1>1 DEF QuoteInvariant, Registers, TasksAreHeld, Alive, Of
<1>5. CASE Of(t) = current
  BY <1>1, <1>4, <1>5 DEF ViewsAreHonest
<1>6. CASE Of(t) # current
  <2>1. \A p \in listeners[current] : p \notin listeners[Of(t)]
    BY <1>3, <1>4, <1>6 DEF QuoteInvariant, Registers, SignedOnOnce
  <2>2. \A p \in listeners[current] : view'[p].frame = view[p].frame
    <3> DEFINE heard == {p \in listeners[Of(t)] : p[1] = c}
    <3>1. view' = Publish(heard, "answer")
      BY <1>2
    <3>2. \A p \in listeners[current] : p \notin heard
      BY <2>1
    <3> HIDE DEF heard
    <3> QED BY <1>3, <3>1, <3>2, Published DEF Frames
  <2> QED BY <1>1, <1>3, <2>2 DEF ViewsAreHonest
<1> QED BY <1>5, <1>6

\* When a socket falls, every viewer of its stream is told.
LEMMA FallIsHonest ==
  ASSUME QuoteInvariant, NEW t \in Viewers, Alive(t), Fall(t)
  PROVE  Registers' /\ ViewsAreHonest'
<1>1. /\ view' = Publish(listeners[Of(t)], "reconnecting")
      /\ tasks' = [tasks EXCEPT ![t] = [@ EXCEPT !.at = "backoff", !.told = {}]]
      /\ UNCHANGED <<wanted, current, listeners, task, viewer, change>>
  BY DEF Fall
<1>2. Registers /\ QuoteTypes /\ current \in Streams /\ listeners[current] \subseteq Pairs /\ ViewsAreHonest
  BY DEF QuoteInvariant, Registers, QuoteTypes
<1>3. /\ view' \in [Pairs -> [frame : Frames, unread : BOOLEAN]]
      /\ \A p \in Pairs : view'[p].frame = IF p \in listeners[Of(t)] THEN "reconnecting" ELSE view[p].frame
  BY <1>1, <1>2, Published DEF Frames
<1> DEFINE r == [tasks[t] EXCEPT !.at = "backoff", !.told = {}]
<1>4. tasks' = [tasks EXCEPT ![t] = r]
  BY <1>1
<1>5. r \in TaskRecord /\ r.at = "backoff" /\ r.stream = tasks[t].stream /\ r.told = {}
  <2>1. tasks[t] \in TaskRecord
    BY <1>2 DEF QuoteTypes
  <2> QED BY <2>1 DEF TaskRecord, Living
<1> HIDE DEF r
<1>6. Registers'
  <2>1. r.at \in Living /\ IsFiniteSet(r.told) /\ Cardinality(r.told) <= Limit
    BY <1>5, FS_EmptySet, StreamAssumption DEF Living
  <2> QED BY <1>1, <1>2, <1>3, <1>4, <1>5, <2>1, TaskGoesOn
<1>7. Of(t) \in Streams /\ task[Of(t)] = t
  BY <1>2 DEF Registers, TasksAreHeld, Of
<1>8. ViewsAreHonest'
  <2>1. CASE task[current] = t
    <3>1. Of(t) = current
      BY <1>2, <1>7, <2>1, StreamAssumption DEF Registers, TasksAreHeld, Of
    <3> QED BY <1>1, <1>2, <1>3, <3>1 DEF ViewsAreHonest
  <2>2. CASE task[current] # t
    <3>1. task[current] # Nobody => tasks'[task[current]] = tasks[task[current]]
      BY <1>2, <1>4, <2>2 DEF QuoteTypes
    <3> QED BY <1>1, <1>2, <1>3, <3>1 DEF ViewsAreHonest
  <2> QED BY <2>1, <2>2
<1> QED BY <1>6, <1>8

\* A step of a task that shows its viewers nothing: honest as long as the task
\* that was without a socket is the one that is.
LEMMA SilentTaskStep ==
  ASSUME QuoteInvariant, NEW t \in Viewers, Alive(t),
         UNCHANGED <<wanted, current, listeners, task, viewer, view, change>>,
         NEW place \in Living, NEW told \in SUBSET Codes, IsFiniteSet(told), Cardinality(told) <= Limit,
         tasks' = [tasks EXCEPT ![t] = [@ EXCEPT !.at = place, !.told = told]],
         place = "listen" \/ tasks[t].at # "listen"
  PROVE  QuoteInvariant'
<1> DEFINE r == [tasks[t] EXCEPT !.at = place, !.told = told]
<1>1. Registers /\ QuoteTypes /\ ViewsAreHonest /\ current \in Streams
  BY DEF QuoteInvariant, Registers, QuoteTypes
<1>2. tasks' = [tasks EXCEPT ![t] = r]
  OBVIOUS
<1>3. r \in TaskRecord /\ r.at = place /\ r.stream = tasks[t].stream /\ r.told = told
  <2>1. tasks[t] \in TaskRecord
    BY <1>1 DEF QuoteTypes
  <2> QED BY <2>1 DEF TaskRecord
<1> HIDE DEF r
<1>4. view' \in [Pairs -> [frame : Frames, unread : BOOLEAN]]
  BY <1>1 DEF QuoteTypes
<1>5. Registers'
  BY <1>1, <1>2, <1>3, <1>4, TaskGoesOn
<1>6. tasks'[t].at = place /\ \A u \in Viewers : u # t => tasks'[u] = tasks[u]
  BY <1>1, <1>2, <1>3 DEF QuoteTypes
<1>7. task[current] \in Viewers \cup {Nobody}
  BY <1>1 DEF QuoteTypes
<1>8. ViewsAreHonest'
  BY <1>1, <1>6, <1>7 DEF ViewsAreHonest
<1> QED BY <1>5, <1>8 DEF QuoteInvariant

\* Streams, tasks and viewers keep in step.
LEMMA QuoteStep == QuoteInvariant /\ [QuoteNext]_quoteVars => QuoteInvariant'
<1> SUFFICES ASSUME QuoteInvariant, [QuoteNext]_quoteVars PROVE QuoteInvariant'
  OBVIOUS
<1>0. /\ Registers /\ QuoteTypes /\ WithinLimit /\ ViewsAreHonest /\ current \in Streams
      /\ tasks \in [Viewers -> TaskRecord] /\ listeners[current] \subseteq Pairs
      /\ view \in [Pairs -> [frame : Frames, unread : BOOLEAN]]
  BY DEF QuoteInvariant, Registers, QuoteTypes
<1>1. ASSUME UNCHANGED <<wanted, current, listeners, task, tasks, viewer, view, change>> PROVE QuoteInvariant'
  <2>1. Registers'
    BY <1>0, <1>1, ViewsChange
  <2>2. ViewsAreHonest'
    BY <1>0, <1>1 DEF ViewsAreHonest
  <2> QED BY <2>1, <2>2 DEF QuoteInvariant
<1>2. ASSUME NEW v \in Viewers, Enter(v) PROVE QuoteInvariant'
  BY <1>0, <1>2, EnterRegisters, EnterIsHonest DEF QuoteInvariant
<1>3. ASSUME NEW v \in Viewers, Leave(v) PROVE QuoteInvariant'
  BY <1>0, <1>3, LeaveRegisters, LeaveIsHonest DEF QuoteInvariant
<1>4. ASSUME NEW v \in Viewers, Left(v) PROVE QuoteInvariant'
  <2>1. UNCHANGED <<current, listeners, task, tasks, view, change>>
    BY <1>4 DEF Left
  <2>2. ViewsAreHonest'
    BY <1>0, <2>1 DEF ViewsAreHonest
  <2> QED BY <1>0, <1>4, <2>2, LeftRegisters DEF QuoteInvariant
<1>5. ASSUME NEW p \in Pairs, Take(p) PROVE QuoteInvariant'
  <2>1. UNCHANGED <<wanted, current, listeners, task, tasks, viewer, change>>
        /\ view' = [view EXCEPT ![p].unread = FALSE]
    BY <1>5 DEF Take
  <2>2. view' \in [Pairs -> [frame : Frames, unread : BOOLEAN]] /\ \A q \in Pairs : view'[q].frame = view[q].frame
    BY <1>0, <2>1
  <2>3. ViewsAreHonest'
    BY <1>0, <2>1, <2>2 DEF ViewsAreHonest
  <2> QED BY <1>0, <2>1, <2>2, <2>3, ViewsChange DEF QuoteInvariant
<1>6. ASSUME NEW t \in Viewers, TaskStep(t) \/ Hear(t) \/ Trouble(t) PROVE QuoteInvariant'
  <2>0. tasks[t] \in TaskRecord /\ tasks[t] = [tasks[t] EXCEPT !.told = tasks[t].told]
        /\ IsFiniteSet(tasks[t].told) /\ Cardinality(tasks[t].told) <= Limit /\ tasks[t].told \in SUBSET Codes
    BY <1>0 DEF WithinLimit, TaskRecord
  <2>1. ASSUME NEW place \in Living, At(t, place), Alive(t), place = "listen" \/ tasks[t].at # "listen",
               UNCHANGED <<wanted, current, listeners, task, viewer, view, change>>
        PROVE  QuoteInvariant'
    <3> DEFINE told == tasks[t].told
    <3>1. [tasks[t] EXCEPT !.at = place] = [tasks[t] EXCEPT !.at = place, !.told = told]
      BY <2>0 DEF TaskRecord
    <3>2. tasks' = [tasks EXCEPT ![t] = [@ EXCEPT !.at = place, !.told = told]]
      BY <2>1, <3>1 DEF At
    <3> HIDE DEF told
    <3>3. told \in SUBSET Codes /\ IsFiniteSet(told) /\ Cardinality(told) <= Limit
      BY <2>0 DEF told
    <3> QED BY <2>1, <3>2, <3>3, SilentTaskStep
  <2>2. CASE GetToken(t)
    BY <2>1, <2>2 DEF GetToken, Alive, Living
  <2>3. CASE Connect(t)
    <3>1. Alive(t) /\ IsFiniteSet({}) /\ Cardinality({}) <= Limit
      BY <2>3, FS_EmptySet, StreamAssumption DEF Connect, Alive
    <3>2. UNCHANGED <<wanted, current, listeners, task, viewer, view, change>>
          /\ tasks' = [tasks EXCEPT ![t] = [@ EXCEPT !.at = "listen", !.told = {}]]
      BY <2>3 DEF Connect
    <3> QED BY <3>1, <3>2, SilentTaskStep DEF Living
  <2>4. CASE Tell(t)
    <3>1. tasks[t].at = "listen" /\ Alive(t) /\ UNCHANGED <<wanted, current, listeners, task, viewer, view, change>>
          /\ tasks' = [tasks EXCEPT ![t].told = Heard(Of(t))]
      BY <2>4 DEF Tell, Alive
    <3> DEFINE told == Heard(Of(t))
    <3>2. Of(t) \in Streams
      BY <1>0, <3>1 DEF Registers, TasksAreHeld, Of
    <3>3. told \in SUBSET Codes /\ IsFiniteSet(told) /\ Cardinality(told) <= Limit
      <4>1. listeners[Of(t)] \subseteq Pairs
        BY <1>0, <3>2 DEF QuoteTypes
      <4> QED BY <1>0, <3>2, <4>1 DEF WithinLimit, Heard, Pairs
    <3> HIDE DEF told
    <3>4. [tasks[t] EXCEPT !.told = told] = [tasks[t] EXCEPT !.at = "listen", !.told = told]
      BY <2>0, <3>1 DEF TaskRecord
    <3>5. tasks' = [tasks EXCEPT ![t] = [@ EXCEPT !.at = "listen", !.told = told]]
      BY <3>1, <3>4 DEF told
    <3> QED BY <3>1, <3>3, <3>5, SilentTaskStep DEF Living
  <2>5. CASE Refused(t)
    BY <2>5, FallIsHonest DEF Refused, Alive, QuoteInvariant
  <2>6. CASE Retry(t)
    BY <2>1, <2>6 DEF Retry, Alive, Living
  <2>7. CASE End(t)
    <3>1. Registers'
      BY <1>0, <2>7, EndRegisters
    <3>2. tasks[t].at = "closing" /\ tasks' = [tasks EXCEPT ![t].at = "ended"]
          /\ UNCHANGED <<current, listeners, task, view, change>>
      BY <2>7 DEF End, At
    <3>3. task[current] # Nobody => task[current] \in Viewers /\ task[current] # t
      <4>1. task[current] \in Viewers \cup {Nobody}
        BY <1>0 DEF QuoteTypes
      <4>2. task[current] # Nobody => tasks[task[current]].at # "closing"
        BY <1>0 DEF Registers, TasksAreHeld, Alive
      <4> QED BY <3>2, <4>1, <4>2
    <3>4. task[current] # Nobody => tasks'[task[current]] = tasks[task[current]]
      BY <1>0, <3>2, <3>3
    <3>5. ViewsAreHonest'
      BY <1>0, <3>2, <3>4 DEF ViewsAreHonest
    <3> QED BY <3>1, <3>5 DEF QuoteInvariant
  <2>8. CASE Hear(t)
    <3>1. tasks[t].at = "listen" /\ UNCHANGED <<wanted, current, listeners, task, tasks, viewer, change>>
      BY <2>8 DEF Hear
    <3>2. PICK c \in tasks[t].told : view' = Publish({p \in listeners[Of(t)] : p[1] = c}, "answer")
      BY <2>8 DEF Hear
    <3>3. view' \in [Pairs -> [frame : Frames, unread : BOOLEAN]]
      <4> DEFINE heard == {p \in listeners[Of(t)] : p[1] = c}
      <4>1. view' = Publish(heard, "answer")
        BY <3>2
      <4> HIDE DEF heard
      <4> QED BY <1>0, <4>1, Published DEF Frames
    <3>4. Registers'
      BY <1>0, <3>1, <3>3, ViewsChange
    <3> QED BY <2>8, <3>4, HearIsHonest DEF QuoteInvariant
  <2>9. CASE Trouble(t)
    BY <2>9, FallIsHonest DEF Trouble, Alive, QuoteInvariant
  <2> QED BY <1>6, <2>2, <2>3, <2>4, <2>5, <2>6, <2>7, <2>8, <2>9 DEF TaskStep
<1>7. ASSUME NEW s \in Streams, Revoke(s) PROVE QuoteInvariant'
  BY <1>1, <1>7 DEF Revoke
<1>8. CASE CloseStream
  <2>1. change'.at = "closing"
    BY <1>8 DEF CloseStream
  <2> QED BY <1>0, <1>8, <2>1, CloseRegisters DEF QuoteInvariant, ViewsAreHonest
<1>9. CASE Replace
  BY <1>0, <1>9, ReplaceRegisters DEF QuoteInvariant, ViewsAreHonest
<1>10. CASE UNCHANGED quoteVars
  BY <1>1, <1>10 DEF quoteVars
<1> QED BY <1>2, <1>3, <1>4, <1>5, <1>6, <1>7, <1>8, <1>9, <1>10 DEF QuoteNext

\* The first stream begins with nobody.
LEMMA QuoteStart == QuoteInit => QuoteInvariant
<1> SUFFICES ASSUME QuoteInit PROVE QuoteInvariant
  OBVIOUS
<1>1. QuoteTypes
  <2>1. Unborn \in TaskRecord /\ Blank \in [frame : Frames, unread : BOOLEAN]
    BY DEF Unborn, TaskRecord, Blank, Frames
  <2>2. wanted \in [Viewers -> Seq(Codes)] /\ current \in Streams /\ change.at = "none"
    BY StreamAssumption DEF QuoteInit
  <2> QED BY <2>1, <2>2 DEF QuoteInit, QuoteTypes
<1>2. \A s \in Streams : listeners[s] = {} /\ task[s] = Nobody
  BY DEF QuoteInit
<1>3. \A t \in Viewers : tasks[t].at = "unborn" /\ tasks[t].told = {}
  BY DEF QuoteInit, Unborn
<1>4. change.at = "none" /\ current = 1 /\ 1 \in Streams
  BY StreamAssumption DEF QuoteInit
<1>5. TasksAreHeld /\ SignedOnOnce /\ StreamsInTurn /\ ViewsAreHonest
  BY <1>2, <1>3, <1>4 DEF TasksAreHeld, SignedOnOnce, StreamsInTurn, ViewsAreHonest, Alive
<1>6. WithinLimit
  <2>1. \A s \in Streams : Heard(s) = {}
    BY <1>2 DEF Heard
  <2>2. IsFiniteSet({}) /\ Cardinality({}) <= Limit
    BY FS_EmptySet, StreamAssumption
  <2> QED BY <1>3, <2>1, <2>2 DEF WithinLimit
<1> QED BY <1>1, <1>5, <1>6 DEF QuoteInvariant, Registers

\* The invariant holds for any number of viewers, stocks and streams.
LEMMA QuotesCorrect == QuoteSpec => []QuoteInvariant
<1> QED BY QuoteStart, QuoteStep, PTL DEF QuoteSpec

\* However viewers come and go and connections fall and change: a stream has one
\* task, and asks for no more than the broker allows (quote_stream.py:24-51).
THEOREM StreamsHaveOneTask == QuoteSpec => []OneTaskPerStream
<1> QED BY QuotesCorrect, HeldTasksAreAlone, PTL

\* A viewer of a stream that is without a socket is told so (quote_stream.py:15-22,
\* 83-88): a late answer never covers the notice.
THEOREM ViewersAreToldTheTruth == QuoteSpec => []ViewsAreHonest
<1>1. QuoteInvariant => ViewsAreHonest
  BY DEF QuoteInvariant
<1> QED BY <1>1, QuotesCorrect, PTL


(***************************************************************************)
(* Cached reads (ReadCaches)                                               *)
(***************************************************************************)

FrameRecord == [read : Reads, count : Nat \ {0}, step : Nat \ {0}]
ReaderPlaces == {"idle", "test", "lock", "work", "request", "error", "exceeded", "done", "failed"}

ReadTypes ==
  /\ wish \in [Readers -> [read : Reads, count : Nat \ {0}]]
  /\ at \in [Readers -> ReaderPlaces] /\ stack \in [Readers -> Seq(FrameRecord)]
  /\ lock \in [Locked -> Readers \cup {NoReader}] /\ holds \in [Caches -> Nat]
  /\ \A r \in Readers : at[r] \in {"test", "lock", "work", "request", "error", "exceeded"} => stack[r] # << >>

\* Reads are made of reads of a lower level.
Level(read) ==
  IF read \in {"portfolio", "buying"} THEN 1
  ELSE IF read = "candidates" THEN 2
  ELSE IF read \in {"directory", "detail", "sparklines", "warm", "favorites"} THEN 3
  ELSE 0

Nested(s) == \A i, j \in 1..Len(s) : i < j => Level(s[j].read) < Level(s[i].read)

\* The frames of a reader whose locks it has: all but the innermost, and that
\* one while it works.
KeepsLock(r, i) == i < Len(stack[r]) \/ at[r] \in {"work", "request"}

Holding(r) ==
  \A i \in 1..Len(stack[r]) : KeepsLock(r, i) /\ stack[r][i].read \in Locked =>
    lock[stack[r][i].read] = r /\ ~Hit(stack[r][i])

ReadInvariant == ReadTypes /\ \A r \in Readers : Nested(stack[r]) /\ Holding(r)

-----------------------------------------------------------------------------
(* Stacks                                                                   *)

\* What stays of a stack when reads return.
Shortened(s, t, n) ==
  /\ t \in Seq(FrameRecord) /\ Len(t) = n
  /\ \A i \in 1..n : t[i].read = s[i].read /\ t[i].count = s[i].count

\* A read that ends uncovers the read around it, unchanged.
LEMMA StackPops ==
  ASSUME NEW s \in Seq(FrameRecord), s # << >>
  PROVE  Shortened(s, Pop(s), Len(s) - 1) /\ \A i \in 1..(Len(s) - 1) : Pop(s)[i] = s[i]
<1>1. Len(s) \in Nat \ {0}
  OBVIOUS
<1>2. /\ Pop(s) \in Seq(FrameRecord) /\ Len(Pop(s)) = Len(s) - 1
      /\ \A i \in 1..(Len(s) - 1) : Pop(s)[i] = s[i]
  <2>1. 1 \in 1..(Len(s) + 1) /\ Len(s) - 1 \in 0..Len(s)
    BY <1>1
  <2>2. /\ SubSeq(s, 1, Len(s) - 1) \in Seq(FrameRecord) /\ Len(SubSeq(s, 1, Len(s) - 1)) = Len(s) - 1
        /\ \A i \in 1..(Len(s) - 1) : SubSeq(s, 1, Len(s) - 1)[i] = s[i]
    <3> DEFINE m == Len(s) - 1
    <3>1. m \in Int /\ 1 \in Int /\ \A i \in 1..m : s[i] \in FrameRecord
      BY <1>1
    <3>4. m \in Nat
      BY <1>1
    <3> HIDE DEF m
    <3>2. (IF 1 <= m THEN m - 1 + 1 ELSE 0) = m /\ m - 1 + 1 = m /\ \A i \in 1..m : 1 + i - 1 = i
      BY <3>4
    <3>3. /\ SubSeq(s, 1, m) \in Seq(FrameRecord) /\ Len(SubSeq(s, 1, m)) = m
          /\ \A i \in 1..m : SubSeq(s, 1, m)[i] = s[i]
      BY <3>1, <3>2, SubSeqProperties
    <3> QED BY <3>3 DEF m
  <2> QED BY <2>2 DEF Pop
<1> QED BY <1>2 DEF Shortened

\* The next part of the innermost read is another step of the same read.
LEMMA StackAdvances ==
  ASSUME NEW s \in Seq(FrameRecord), s # << >>
  PROVE  Shortened(s, Advanced(s), Len(s))
<1>1. Len(s) \in Nat \ {0} /\ s[Len(s)] \in FrameRecord /\ \A i \in 1..Len(s) : s[i] \in FrameRecord
  OBVIOUS
<1> DEFINE f == s[Len(s)]
           top == [f EXCEPT !.step = f.step + 1]
<1>2. Advanced(s) = [s EXCEPT ![Len(s)] = top]
  BY DEF Advanced
<1>3. top \in FrameRecord /\ top.read = s[Len(s)].read /\ top.count = s[Len(s)].count
  <2>1. f \in FrameRecord
    BY <1>1
  <2> HIDE DEF f
  <2>2. top \in FrameRecord /\ top.read = f.read /\ top.count = f.count
    BY <2>1 DEF FrameRecord
  <2> QED BY <2>2 DEF f
<1> HIDE DEF top
<1>4. Advanced(s) \in Seq(FrameRecord) /\ Len(Advanced(s)) = Len(s)
  BY <1>1, <1>2, <1>3
<1>5. \A i \in 1..Len(s) : Advanced(s)[i] = IF i = Len(s) THEN top ELSE s[i]
  BY <1>1, <1>2
<1> QED BY <1>3, <1>4, <1>5 DEF Shortened

\* A read that returns leaves the reads around it as they were.
LEMMA StackReturns ==
  ASSUME NEW s \in Seq(FrameRecord), Len(s) > 1
  PROVE  Shortened(s, Advanced(Pop(s)), Len(s) - 1)
<1>1. Shortened(s, Pop(s), Len(s) - 1) /\ Len(s) - 1 > 0 /\ Len(s) \in Nat
  BY StackPops
<1>2. Pop(s) \in Seq(FrameRecord) /\ Len(Pop(s)) = Len(s) - 1 /\ Pop(s) # << >>
  BY <1>1 DEF Shortened
<1>3. Shortened(Pop(s), Advanced(Pop(s)), Len(s) - 1)
  BY <1>2, StackAdvances
<1> QED BY <1>1, <1>3 DEF Shortened

\* A shorter stack is nested as the longer one was.
LEMMA ShortenedNests ==
  ASSUME NEW s, NEW t, NEW n \in Nat, Shortened(s, t, n), n <= Len(s), Len(s) \in Nat, Nested(s)
  PROVE  Nested(t)
BY DEF Shortened, Nested

\* Every part of an answer is of a lower level than the answer.
LEMMA PartsAreLower ==
  ASSUME NEW f \in FrameRecord, ~Complete(f), Parts(f)[f.step] # "GET"
  PROVE  Parts(f)[f.step] \in Reads /\ Level(Parts(f)[f.step]) < Level(f.read)
<1> DEFINE recipe == Parts(f)
<1>1. f.read \in Reads /\ f.count \in Nat \ {0} /\ f.step \in Nat \ {0} /\ PageSize \in Nat \ {0}
  BY ReadAssumption DEF FrameRecord
<1>2. ~(f.step > Len(recipe)) /\ recipe = Recipe(f.read, f.count)
  BY DEF Complete, Parts
<1>3. f.read \notin Charts
  <2> SUFFICES ASSUME f.read \in Charts PROVE FALSE
    OBVIOUS
  <2>1. recipe = Pages(f.count)
    BY <1>2 DEF Recipe, Charts
  <2> DEFINE k == (f.count + PageSize - 1) \div PageSize
  <2>2. k \in Nat
    BY <1>1
  <2> HIDE DEF k
  <2>3. Pages(f.count) = [i \in 1..k |-> "GET"]
    BY DEF Pages, k
  <2>4. Len([i \in 1..k |-> "GET"]) = k
    BY <2>2
  <2>5. f.step \in 1..k
    BY <1>1, <1>2, <2>1, <2>2, <2>3, <2>4
  <2> QED BY <2>1, <2>3, <2>5
<1> DEFINE part == recipe[f.step]
<1>4. f.step \in 1..Len(recipe) /\ part # "GET"
  <2>1. Len(recipe) \in Nat
    BY <1>2, <1>3, <1>1 DEF Recipe, Charts, Reads, Caches, Locked, Accounts, Portfolio, BuyingPower, MarketDay,
       Rankings, Universe, Candidates, Directory, StockInfo, Detail, Sparklines, WarmUp, Favorites, TopAmounts
  <2> QED BY <1>1, <1>2, <2>1
<1>5. CASE f.read \in {"accounts", "day", "rankings", "universe", "info", "top"}
  <2>1. recipe \in {<<"GET">>, <<"GET", "GET">>}
    BY <1>2, <1>5 DEF Recipe, Accounts, MarketDay, Rankings, Universe, StockInfo, TopAmounts
  <2> HIDE DEF recipe
  <2> QED BY <1>4, <2>1
<1>6. CASE f.read \in {"portfolio", "buying"}
  <2>1. recipe \in {<<"accounts", "GET", "day">>, <<"accounts", "GET", "GET">>}
    BY <1>2, <1>6 DEF Recipe, Portfolio, BuyingPower
  <2> HIDE DEF recipe
  <2>2. part \in {"accounts", "day"}
    BY <1>4, <2>1
  <2> HIDE DEF part
  <2>3. part \in Reads /\ Level(part) < Level(f.read)
    BY <1>6, <2>2 DEF Level, Reads, Caches, Locked
  <2> QED BY <2>3 DEF part, recipe
<1>7. CASE f.read = "candidates"
  <2>1. recipe = <<"buying", "rankings", "GET">>
    BY <1>2, <1>7 DEF Recipe, Candidates
  <2> HIDE DEF recipe
  <2>2. part \in {"buying", "rankings"}
    BY <1>4, <2>1
  <2> HIDE DEF part
  <2>3. part \in Reads /\ Level(part) < Level(f.read)
    BY <1>7, <2>2 DEF Level, Reads, Caches, Locked
  <2> QED BY <2>3 DEF part, recipe
<1>8. CASE f.read \in {"directory", "detail", "sparklines", "warm", "favorites"}
  <2>1. recipe \in {Directory, Detail, Sparklines, WarmUp, Favorites}
    BY <1>2, <1>8 DEF Recipe
  <2> HIDE DEF recipe
  <2>2. part \in {"universe", "rankings", "info", "candles", "daily"}
    BY <1>4, <2>1 DEF Directory, Detail, Sparklines, WarmUp, Favorites
  <2> HIDE DEF part
  <2>3. part \in Reads /\ Level(part) < Level(f.read)
    BY <1>8, <2>2 DEF Level, Reads, Caches, Locked, Charts
  <2> QED BY <2>3 DEF part, recipe
<1> QED BY <1>1, <1>3, <1>5, <1>6, <1>7, <1>8 DEF Reads, Caches, Locked

-----------------------------------------------------------------------------
(* The steps of a reader                                                    *)

\* What holds of a reader whose stack and place did not change when nobody took
\* its locks and nobody else stored what it holds.
Untouched(r) ==
  /\ stack'[r] = stack[r] /\ at'[r] = at[r]
  /\ \A k \in Locked : lock[k] = r => lock'[k] = r
  /\ \A f \in FrameRecord : f.read \in Locked /\ lock[f.read] = r /\ ~Hit(f) => ~Hit(f)'

\* A reader that nobody touched has its locks and its nesting.
LEMMA UntouchedHolds ==
  ASSUME ReadInvariant, NEW r \in Readers, Untouched(r)
  PROVE  Nested(stack[r])' /\ Holding(r)'
<1>1. stack[r] \in Seq(FrameRecord) /\ Nested(stack[r]) /\ Holding(r)
  BY DEF ReadInvariant, ReadTypes
<1>2. stack'[r] = stack[r] /\ at'[r] = at[r]
  BY DEF Untouched
<1>3. Nested(stack[r])'
  BY <1>1, <1>2 DEF Nested
<1>4. ASSUME NEW i \in 1..Len(stack[r]), KeepsLock(r, i), stack[r][i].read \in Locked
      PROVE  lock'[stack[r][i].read] = r /\ ~Hit(stack[r][i])'
  <2>1. lock[stack[r][i].read] = r /\ ~Hit(stack[r][i])
    BY <1>1, <1>4 DEF Holding
  <2>2. stack[r][i] \in FrameRecord
    BY <1>1
  <2>3. PICK f \in FrameRecord : f = stack[r][i]
    BY <2>2
  <2>4. lock'[f.read] = r /\ ~Hit(f)'
    BY <1>4, <2>1, <2>3 DEF Untouched
  <2> QED BY <1>2, <2>3, <2>4
<1> QED BY <1>2, <1>3, <1>4 DEF Holding, KeepsLock

\* A frame keeps its lock, and its answer is not cached behind its back.
Stays(r, f) == f.read \in Locked /\ lock[f.read] = r => lock'[f.read] = r /\ (~Hit(f) => ~Hit(f)')
AllStay(r, n) == \A i \in 1..n : Stays(r, stack[r][i])
NoneGained(r, n) == \A i \in 1..n : KeepsLock(r, i)' => KeepsLock(r, i) \/ stack[r][i].read \notin Locked

\* A reader keeps its locks in order when its stack becomes no longer.
LEMMA ShortenedHolds ==
  ASSUME ReadInvariant, NEW r \in Readers, NEW n \in Nat, n <= Len(stack[r]), Len(stack[r]) \in Nat,
         Shortened(stack[r], stack'[r], n), NoneGained(r, n), AllStay(r, n)
  PROVE  Nested(stack[r])' /\ Holding(r)'
<1>1. stack[r] \in Seq(FrameRecord) /\ Nested(stack[r]) /\ Holding(r)
  BY DEF ReadInvariant, ReadTypes
<1>2. Nested(stack'[r])
  BY <1>1, ShortenedNests
<1>3. ASSUME NEW i \in 1..Len(stack'[r]), KeepsLock(r, i)', stack'[r][i].read \in Locked
      PROVE  lock'[stack'[r][i].read] = r /\ ~Hit(stack[r][i])'
  <2>1. i \in 1..n /\ stack'[r][i].read = stack[r][i].read /\ stack'[r][i].count = stack[r][i].count
    BY <1>3 DEF Shortened
  <2>2. PICK f : f = stack[r][i]
    OBVIOUS
  <2>3. PICK g : g = stack'[r][i]
    OBVIOUS
  <2>4. f.read \in Locked /\ g.read = f.read /\ g.count = f.count
    BY <1>3, <2>1, <2>2, <2>3
  <2>5. KeepsLock(r, i)
    BY <1>3, <2>1, <2>2, <2>4 DEF NoneGained
  <2>6. lock[f.read] = r /\ ~Hit(f)
    BY <1>1, <2>1, <2>2, <2>4, <2>5 DEF Holding
  <2>7. Stays(r, f)
    BY <2>1, <2>2 DEF AllStay
  <2>8. lock'[f.read] = r /\ ~Hit(f)'
    BY <2>4, <2>6, <2>7 DEF Stays
  <2>9. ~Hit(g)'
    BY <2>4, <2>8 DEF Hit
  <2> QED BY <2>3, <2>4, <2>8, <2>9
<1>4. Holding(r)'
  BY <1>3 DEF Holding
<1>5. Nested(stack[r])'
  BY <1>2 DEF Nested
<1> QED BY <1>4, <1>5

\* Nothing happens to the frames when no cache and no lock changes.
LEMMA SameStays ==
  ASSUME UNCHANGED <<lock, valid, holds, open>>, NEW r, NEW n
  PROVE  AllStay(r, n)
<1>1. ASSUME NEW f PROVE Stays(r, f)
  <2>1. Hit(f)' = Hit(f)
    BY DEF Hit
  <2> QED BY <2>1 DEF Stays
<1> QED BY <1>1 DEF AllStay

\* A read that returns.
LEMMA Returned ==
  ASSUME ReadInvariant, NEW r \in Readers, stack[r] # << >>, Return(r)
  PROVE  /\ Shortened(stack[r], stack'[r], Len(stack[r]) - 1)
         /\ Len(stack[r]) \in Nat \ {0}
         /\ at' \in [Readers -> ReaderPlaces] /\ stack' \in [Readers -> Seq(FrameRecord)]
         /\ at'[r] \in {"done", "work"} /\ (at'[r] = "work" => stack'[r] # << >>)
         /\ \A q \in Readers \ {r} : at'[q] = at[q] /\ stack'[q] = stack[q]
<1>1. at \in [Readers -> ReaderPlaces] /\ stack \in [Readers -> Seq(FrameRecord)] /\ stack[r] \in Seq(FrameRecord)
  BY DEF ReadInvariant, ReadTypes
<1>2. Len(stack[r]) \in Nat \ {0}
  BY <1>1
<1>3. CASE Len(stack[r]) = 1
  <2>1. stack' = [stack EXCEPT ![r] = << >>] /\ at' = [at EXCEPT ![r] = "done"]
    BY <1>3 DEF Return, Go
  <2>2. << >> \in Seq(FrameRecord) /\ Len(<< >>) = 0
    OBVIOUS
  <2>3. Shortened(stack[r], << >>, 0)
    BY <2>2 DEF Shortened
  <2> QED BY <1>1, <1>2, <1>3, <2>1, <2>2, <2>3 DEF ReaderPlaces
<1>4. CASE Len(stack[r]) # 1
  <2> DEFINE t == Advanced(Pop(stack[r]))
  <2>1. stack' = [stack EXCEPT ![r] = t] /\ at' = [at EXCEPT ![r] = "work"]
    BY <1>4 DEF Return, Go
  <2>4. Len(stack[r]) > 1 /\ Len(stack[r]) - 1 > 0
    <3>1. \A k \in Nat \ {0} : k # 1 => k > 1 /\ k - 1 > 0
      OBVIOUS
    <3> QED BY <1>2, <1>4, <3>1, Zenon
  <2>2. Shortened(stack[r], t, Len(stack[r]) - 1)
    <3>1. \A s \in Seq(FrameRecord) : Len(s) > 1 => Shortened(s, Advanced(Pop(s)), Len(s) - 1)
      BY StackReturns, Zenon
    <3> QED BY <1>1, <2>4, <3>1, Zenon
  <2> HIDE DEF t
  <2>5. t \in Seq(FrameRecord) /\ Len(t) > 0
    BY <2>2, <2>4 DEF Shortened
  <2>3. t \in Seq(FrameRecord) /\ t # << >>
    BY <2>5
  <2> QED BY <1>1, <1>2, <2>1, <2>2, <2>3 DEF ReaderPlaces
<1> QED BY <1>3, <1>4

\* What the others have when a reader gives up at most its own locks, and what
\* it caches is an answer whose lock it had.
LEMMA OthersUntouched ==
  ASSUME ReadInvariant, NEW r \in Readers, NEW q \in Readers \ {r},
         stack'[q] = stack[q], at'[q] = at[q],
         \A k \in Locked : lock'[k] = lock[k] \/ lock[k] \in {r, NoReader},
         \A f \in FrameRecord : f.read \in Locked /\ lock[f.read] # r /\ ~Hit(f) => ~Hit(f)'
  PROVE  Nested(stack[q])' /\ Holding(q)'
<1>1. Untouched(q)
  BY ReadAssumption DEF Untouched
<1> QED BY <1>1, UntouchedHolds

\* Nor to the other readers.
LEMMA OthersUnchanged ==
  ASSUME ReadInvariant, NEW r \in Readers, NEW q \in Readers \ {r}, UNCHANGED <<lock, valid, holds, open>>,
         stack'[q] = stack[q], at'[q] = at[q]
  PROVE  Nested(stack[q])' /\ Holding(q)'
<1>1. \A f \in FrameRecord : Hit(f)' = Hit(f)
  BY DEF Hit
<1> QED BY <1>1, OthersUntouched

\* Steps that leave the caches and the locks alone.
LEMMA QuietSteps ==
  ASSUME ReadInvariant, NEW r \in Readers, stack[r] # << >>, UNCHANGED <<wish, valid, holds, lock, open>>,
         NEW n \in Nat, n <= Len(stack[r]), Len(stack[r]) \in Nat,
         at' \in [Readers -> ReaderPlaces], stack' \in [Readers -> Seq(FrameRecord)],
         at'[r] \in {"test", "lock", "work", "request", "error", "exceeded"} => stack'[r] # << >>,
         \A q \in Readers \ {r} : at'[q] = at[q] /\ stack'[q] = stack[q],
         Shortened(stack[r], stack'[r], n), NoneGained(r, n)
  PROVE  ReadInvariant'
<1>1. ReadTypes'
  BY DEF ReadInvariant, ReadTypes
<1>2. Nested(stack[r])' /\ Holding(r)'
  BY SameStays, ShortenedHolds
<1>3. \A q \in Readers \ {r} : Nested(stack[q])' /\ Holding(q)'
  BY OthersUnchanged
<1> QED BY <1>1, <1>2, <1>3 DEF ReadInvariant

\* A read that finds its answer in the cache returns without a lock.
LEMMA ReturnIsQuiet ==
  ASSUME ReadInvariant, NEW r \in Readers, stack[r] # << >>, Return(r), UNCHANGED <<wish, valid, holds, lock, open>>
  PROVE  ReadInvariant'
<1> DEFINE n == Len(stack[r]) - 1
<1>1. /\ Shortened(stack[r], stack'[r], n)
      /\ Len(stack[r]) \in Nat \ {0}
      /\ at' \in [Readers -> ReaderPlaces] /\ stack' \in [Readers -> Seq(FrameRecord)]
      /\ at'[r] \in {"done", "work"} /\ (at'[r] = "work" => stack'[r] # << >>)
      /\ \A q \in Readers \ {r} : at'[q] = at[q] /\ stack'[q] = stack[q]
  BY Returned
<1>2. n \in Nat /\ n <= Len(stack[r]) /\ \A i \in 1..n : i < Len(stack[r])
  BY <1>1
<1>3. NoneGained(r, n)
  BY <1>2 DEF NoneGained, KeepsLock
<1> HIDE DEF n
<1> QED BY <1>1, <1>2, <1>3, QuietSteps

\* Steps that change the place only.
LEMMA MoveIsQuiet ==
  ASSUME ReadInvariant, NEW r \in Readers, stack[r] # << >>, UNCHANGED <<wish, stack, valid, holds, lock, open>>,
         NEW place \in ReaderPlaces, Go(r, place),
         place \in {"work", "request"} => at[r] \in {"work", "request"} \/ Top(r).read \notin Locked
  PROVE  ReadInvariant'
<1> DEFINE n == Len(stack[r])
<1>1. at \in [Readers -> ReaderPlaces] /\ stack \in [Readers -> Seq(FrameRecord)] /\ stack[r] \in Seq(FrameRecord)
  BY DEF ReadInvariant, ReadTypes
<1>2. n \in Nat /\ n <= n
  BY <1>1
<1>3. at' = [at EXCEPT ![r] = place] /\ at'[r] = place
  BY <1>1 DEF Go
<1>4. Shortened(stack[r], stack'[r], n)
  BY <1>1 DEF Shortened
<1>5. NoneGained(r, n)
  BY <1>2, <1>3 DEF NoneGained, KeepsLock, Top
<1>6. /\ at' \in [Readers -> ReaderPlaces] /\ stack' \in [Readers -> Seq(FrameRecord)]
      /\ \A q \in Readers \ {r} : at'[q] = at[q] /\ stack'[q] = stack[q]
  BY <1>1, <1>3
<1> HIDE DEF n
<1> QED BY <1>2, <1>4, <1>5, <1>6, QuietSteps DEF n

LEMMA ExpireKeeps ==
  ASSUME ReadInvariant, NEW k \in Caches, Expire(k)
  PROVE  ReadInvariant'
<1>1. ReadTypes'
  BY DEF ReadInvariant, ReadTypes, Expire
<1>2. \A f \in FrameRecord : ~Hit(f) => ~Hit(f)'
  BY DEF Hit, Expire
<1>3. \A r \in Readers : Untouched(r)
  BY <1>2 DEF Untouched, Expire
<1> QED BY <1>1, <1>3, UntouchedHolds DEF ReadInvariant

LEMMA BeginKeeps ==
  ASSUME ReadInvariant, NEW r \in Readers, Begin(r)
  PROVE  ReadInvariant'
<1> DEFINE f == Frame(wish[r].read, wish[r].count)
<1>1. /\ at \in [Readers -> ReaderPlaces] /\ stack \in [Readers -> Seq(FrameRecord)]
      /\ wish \in [Readers -> [read : Reads, count : Nat \ {0}]]
  BY DEF ReadInvariant, ReadTypes
<1>2. f \in FrameRecord
  BY <1>1 DEF Frame, FrameRecord
<1>3. at' = [at EXCEPT ![r] = "test"] /\ stack' = [stack EXCEPT ![r] = <<f>>] /\ UNCHANGED <<wish, valid, holds, lock, open>>
  BY DEF Begin, Go
<1> HIDE DEF f
<1>4. /\ at' \in [Readers -> ReaderPlaces] /\ stack' \in [Readers -> Seq(FrameRecord)] /\ stack'[r] = <<f>> /\ <<f>> # << >>
      /\ Len(<<f>>) = 1 /\ at'[r] = "test"
      /\ \A q \in Readers \ {r} : at'[q] = at[q] /\ stack'[q] = stack[q]
  BY <1>1, <1>2, <1>3 DEF ReaderPlaces
<1>5. ReadTypes'
  BY <1>3, <1>4 DEF ReadInvariant, ReadTypes
<1>6. Nested(stack[r])'
  BY <1>4 DEF Nested
<1>7. Holding(r)'
  BY <1>4 DEF Holding, KeepsLock
<1>8. \A q \in Readers \ {r} : Nested(stack[q])' /\ Holding(q)'
  BY <1>3, <1>4, OthersUnchanged
<1> QED BY <1>5, <1>6, <1>7, <1>8 DEF ReadInvariant

LEMMA TestKeeps ==
  ASSUME ReadInvariant, NEW r \in Readers, Test(r)
  PROVE  ReadInvariant'
<1>1. stack[r] # << >> /\ UNCHANGED <<wish, valid, holds, lock, open>>
  BY DEF ReadInvariant, ReadTypes, Test
<1>2. CASE Return(r)
  BY <1>1, <1>2, ReturnIsQuiet
<1>3. CASE /\ UNCHANGED stack
           /\ Go(r, IF Top(r).read \in Locked THEN "lock" ELSE "work")
  BY <1>1, <1>3, MoveIsQuiet DEF ReaderPlaces
<1> QED BY <1>2, <1>3 DEF Test

\* The lock is taken when it is free and the answer is not cached: both halves of
\* what the reader then holds.
LEMMA LockKeeps ==
  ASSUME ReadInvariant, NEW r \in Readers, Lock(r)
  PROVE  ReadInvariant'
<1>1. stack[r] # << >> /\ UNCHANGED <<wish, valid, holds, open>> /\ lock[Top(r).read] = NoReader
  BY DEF ReadInvariant, ReadTypes, Lock
<1>2. CASE Return(r) /\ UNCHANGED lock
  BY <1>1, <1>2, ReturnIsQuiet
<1>3. CASE ~Hit(Top(r)) /\ lock' = [lock EXCEPT ![Top(r).read] = r] /\ Go(r, "work") /\ UNCHANGED stack
  <2>1. /\ at \in [Readers -> ReaderPlaces] /\ stack \in [Readers -> Seq(FrameRecord)] /\ stack[r] \in Seq(FrameRecord)
        /\ lock \in [Locked -> Readers \cup {NoReader}] /\ Nested(stack[r]) /\ Holding(r)
    BY DEF ReadInvariant, ReadTypes
  <2>2. \A f : Hit(f)' = Hit(f)
    BY <1>1 DEF Hit
  <2>3. /\ \A k \in Locked : lock'[k] = IF k = Top(r).read THEN r ELSE lock[k]
        /\ lock' \in [Locked -> Readers \cup {NoReader}]
    BY <1>3, <2>1
  <2>4. at' = [at EXCEPT ![r] = "work"] /\ stack' = stack
    BY <1>3 DEF Go
  <2>5. ReadTypes'
    <3>1. at' \in [Readers -> ReaderPlaces] /\ (\A q \in Readers : at'[q] = IF q = r THEN "work" ELSE at[q])
      BY <2>1, <2>4 DEF ReaderPlaces
    <3> QED BY <1>1, <2>1, <2>3, <2>4, <3>1 DEF ReadInvariant, ReadTypes
  <2>6. Nested(stack[r])'
    BY <2>1, <2>4 DEF Nested
  <2>7. ASSUME NEW i \in 1..Len(stack[r]), stack[r][i].read \in Locked
        PROVE  lock'[stack[r][i].read] = r /\ ~Hit(stack[r][i])
    <3>1. CASE i = Len(stack[r])
      BY <1>3, <2>3, <2>7, <3>1 DEF Top
    <3>2. CASE i # Len(stack[r])
      <4>1. KeepsLock(r, i)
        BY <2>1, <3>2 DEF KeepsLock
      <4>2. lock[stack[r][i].read] = r /\ ~Hit(stack[r][i])
        BY <2>1, <2>7, <4>1 DEF Holding
      <4> QED BY <2>3, <2>7, <4>2
    <3> QED BY <3>1, <3>2
  <2>8. Holding(r)'
    <3>1. \A i \in 1..Len(stack[r]) : stack[r][i].read \in Locked => ~Hit(stack[r][i])'
      <4> TAKE i \in 1..Len(stack[r])
      <4> HAVE stack[r][i].read \in Locked
      <4>1. PICK f : f = stack[r][i]
        OBVIOUS
      <4> QED BY <2>2, <2>4, <2>7, <4>1
    <3> QED BY <2>4, <2>7, <3>1 DEF Holding
  <2>9. ASSUME NEW q \in Readers \ {r}
        PROVE  Nested(stack[q])' /\ Holding(q)'
    <3>1. stack'[q] = stack[q] /\ at'[q] = at[q]
      BY <2>1, <2>4
    <3>2. \A k \in Locked : lock'[k] = lock[k] \/ lock[k] \in {r, NoReader}
      BY <1>1, <2>3
    <3> QED BY <2>2, <3>1, <3>2, OthersUntouched
  <2> QED BY <2>5, <2>6, <2>8, <2>9 DEF ReadInvariant
<1> QED BY <1>2, <1>3 DEF Lock

LEMMA GiveUpKeeps ==
  ASSUME ReadInvariant, NEW r \in Readers, GiveUp(r)
  PROVE  ReadInvariant'
<1>1. stack[r] # << >> /\ UNCHANGED <<wish, stack, valid, holds, lock, open>> /\ Go(r, "exceeded")
  BY DEF ReadInvariant, ReadTypes, GiveUp
<1> QED BY <1>1, MoveIsQuiet DEF ReaderPlaces

LEMMA FailReadKeeps ==
  ASSUME ReadInvariant, NEW r \in Readers, FailRead(r)
  PROVE  ReadInvariant'
<1>1. stack[r] # << >> /\ UNCHANGED <<wish, stack, valid, holds, lock, open>> /\ (Go(r, "error") \/ Go(r, "exceeded"))
  BY DEF ReadInvariant, ReadTypes, FailRead
<1>2. CASE Go(r, "error")
  BY <1>1, <1>2, MoveIsQuiet DEF ReaderPlaces
<1>3. CASE Go(r, "exceeded")
  BY <1>1, <1>3, MoveIsQuiet DEF ReaderPlaces
<1> QED BY <1>1, <1>2, <1>3

\* An answer has a sequence of parts, each a request or a read.
LEMMA PartsAreSequences ==
  ASSUME NEW f \in FrameRecord
  PROVE  Parts(f) \in Seq({"GET"} \cup Reads)
<1>1. f.read \in Reads /\ f.count \in Nat \ {0} /\ PageSize \in Nat \ {0}
  BY ReadAssumption DEF FrameRecord
<1>2. Parts(f) = Recipe(f.read, f.count)
  BY DEF Parts
<1>3. CASE f.read \in Charts
  <2> DEFINE k == (f.count + PageSize - 1) \div PageSize
  <2>1. k \in Nat
    BY <1>1
  <2> HIDE DEF k
  <2>2. [i \in 1..k |-> "GET"] \in Seq({"GET"} \cup Reads)
    BY <2>1
  <2>3. Parts(f) = [i \in 1..k |-> "GET"]
    BY <1>2, <1>3 DEF Recipe, Charts, Pages, k
  <2> QED BY <2>2, <2>3
<1>4. CASE f.read \notin Charts
  <2>1. /\ Accounts \in Seq({"GET"} \cup Reads) /\ Portfolio \in Seq({"GET"} \cup Reads)
        /\ BuyingPower \in Seq({"GET"} \cup Reads) /\ MarketDay \in Seq({"GET"} \cup Reads)
        /\ Rankings \in Seq({"GET"} \cup Reads) /\ Universe \in Seq({"GET"} \cup Reads)
        /\ Candidates \in Seq({"GET"} \cup Reads) /\ Directory \in Seq({"GET"} \cup Reads)
        /\ StockInfo \in Seq({"GET"} \cup Reads) /\ Detail \in Seq({"GET"} \cup Reads)
        /\ Sparklines \in Seq({"GET"} \cup Reads) /\ WarmUp \in Seq({"GET"} \cup Reads)
        /\ Favorites \in Seq({"GET"} \cup Reads) /\ TopAmounts \in Seq({"GET"} \cup Reads)
    BY DEF Accounts, Portfolio, BuyingPower, MarketDay, Rankings, Universe, Candidates, Directory, StockInfo,
       Detail, Sparklines, WarmUp, Favorites, TopAmounts, Reads, Caches, Locked, Charts
  <2> QED BY <1>1, <1>2, <1>4, <2>1 DEF Recipe, Reads, Caches, Locked
<1> QED BY <1>3, <1>4

\* The broker's answer is a step of the innermost read.
LEMMA Replied ==
  ASSUME ReadInvariant, NEW r \in Readers, Reply(r)
  PROVE  /\ Len(stack[r]) \in Nat /\ Shortened(stack[r], stack'[r], Len(stack[r]))
         /\ at' \in [Readers -> ReaderPlaces] /\ stack' \in [Readers -> Seq(FrameRecord)]
         /\ at'[r] = "work" /\ stack'[r] # << >>
         /\ \A q \in Readers \ {r} : at'[q] = at[q] /\ stack'[q] = stack[q]
<1> DEFINE s == stack[r]
           n == Len(s)
<1>1. /\ at \in [Readers -> ReaderPlaces] /\ stack \in [Readers -> Seq(FrameRecord)]
      /\ s \in Seq(FrameRecord) /\ s # << >> /\ at[r] = "request"
  BY DEF ReadInvariant, ReadTypes, Reply
<1>2. n \in Nat \ {0} /\ n <= n
  BY <1>1
<1>3. at' = [at EXCEPT ![r] = "work"] /\ UNCHANGED <<wish, valid, holds, lock, open>>
  BY DEF Reply, Go
<1>4. \E t : stack' = [stack EXCEPT ![r] = t] /\ Shortened(s, t, n)
  <2>1. CASE stack' = [stack EXCEPT ![r] = Advanced(stack[r])]
    <3>1. Shortened(s, Advanced(s), n)
      BY <1>1, StackAdvances
    <3> QED BY <2>1, <3>1
  <2>2. CASE stack' = [stack EXCEPT ![r][Len(stack[r])].step = Len(Parts(Top(r))) + 1]
    <3> DEFINE f == s[n]
               p == Len(Parts(Top(r))) + 1
               top == [f EXCEPT !.step = p]
               t == [s EXCEPT ![n] = top]
    <3>1. stack' = [stack EXCEPT ![r] = t]
      BY <1>1, <2>2
    <3>2. f \in FrameRecord /\ f = Top(r)
      BY <1>1, <1>2 DEF Top
    <3>3. p \in Nat \ {0}
      <4>1. Parts(Top(r)) \in Seq({"GET"} \cup Reads)
        BY <3>2, PartsAreSequences
      <4> QED BY <4>1
    <3>4. top \in FrameRecord /\ top.read = f.read /\ top.count = f.count
      <4> HIDE DEF f, p
      <4> QED BY <3>2, <3>3 DEF FrameRecord
    <3>5. t \in Seq(FrameRecord) /\ Len(t) = n /\ \A i \in 1..n : t[i] = IF i = n THEN top ELSE s[i]
      <4> HIDE DEF top
      <4> QED BY <1>1, <1>2, <3>4
    <3>6. Shortened(s, t, n)
      <4> HIDE DEF t, top
      <4> QED BY <3>4, <3>5 DEF Shortened
    <3> QED BY <3>1, <3>6
  <2> QED BY <2>1, <2>2 DEF Reply
<1>5. PICK t : stack' = [stack EXCEPT ![r] = t] /\ Shortened(s, t, n)
  BY <1>4
<1>6. t \in Seq(FrameRecord) /\ Len(t) = n /\ t # << >>
  BY <1>2, <1>5 DEF Shortened
<1>7. /\ at' \in [Readers -> ReaderPlaces] /\ stack' \in [Readers -> Seq(FrameRecord)] /\ stack'[r] = t
      /\ at'[r] = "work"
      /\ \A q \in Readers \ {r} : at'[q] = at[q] /\ stack'[q] = stack[q]
  BY <1>1, <1>3, <1>5, <1>6 DEF ReaderPlaces
<1> QED BY <1>2, <1>5, <1>6, <1>7

LEMMA ReplyKeeps ==
  ASSUME ReadInvariant, NEW r \in Readers, Reply(r)
  PROVE  ReadInvariant'
<1> DEFINE n == Len(stack[r])
<1>1. stack[r] # << >> /\ UNCHANGED <<wish, valid, holds, lock, open>> /\ at[r] = "request"
  BY DEF ReadInvariant, ReadTypes, Reply
<1>2. /\ n \in Nat /\ n <= n /\ Shortened(stack[r], stack'[r], n)
      /\ at' \in [Readers -> ReaderPlaces] /\ stack' \in [Readers -> Seq(FrameRecord)]
      /\ stack'[r] # << >>
      /\ \A q \in Readers \ {r} : at'[q] = at[q] /\ stack'[q] = stack[q]
  BY Replied
<1>3. NoneGained(r, n)
  BY <1>1 DEF NoneGained, KeepsLock
<1> HIDE DEF n
<1> QED BY <1>1, <1>2, <1>3, QuietSteps DEF n

\* A read that takes up another one.
LEMMA WorkKeeps ==
  ASSUME ReadInvariant, NEW r \in Readers, Work(r)
  PROVE  ReadInvariant'
<1> DEFINE part == Parts(Top(r))[Top(r).step]
<1>1. stack[r] # << >> /\ UNCHANGED <<wish, valid, holds, lock, open>> /\ at[r] = "work" /\ ~Complete(Top(r))
  BY DEF ReadInvariant, ReadTypes, Work
<1>2. CASE part = "GET" /\ Go(r, "request") /\ UNCHANGED stack
  BY <1>1, <1>2, MoveIsQuiet DEF ReaderPlaces
<1>3. CASE part # "GET" /\ Go(r, "test") /\ stack' = [stack EXCEPT ![r] = Append(@, Frame(part, 1))]
  <2>1. /\ at \in [Readers -> ReaderPlaces] /\ stack \in [Readers -> Seq(FrameRecord)] /\ stack[r] \in Seq(FrameRecord)
        /\ Nested(stack[r]) /\ Holding(r)
    BY DEF ReadInvariant, ReadTypes
  <2> DEFINE s == stack[r]
             n == Len(s)
  <2>2. n \in Nat \ {0} /\ Top(r) \in FrameRecord /\ Top(r) = s[n]
    BY <1>1, <2>1 DEF Top
  <2>3. part \in Reads /\ Level(part) < Level(s[n].read)
    <3>1. PICK f \in FrameRecord : f = Top(r)
      BY <2>2
    <3>2. Parts(f)[f.step] \in Reads /\ Level(Parts(f)[f.step]) < Level(f.read)
      BY <1>1, <1>3, <3>1, PartsAreLower
    <3> QED BY <2>2, <3>1, <3>2
  <2> HIDE DEF part
  <2> DEFINE f == Frame(part, 1)
             t == Append(s, f)
  <2>4. f \in FrameRecord /\ f.read = part
    BY <2>3 DEF Frame, FrameRecord
  <2> HIDE DEF f
  <2>5. t \in Seq(FrameRecord) /\ Len(t) = n + 1 /\ t # << >> /\ t[n + 1] = f /\ \A i \in 1..n : t[i] = s[i]
    BY <2>1, <2>4
  <2>6. stack' = [stack EXCEPT ![r] = t] /\ at' = [at EXCEPT ![r] = "test"]
    BY <1>3 DEF Go, f
  <2> HIDE DEF t
  <2>7. /\ at' \in [Readers -> ReaderPlaces] /\ stack' \in [Readers -> Seq(FrameRecord)] /\ stack'[r] = t
        /\ at'[r] = "test"
        /\ \A q \in Readers \ {r} : at'[q] = at[q] /\ stack'[q] = stack[q]
    BY <2>1, <2>5, <2>6 DEF ReaderPlaces
  <2>8. ReadTypes'
    BY <1>1, <2>5, <2>7 DEF ReadInvariant, ReadTypes
  <2>9. Nested(t)
    <3> SUFFICES ASSUME NEW i \in 1..(n + 1), NEW j \in 1..(n + 1), i < j
                 PROVE  Level(t[j].read) < Level(t[i].read)
      BY <2>5 DEF Nested
    <3>0. \A read : Level(read) \in Nat
      BY DEF Level
    <3>1. CASE j <= n
      <4>1. i \in 1..n /\ j \in 1..n
        BY <2>2, <3>1
      <4> QED BY <2>1, <2>5, <4>1 DEF Nested
    <3>2. CASE j = n + 1 /\ i = n
      BY <2>2, <2>3, <2>4, <2>5, <3>2
    <3>3. CASE j = n + 1 /\ i < n
      <4>1. i \in 1..n /\ n \in 1..n
        BY <2>2, <3>3
      <4>2. Level(s[n].read) < Level(s[i].read)
        BY <2>1, <3>3, <4>1 DEF Nested
      <4>3. Level(part) < Level(s[i].read)
        BY <2>3, <3>0, <4>2
      <4> QED BY <2>4, <2>5, <3>3, <4>1, <4>3
    <3> QED BY <2>2, <3>1, <3>2, <3>3
  <2>10. \A i \in 1..n : s[i].read \in Locked => lock[s[i].read] = r /\ ~Hit(s[i])
    BY <1>1, <2>1 DEF Holding, KeepsLock
  <2>11. Holding(r)'
    <3> SUFFICES ASSUME NEW i \in 1..(n + 1), KeepsLock(r, i)', t[i].read \in Locked
                 PROVE  lock'[t[i].read] = r /\ ~Hit(stack[r][i])'
      BY <2>5, <2>7 DEF Holding
    <3>1. i \in 1..n
      BY <2>2, <2>5, <2>7 DEF KeepsLock
    <3>2. PICK g : g = t[i]
      OBVIOUS
    <3>3. lock[g.read] = r /\ ~Hit(g)
      BY <2>5, <2>10, <3>1, <3>2
    <3>4. Hit(g)' = Hit(g)
      BY <1>1 DEF Hit
    <3> QED BY <1>1, <2>7, <3>2, <3>3, <3>4
  <2>12. \A q \in Readers \ {r} : Nested(stack[q])' /\ Holding(q)'
    BY <1>1, <2>7, OthersUnchanged
  <2>13. Nested(stack[r])'
    BY <2>7, <2>9 DEF Nested
  <2> QED BY <2>8, <2>11, <2>12, <2>13 DEF ReadInvariant
<1> QED BY <1>2, <1>3 DEF Work

\* The innermost read ends, and its lock is left: the other locks of the reader
\* are of other reads.
LEMMA LeavingKeeps ==
  ASSUME ReadInvariant, NEW r \in Readers, stack[r] # << >>, Release(r), UNCHANGED <<wish, open>>,
         Shortened(stack[r], stack'[r], Len(stack[r]) - 1),
         at' \in [Readers -> ReaderPlaces], stack' \in [Readers -> Seq(FrameRecord)], holds' \in [Caches -> Nat],
         at'[r] \in {"test", "lock", "work", "request", "error", "exceeded"} => stack'[r] # << >>,
         \A q \in Readers \ {r} : at'[q] = at[q] /\ stack'[q] = stack[q],
         \A f \in FrameRecord : f.read \in Locked /\ f.read # Top(r).read => Hit(f)' = Hit(f),
         \A f \in FrameRecord : f.read \in Locked /\ lock[f.read] # r => Hit(f)' = Hit(f)
  PROVE  ReadInvariant'
<1> DEFINE s == stack[r]
           n == Len(s) - 1
<1>1. /\ s \in Seq(FrameRecord) /\ Nested(s) /\ Holding(r) /\ lock \in [Locked -> Readers \cup {NoReader}]
  BY DEF ReadInvariant, ReadTypes
<1>2. Len(s) \in Nat \ {0}
  BY <1>1
<1>3. n \in Nat /\ n <= Len(s) /\ Len(s) \in Nat /\ \A i \in 1..n : i \in 1..Len(s) /\ Len(s) \in 1..Len(s) /\ i < Len(s)
  BY <1>2
<1>4. \A k \in Locked : lock'[k] = IF k = Top(r).read /\ lock[k] = r THEN NoReader ELSE lock[k]
  BY DEF Release
<1>5. lock' \in [Locked -> Readers \cup {NoReader}]
  BY <1>1 DEF Release
<1>6. ReadTypes'
  BY <1>5 DEF ReadInvariant, ReadTypes
<1>7. NoneGained(r, n)
  BY <1>3 DEF NoneGained, KeepsLock
<1>8. AllStay(r, n)
  <2> SUFFICES ASSUME NEW i \in 1..n PROVE Stays(r, s[i])
    BY DEF AllStay
  <2>1. Level(Top(r).read) < Level(s[i].read)
    BY <1>1, <1>3 DEF Nested, Top
  <2>2. s[i].read # Top(r).read
    <3>1. \A read : Level(read) \in Nat
      BY DEF Level
    <3> QED BY <2>1, <3>1
  <2>3. PICK f \in FrameRecord : f = s[i]
    BY <1>1, <1>3
  <2>4. f.read \in Locked => Hit(f)' = Hit(f) /\ lock'[f.read] = lock[f.read]
    BY <1>4, <2>2, <2>3
  <2>5. Stays(r, f)
    BY <2>4 DEF Stays
  <2> QED BY <2>3, <2>5, Zenon
<1>9. Nested(stack[r])' /\ Holding(r)'
  <2> HIDE DEF n
  <2>1. Shortened(stack[r], stack'[r], n)
    BY DEF n
  <2> QED BY <1>3, <1>7, <1>8, <2>1, ShortenedHolds
<1>10. ASSUME NEW q \in Readers \ {r}
       PROVE  Nested(stack[q])' /\ Holding(q)'
  <2>1. \A k \in Locked : lock'[k] = lock[k] \/ lock[k] \in {r, NoReader}
    BY <1>4
  <2> QED BY <2>1, OthersUntouched
<1> QED BY <1>6, <1>9, <1>10 DEF ReadInvariant

\* What is stored was held by the reader that stores it, and nobody else holds it.
LEMMA StoreKeeps ==
  ASSUME ReadInvariant, NEW r \in Readers, Store(r)
  PROVE  ReadInvariant'
<1>1. /\ stack[r] # << >> /\ at[r] = "work" /\ UNCHANGED <<wish, open>> /\ Release(r) /\ Return(r)
      /\ stack[r] \in Seq(FrameRecord) /\ Holding(r) /\ holds \in [Caches -> Nat]
  BY DEF ReadInvariant, ReadTypes, Store
<1>2. Top(r) \in FrameRecord /\ Len(stack[r]) \in 1..Len(stack[r])
  BY <1>1 DEF Top
<1>3. PICK f \in FrameRecord : f = Top(r)
  BY <1>2
<1>4. f.read \in Locked => lock[f.read] = r
  BY <1>1, <1>2, <1>3 DEF Holding, KeepsLock, Top
<1>5. f.count \in Nat
  BY DEF FrameRecord
<1>6. \/ valid' = valid \cup Kept(f) /\ holds' = [holds EXCEPT ![f.read] = f.count]
      \/ UNCHANGED <<valid, holds>>
  BY <1>3 DEF Store
<1>7. holds' \in [Caches -> Nat]
  BY <1>1, <1>5, <1>6
<1>8. ASSUME NEW g \in FrameRecord, g.read \in Locked, g.read # f.read
      PROVE  Hit(g)' = Hit(g)
  <2>1. g.read \in Caches
    BY <1>8 DEF Caches
  <2>2. holds'[g.read] = holds[g.read] /\ (g.read \in valid' <=> g.read \in valid)
    BY <1>1, <1>6, <1>8, <2>1 DEF Kept
  <2> QED BY <1>1, <2>2 DEF Hit
<1>9. /\ Shortened(stack[r], stack'[r], Len(stack[r]) - 1)
      /\ at' \in [Readers -> ReaderPlaces] /\ stack' \in [Readers -> Seq(FrameRecord)]
      /\ at'[r] \in {"done", "work"} /\ (at'[r] = "work" => stack'[r] # << >>)
      /\ \A q \in Readers \ {r} : at'[q] = at[q] /\ stack'[q] = stack[q]
  BY <1>1, Returned
<1>10. \A g \in FrameRecord : g.read \in Locked /\ g.read # Top(r).read => Hit(g)' = Hit(g)
  BY <1>3, <1>8
<1>11. \A g \in FrameRecord : g.read \in Locked /\ lock[g.read] # r => Hit(g)' = Hit(g)
  BY <1>4, <1>8
<1> QED BY <1>1, <1>7, <1>9, <1>10, <1>11, LeavingKeeps

\* An error leaves the innermost read.
LEMMA Raised ==
  ASSUME ReadInvariant, NEW r \in Readers, Raise(r)
  PROVE  /\ Shortened(stack[r], stack'[r], Len(stack[r]) - 1)
         /\ at' \in [Readers -> ReaderPlaces] /\ stack' \in [Readers -> Seq(FrameRecord)]
         /\ at'[r] \in {"failed", "work", "error", "exceeded"}
         /\ IF at'[r] = "failed" THEN stack'[r] = << >> ELSE stack'[r] # << >>
         /\ \A q \in Readers \ {r} : at'[q] = at[q] /\ stack'[q] = stack[q]
<1> DEFINE s == stack[r]
           rest == Pop(s)
<1>1. /\ s # << >> /\ at[r] \in {"error", "exceeded"} /\ UNCHANGED <<wish, valid, holds, open>> /\ Release(r)
      /\ s \in Seq(FrameRecord) /\ holds \in [Caches -> Nat]
      /\ at \in [Readers -> ReaderPlaces] /\ stack \in [Readers -> Seq(FrameRecord)]
  BY DEF ReadInvariant, ReadTypes, Raise
<1>2. Len(s) \in Nat \ {0}
  BY <1>1
<1>3. Shortened(s, rest, Len(s) - 1) /\ rest \in Seq(FrameRecord) /\ Len(rest) = Len(s) - 1
  BY <1>1, StackPops DEF Shortened
<1>4. rest # << >> => Shortened(s, Advanced(rest), Len(s) - 1) /\ Advanced(rest) \in Seq(FrameRecord) /\ Advanced(rest) # << >>
  <2> HIDE DEF s, rest
  <2> SUFFICES ASSUME rest # << >>
               PROVE  Shortened(s, Advanced(rest), Len(s) - 1) /\ Advanced(rest) \in Seq(FrameRecord) /\ Advanced(rest) # << >>
    OBVIOUS
  <2>1. Shortened(rest, Advanced(rest), Len(rest)) /\ Len(rest) \in Nat \ {0}
    BY <1>3, StackAdvances
  <2>2. Shortened(s, Advanced(rest), Len(s) - 1)
    BY <1>3, <2>1 DEF Shortened
  <2>3. Advanced(rest) \in Seq(FrameRecord) /\ Len(Advanced(rest)) = Len(rest)
    BY <2>1 DEF Shortened
  <2> QED BY <2>1, <2>2, <2>3
<1> HIDE DEF rest
<1>5. \/ rest = << >> /\ stack' = [stack EXCEPT ![r] = rest] /\ at' = [at EXCEPT ![r] = "failed"]
      \/ rest # << >> /\ stack' = [stack EXCEPT ![r] = Advanced(rest)] /\ at' = [at EXCEPT ![r] = "work"]
      \/ rest # << >> /\ stack' = [stack EXCEPT ![r] = rest] /\ at' = at
  BY DEF Raise, Go, rest
<1>6. /\ Shortened(s, stack'[r], Len(s) - 1)
      /\ at' \in [Readers -> ReaderPlaces] /\ stack' \in [Readers -> Seq(FrameRecord)]
      /\ at'[r] \in {"failed", "work", "error", "exceeded"}
      /\ IF at'[r] = "failed" THEN stack'[r] = << >> ELSE stack'[r] # << >>
      /\ \A q \in Readers \ {r} : at'[q] = at[q] /\ stack'[q] = stack[q]
  <2> HIDE DEF s
  <2>1. CASE rest = << >> /\ stack' = [stack EXCEPT ![r] = rest] /\ at' = [at EXCEPT ![r] = "failed"]
    BY <1>1, <1>3, <2>1 DEF ReaderPlaces
  <2>2. CASE rest # << >> /\ stack' = [stack EXCEPT ![r] = Advanced(rest)] /\ at' = [at EXCEPT ![r] = "work"]
    BY <1>1, <1>4, <2>2 DEF ReaderPlaces
  <2>3. CASE rest # << >> /\ stack' = [stack EXCEPT ![r] = rest] /\ at' = at
    BY <1>1, <1>3, <2>3
  <2> QED BY <1>5, <2>1, <2>2, <2>3
<1> QED BY <1>6

\* An error leaves the reads around it with their own locks.
LEMMA RaiseKeeps ==
  ASSUME ReadInvariant, NEW r \in Readers, Raise(r)
  PROVE  ReadInvariant'
<1>1. /\ stack[r] # << >> /\ UNCHANGED <<wish, valid, holds, open>> /\ Release(r) /\ holds \in [Caches -> Nat]
  BY DEF ReadInvariant, ReadTypes, Raise
<1>2. \A f : Hit(f)' = Hit(f)
  BY <1>1 DEF Hit
<1>3. /\ Shortened(stack[r], stack'[r], Len(stack[r]) - 1)
      /\ at' \in [Readers -> ReaderPlaces] /\ stack' \in [Readers -> Seq(FrameRecord)]
      /\ at'[r] = "failed" \/ stack'[r] # << >>
      /\ \A q \in Readers \ {r} : at'[q] = at[q] /\ stack'[q] = stack[q]
  BY Raised
<1>4. at'[r] \in {"test", "lock", "work", "request", "error", "exceeded"} => stack'[r] # << >>
  BY <1>3
<1> QED BY <1>1, <1>2, <1>3, <1>4, LeavingKeeps

-----------------------------------------------------------------------------

\* The inductive invariant of the cached reads.
LEMMA ReadInvariantHolds == ReadSpec => []ReadInvariant
<1>1. ReadInit => ReadInvariant
  <2> SUFFICES ASSUME ReadInit PROVE ReadInvariant
    OBVIOUS
  <2>1. << >> \in Seq(FrameRecord) /\ Len(<< >>) = 0
    OBVIOUS
  <2>2. wish \in [Readers -> [read : Reads, count : Nat \ {0}]]
    BY MixAssumption DEF ReadInit
  <2>3. ReadTypes
    BY <2>1, <2>2 DEF ReadInit, ReadTypes, ReaderPlaces
  <2>4. \A r \in Readers : stack[r] = << >>
    BY DEF ReadInit
  <2>5. ASSUME NEW r \in Readers
        PROVE  Nested(stack[r]) /\ Holding(r)
    <3>1. stack[r] = << >> /\ 1..Len(stack[r]) = {}
      BY <2>1, <2>4
    <3> QED BY <3>1 DEF Nested, Holding
  <2> QED BY <2>3, <2>5 DEF ReadInvariant
<1>2. ReadInvariant /\ [ReadNext]_readVars => ReadInvariant'
  <2> SUFFICES ASSUME ReadInvariant, [ReadNext]_readVars PROVE ReadInvariant'
    OBVIOUS
  <2>1. CASE UNCHANGED readVars
    <3>1. \A f : Hit(f)' = Hit(f)
      BY <2>1 DEF readVars, Hit
    <3>2. \A r \in Readers : Untouched(r)
      BY <2>1, <3>1 DEF Untouched, readVars
    <3>3. ReadTypes'
      BY <2>1 DEF ReadInvariant, ReadTypes, readVars
    <3> QED BY <3>2, <3>3, UntouchedHolds DEF ReadInvariant
  <2>2. ASSUME NEW k \in Caches, Expire(k) PROVE ReadInvariant'
    BY <2>2, ExpireKeeps
  <2>3. ASSUME NEW r \in Readers, Begin(r) \/ ReadStep(r) PROVE ReadInvariant'
    BY <2>3, BeginKeeps, TestKeeps, LockKeeps, GiveUpKeeps, WorkKeeps, ReplyKeeps, StoreKeeps, FailReadKeeps, RaiseKeeps
       DEF ReadStep
  <2> QED BY <2>1, <2>2, <2>3 DEF ReadNext
<1> QED BY <1>1, <1>2, PTL DEF ReadSpec

\* A request of a read with a lock is made by the reader that has the lock, for
\* an answer that is not cached.
LEMMA RequestsAreHeld ==
  ASSUME ReadInvariant, NEW r \in Readers, at[r] \in {"work", "request"}, Top(r).read \in Locked
  PROVE  lock[Top(r).read] = r /\ ~Hit(Top(r))
<1>1. /\ stack[r] # << >> /\ stack[r] \in Seq(FrameRecord) /\ Holding(r)
  BY DEF ReadInvariant, ReadTypes
<1>2. Len(stack[r]) \in 1..Len(stack[r])
  BY <1>1
<1> QED BY <1>1, <1>2 DEF Holding, KeepsLock, Top

\* A request is asked for by a read that works, and by nothing else.
LEMMA AskersWork ==
  ASSUME ReadInvariant, [ReadNext]_readVars, NEW r \in Readers, Asks(r)
  PROVE  at[r] = "work"
<1>1. at \in [Readers -> ReaderPlaces]
  BY DEF ReadInvariant, ReadTypes
<1>2. CASE UNCHANGED readVars
  BY <1>2 DEF Asks, readVars
<1>3. CASE \E k \in Caches : Expire(k)
  BY <1>3 DEF Asks, Expire
<1>4. ASSUME NEW q \in Readers, q # r, Begin(q) \/ ReadStep(q)
      PROVE  FALSE
  <2>1. at'[r] = at[r]
    BY <1>1, <1>4 DEF Begin, ReadStep, Test, Lock, GiveUp, Work, Reply, Store, FailRead, Raise, Return, Go
  <2> QED BY <2>1 DEF Asks
<1>5. CASE Begin(r)
  BY <1>1, <1>5 DEF Asks, Begin, Go
<1>6. CASE Test(r)
  <2>1. at' = [at EXCEPT ![r] = "done"] \/ at' = [at EXCEPT ![r] = "work"] \/ at' = [at EXCEPT ![r] = "lock"]
    BY <1>6 DEF Test, Return, Go
  <2> QED BY <1>1, <2>1 DEF Asks
<1>7. CASE Lock(r)
  <2>1. at' = [at EXCEPT ![r] = "done"] \/ at' = [at EXCEPT ![r] = "work"]
    BY <1>7 DEF Lock, Return, Go
  <2> QED BY <1>1, <2>1 DEF Asks
<1>8. CASE GiveUp(r)
  BY <1>1, <1>8 DEF Asks, GiveUp, Go
<1>9. CASE Work(r)
  BY <1>9 DEF Work
<1>10. CASE Reply(r)
  BY <1>1, <1>10 DEF Asks, Reply, Go
<1>11. CASE Store(r)
  BY <1>11 DEF Store
<1>12. CASE FailRead(r)
  BY <1>1, <1>12 DEF Asks, FailRead, Go
<1>13. CASE Raise(r)
  <2>1. at' = [at EXCEPT ![r] = "failed"] \/ at' = [at EXCEPT ![r] = "work"] \/ at' = at
    BY <1>13 DEF Raise, Go
  <2> QED BY <1>1, <2>1 DEF Asks
<1> QED BY <1>2, <1>3, <1>4, <1>5, <1>6, <1>7, <1>8, <1>9, <1>10, <1>11, <1>12, <1>13 DEF ReadNext, ReadStep

\* Readers share a request: whatever reads are asked for side by side, a request
\* for an answer that has a lock is made only when the answer is not cached, and
\* by one reader at a time.  The double test of every cached read of the client
\* (accounts.py and market_data.py) is what makes it so.
THEOREM ReadersShareRequests == ReadSpec => FetchesAreShared
<1> DEFINE Shared(r) == Asks(r) /\ Top(r).read \in Locked =>
             /\ ~Hit(Top(r))
             /\ \A q \in Readers \ {r} : at[q] = "request" => Top(q).read # Top(r).read
<1>1. ASSUME ReadInvariant, [ReadNext]_readVars, NEW r \in Readers
      PROVE  Shared(r)
  <2> SUFFICES ASSUME Asks(r), Top(r).read \in Locked
               PROVE  /\ ~Hit(Top(r))
                      /\ \A q \in Readers \ {r} : at[q] = "request" => Top(q).read # Top(r).read
    OBVIOUS
  <2>1. lock[Top(r).read] = r /\ ~Hit(Top(r))
    BY <1>1, AskersWork, RequestsAreHeld
  <2>2. ASSUME NEW q \in Readers \ {r}, at[q] = "request", Top(q).read = Top(r).read
        PROVE  FALSE
    <3>1. lock[Top(q).read] = q
      BY <1>1, <2>2, RequestsAreHeld
    <3> QED BY <2>1, <2>2, <3>1
  <2> QED BY <2>1, <2>2
<1>2. ReadInvariant /\ [ReadNext]_readVars => [\A r \in Readers : Asks(r) /\ Top(r).read \in Locked =>
       /\ ~Hit(Top(r))
       /\ \A q \in Readers \ {r} : at[q] = "request" => Top(q).read # Top(r).read]_readVars
  BY <1>1
<1> QED BY <1>2, ReadInvariantHolds, PTL DEF ReadSpec, FetchesAreShared

-----------------------------------------------------------------------------
(* The order of the locks                                                   *)

\* A reader has a lock only for a read on its stack that has got it.
HasRead(r, k) ==
  \E i \in 1..Len(stack[r]) : stack[r][i].read = k /\ (i < Len(stack[r]) \/ at[r] \notin {"test", "lock"})
OrderOf(r) ==
  /\ \A k \in Locked : lock[k] = r => HasRead(r, k)
  /\ at[r] \in {"idle", "done", "failed"} => stack[r] = << >>
LocksHaveReads == \A r \in Readers : OrderOf(r)

\* A reader that waits for a lock waits for one of a lower level than all those
\* it has, and who is through has none.
WaitsGoDown ==
  \A r \in Readers : \A k \in Locked : lock[k] = r =>
    /\ at[r] \notin {"idle", "done", "failed"}
    /\ at[r] = "lock" => Level(Top(r).read) < Level(k)

\* A read that ends leaves the reads around it, and so their locks.
LEMMA ReadsStay ==
  ASSUME NEW r \in Readers, NEW n \in Nat, NEW k, Len(stack[r]) \in {n, n + 1},
         Shortened(stack[r], stack'[r], n), HasRead(r, k),
         n < Len(stack[r]) => k # Top(r).read \/ at[r] \in {"test", "lock"},
         at'[r] \in {"test", "lock"} => n = Len(stack[r]) /\ at[r] \in {"test", "lock"}
  PROVE  HasRead(r, k)'
<1>1. PICK i \in 1..Len(stack[r]) : stack[r][i].read = k /\ (i < Len(stack[r]) \/ at[r] \notin {"test", "lock"})
  BY DEF HasRead
<1>2. Len(stack'[r]) = n /\ \A j \in 1..n : stack'[r][j].read = stack[r][j].read
  BY DEF Shortened
<1>3. i \in 1..n
  <2>1. CASE n = Len(stack[r])
    BY <1>1, <2>1
  <2>2. CASE Len(stack[r]) = n + 1
    <3>1. i # Len(stack[r])
      BY <1>1, <2>2 DEF Top
    <3> QED BY <1>1, <2>2, <3>1
  <2> QED BY <2>1, <2>2
<1>4. i < n \/ at'[r] \notin {"test", "lock"}
  BY <1>1, <1>3
<1> QED BY <1>1, <1>2, <1>3, <1>4 DEF HasRead

\* Who does nothing keeps its order when it gets no lock.
LEMMA OthersInOrder ==
  ASSUME LocksHaveReads, NEW q \in Readers, stack'[q] = stack[q], at'[q] = at[q],
         \A k \in Locked : lock'[k] = q => lock[k] = q
  PROVE  OrderOf(q)'
BY DEF LocksHaveReads, OrderOf, HasRead

\* A read that returns has left its own lock, and the reader keeps the others.
LEMMA ReturnKeepsOrder ==
  ASSUME ReadInvariant, LocksHaveReads, NEW r \in Readers, stack[r] # << >>, Return(r),
         \A k \in Locked : lock'[k] = r => lock[k] = r /\ (k # Top(r).read \/ at[r] \in {"test", "lock"}),
         \A q \in Readers \ {r} : \A k \in Locked : lock'[k] = q => lock[k] = q
  PROVE  LocksHaveReads'
<1> DEFINE n == Len(stack[r]) - 1
<1>1. /\ Shortened(stack[r], stack'[r], n)
      /\ Len(stack[r]) \in Nat \ {0}
      /\ at'[r] \in {"done", "work"}
      /\ \A q \in Readers \ {r} : at'[q] = at[q] /\ stack'[q] = stack[q]
  BY Returned
<1>2. n \in Nat /\ Len(stack[r]) \in {n, n + 1}
  BY <1>1
<1>3. at'[r] = "done" => stack'[r] = << >>
  <2>1. /\ at \in [Readers -> ReaderPlaces] /\ stack \in [Readers -> Seq(FrameRecord)]
    BY DEF ReadInvariant, ReadTypes
  <2> QED BY <2>1 DEF Return, Go
<1> HIDE DEF n
<1>4. ASSUME NEW k \in Locked, lock'[k] = r PROVE HasRead(r, k)'
  <2>1. HasRead(r, k)
    BY <1>4 DEF LocksHaveReads, OrderOf
  <2> QED BY <1>1, <1>2, <1>4, <2>1, ReadsStay
<1>5. OrderOf(r)'
  BY <1>1, <1>3, <1>4 DEF OrderOf
<1>6. \A q \in Readers \ {r} : OrderOf(q)'
  BY <1>1, OthersInOrder
<1> QED BY <1>5, <1>6 DEF LocksHaveReads

\* A reader that only moves on has the same locks.
LEMMA MoveKeepsOrder ==
  ASSUME ReadInvariant, LocksHaveReads, NEW r \in Readers, UNCHANGED <<stack, lock>>, NEW place \in ReaderPlaces, Go(r, place),
         place \notin {"test", "idle", "done", "failed"}, place = "lock" => at[r] = "test"
  PROVE  LocksHaveReads'
<1>1. at \in [Readers -> ReaderPlaces] /\ at' = [at EXCEPT ![r] = place]
  BY DEF ReadInvariant, ReadTypes, Go
<1>2. at'[r] = place
  BY <1>1
<1>3. ASSUME NEW k \in Locked, lock[k] = r PROVE HasRead(r, k)'
  <2>1. HasRead(r, k)
    BY <1>3 DEF LocksHaveReads, OrderOf
  <2> QED BY <1>2, <2>1 DEF HasRead
<1>4. OrderOf(r)'
  BY <1>2, <1>3 DEF OrderOf
<1>5. \A q \in Readers \ {r} : OrderOf(q)'
  BY <1>1, OthersInOrder
<1> QED BY <1>4, <1>5 DEF LocksHaveReads

\* What a step of r leaves alone of the others, when it takes no lock of theirs.
LEMMA OthersKeepOrder ==
  ASSUME LocksHaveReads, NEW r \in Readers,
         \A q \in Readers \ {r} : at'[q] = at[q] /\ stack'[q] = stack[q],
         \A q \in Readers \ {r} : \A k \in Locked : lock'[k] = q => lock[k] = q
  PROVE  \A q \in Readers \ {r} : OrderOf(q)'
BY OthersInOrder

LEMMA BeginKeepsOrder ==
  ASSUME ReadInvariant, LocksHaveReads, NEW r \in Readers, Begin(r)
  PROVE  LocksHaveReads'
<1>1. /\ at \in [Readers -> ReaderPlaces] /\ stack \in [Readers -> Seq(FrameRecord)] /\ lock' = lock
      /\ at' = [at EXCEPT ![r] = "test"] /\ at[r] = "idle"
      /\ stack' = [stack EXCEPT ![r] = <<Frame(wish[r].read, wish[r].count)>>]
  BY DEF ReadInvariant, ReadTypes, Begin, Go
<1>2. at'[r] = "test" /\ \A q \in Readers \ {r} : at'[q] = at[q] /\ stack'[q] = stack[q]
  BY <1>1
<1>3. \A k \in Locked : lock[k] # r
  <2>1. stack[r] = << >>
    BY <1>1 DEF LocksHaveReads, OrderOf
  <2>2. 1..Len(stack[r]) = {}
    BY <2>1
  <2> QED BY <2>2 DEF LocksHaveReads, OrderOf, HasRead
<1>4. OrderOf(r)'
  BY <1>1, <1>2, <1>3 DEF OrderOf
<1>5. \A q \in Readers \ {r} : OrderOf(q)'
  BY <1>1, <1>2, OthersKeepOrder
<1> QED BY <1>4, <1>5 DEF LocksHaveReads

LEMMA TestKeepsOrder ==
  ASSUME ReadInvariant, LocksHaveReads, NEW r \in Readers, Test(r)
  PROVE  LocksHaveReads'
<1>1. stack[r] # << >> /\ lock' = lock /\ at[r] = "test"
  BY DEF ReadInvariant, ReadTypes, Test
<1>2. CASE Return(r)
  BY <1>1, <1>2, ReturnKeepsOrder
<1>3. CASE UNCHANGED stack /\ Go(r, "lock")
  BY <1>1, <1>3, MoveKeepsOrder DEF ReaderPlaces
<1>4. CASE UNCHANGED stack /\ Go(r, "work")
  BY <1>1, <1>4, MoveKeepsOrder DEF ReaderPlaces
<1> QED BY <1>2, <1>3, <1>4 DEF Test

LEMMA LockKeepsOrder ==
  ASSUME ReadInvariant, LocksHaveReads, NEW r \in Readers, Lock(r)
  PROVE  LocksHaveReads'
<1>1. /\ stack[r] # << >> /\ at[r] = "lock" /\ at \in [Readers -> ReaderPlaces]
      /\ stack \in [Readers -> Seq(FrameRecord)] /\ lock \in [Locked -> Readers \cup {NoReader}]
  BY DEF ReadInvariant, ReadTypes, Lock
<1>2. CASE Return(r) /\ UNCHANGED lock
  BY <1>1, <1>2, ReturnKeepsOrder
<1>3. CASE lock' = [lock EXCEPT ![Top(r).read] = r] /\ Go(r, "work") /\ UNCHANGED stack
  <2>1. at' = [at EXCEPT ![r] = "work"] /\ at'[r] = "work" /\ stack' = stack
        /\ \A q \in Readers \ {r} : at'[q] = at[q] /\ stack'[q] = stack[q]
    BY <1>1, <1>3 DEF Go
  <2>2. \A k \in Locked : lock'[k] = IF k = Top(r).read THEN r ELSE lock[k]
    BY <1>1, <1>3
  <2>3. Len(stack[r]) \in 1..Len(stack[r])
    BY <1>1
  <2>4. ASSUME NEW k \in Locked, lock'[k] = r PROVE HasRead(r, k)'
    <3>1. CASE k = Top(r).read
      BY <2>1, <2>3, <3>1 DEF HasRead, Top
    <3>2. CASE k # Top(r).read
      <4>1. HasRead(r, k)
        BY <2>2, <2>4, <3>2 DEF LocksHaveReads, OrderOf
      <4> QED BY <2>1, <4>1 DEF HasRead
    <3> QED BY <3>1, <3>2
  <2>5. OrderOf(r)'
    BY <2>1, <2>4 DEF OrderOf
  <2>6. \A q \in Readers \ {r} : \A k \in Locked : lock'[k] = q => lock[k] = q
    BY <2>2
  <2>7. \A q \in Readers \ {r} : OrderOf(q)'
    BY <2>1, <2>6, OthersKeepOrder
  <2> QED BY <2>5, <2>7 DEF LocksHaveReads
<1> QED BY <1>2, <1>3 DEF Lock

LEMMA WorkKeepsOrder ==
  ASSUME ReadInvariant, LocksHaveReads, NEW r \in Readers, Work(r)
  PROVE  LocksHaveReads'
<1>1. /\ stack[r] # << >> /\ at[r] = "work" /\ lock' = lock /\ at \in [Readers -> ReaderPlaces]
      /\ stack \in [Readers -> Seq(FrameRecord)]
  BY DEF ReadInvariant, ReadTypes, Work
<1>2. CASE Go(r, "request") /\ UNCHANGED stack
  BY <1>1, <1>2, MoveKeepsOrder DEF ReaderPlaces
<1>3. CASE Go(r, "test") /\ stack' = [stack EXCEPT ![r] = Append(@, Frame(Parts(Top(r))[Top(r).step], 1))]
  <2> DEFINE f == Frame(Parts(Top(r))[Top(r).step], 1)
  <2>1. at' = [at EXCEPT ![r] = "test"] /\ stack' = [stack EXCEPT ![r] = Append(stack[r], f)]
    BY <1>3 DEF Go
  <2> HIDE DEF f
  <2>2. at'[r] = "test" /\ stack'[r] = Append(stack[r], f)
        /\ \A q \in Readers \ {r} : at'[q] = at[q] /\ stack'[q] = stack[q]
    BY <1>1, <2>1
  <2>3. Len(stack[r]) \in Nat /\ Len(stack'[r]) = Len(stack[r]) + 1
        /\ \A i \in 1..Len(stack[r]) : stack'[r][i] = stack[r][i]
    BY <1>1, <2>2
  <2>4. ASSUME NEW k \in Locked, lock[k] = r PROVE HasRead(r, k)'
    <3>1. HasRead(r, k)
      BY <2>4 DEF LocksHaveReads, OrderOf
    <3>2. PICK i \in 1..Len(stack[r]) : stack[r][i].read = k
      BY <3>1 DEF HasRead
    <3>3. i \in 1..Len(stack'[r]) /\ i < Len(stack'[r]) /\ stack'[r][i].read = k
      BY <2>3, <3>2
    <3> QED BY <3>3 DEF HasRead
  <2>5. OrderOf(r)'
    BY <1>1, <2>2, <2>4 DEF OrderOf
  <2>6. \A q \in Readers \ {r} : OrderOf(q)'
    BY <1>1, <2>2, OthersKeepOrder
  <2> QED BY <2>5, <2>6 DEF LocksHaveReads
<1> QED BY <1>2, <1>3 DEF Work

LEMMA ReplyKeepsOrder ==
  ASSUME ReadInvariant, LocksHaveReads, NEW r \in Readers, Reply(r)
  PROVE  LocksHaveReads'
<1>1. /\ at[r] = "request" /\ lock' = lock /\ at \in [Readers -> ReaderPlaces]
  BY DEF ReadInvariant, ReadTypes, Reply
<1>2. /\ Len(stack[r]) \in Nat /\ Shortened(stack[r], stack'[r], Len(stack[r]))
      /\ at'[r] = "work"
      /\ \A q \in Readers \ {r} : at'[q] = at[q] /\ stack'[q] = stack[q]
  BY Replied
<1>3. ASSUME NEW k \in Locked, lock[k] = r PROVE HasRead(r, k)'
  <2>1. HasRead(r, k)
    BY <1>3 DEF LocksHaveReads, OrderOf
  <2> QED BY <1>2, <2>1, ReadsStay
<1>4. OrderOf(r)'
  BY <1>1, <1>2, <1>3 DEF OrderOf
<1>5. \A q \in Readers \ {r} : OrderOf(q)'
  BY <1>1, <1>2, OthersKeepOrder
<1> QED BY <1>4, <1>5 DEF LocksHaveReads

LEMMA StoreKeepsOrder ==
  ASSUME ReadInvariant, LocksHaveReads, NEW r \in Readers, Store(r)
  PROVE  LocksHaveReads'
<1>1. stack[r] # << >> /\ at[r] = "work" /\ Release(r) /\ Return(r)
  BY DEF ReadInvariant, ReadTypes, Store
<1>2. \A k \in Locked : lock'[k] = IF k = Top(r).read /\ lock[k] = r THEN NoReader ELSE lock[k]
  BY <1>1 DEF Release
<1>3. /\ \A k \in Locked : lock'[k] = r => lock[k] = r /\ k # Top(r).read
      /\ \A q \in Readers \ {r} : \A k \in Locked : lock'[k] = q => lock[k] = q
  BY <1>2, ReadAssumption
<1> QED BY <1>1, <1>3, ReturnKeepsOrder

LEMMA RaiseKeepsOrder ==
  ASSUME ReadInvariant, LocksHaveReads, NEW r \in Readers, Raise(r)
  PROVE  LocksHaveReads'
<1>1. stack[r] # << >> /\ Release(r) /\ at[r] \in {"error", "exceeded"} /\ stack[r] \in Seq(FrameRecord)
  BY DEF ReadInvariant, ReadTypes, Raise
<1>2. Len(stack[r]) - 1 \in Nat /\ Len(stack[r]) \in Nat
  BY <1>1
<1>3. \A k \in Locked : lock'[k] = IF k = Top(r).read /\ lock[k] = r THEN NoReader ELSE lock[k]
  BY <1>1 DEF Release
<1>4. /\ \A k \in Locked : lock'[k] = r => lock[k] = r /\ k # Top(r).read
      /\ \A q \in Readers \ {r} : \A k \in Locked : lock'[k] = q => lock[k] = q
  BY <1>3, ReadAssumption
<1>5. /\ Shortened(stack[r], stack'[r], Len(stack[r]) - 1)
      /\ at'[r] \in {"failed", "work", "error", "exceeded"} /\ (at'[r] = "failed" => stack'[r] = << >>)
      /\ \A q \in Readers \ {r} : at'[q] = at[q] /\ stack'[q] = stack[q]
  BY Raised
<1>6. ASSUME NEW k \in Locked, lock'[k] = r PROVE HasRead(r, k)'
  <2>1. HasRead(r, k) /\ k # Top(r).read
    BY <1>4, <1>6 DEF LocksHaveReads, OrderOf
  <2> DEFINE n == Len(stack[r]) - 1
  <2>2. n \in Nat /\ Len(stack[r]) \in {n, n + 1} /\ Shortened(stack[r], stack'[r], n)
    BY <1>2, <1>5
  <2> HIDE DEF n
  <2> QED BY <1>5, <2>1, <2>2, ReadsStay
<1>7. OrderOf(r)'
  BY <1>5, <1>6 DEF OrderOf
<1>8. \A q \in Readers \ {r} : OrderOf(q)'
  BY <1>4, <1>5, OthersKeepOrder
<1> QED BY <1>7, <1>8 DEF LocksHaveReads

\* The locks in the beginning, and after every step.
LEMMA LocksAreInOrder == ReadSpec => []LocksHaveReads
<1>1. ReadInit => LocksHaveReads
  BY ReadAssumption DEF ReadInit, LocksHaveReads, OrderOf
<1>2. ReadInvariant /\ LocksHaveReads /\ [ReadNext]_readVars => LocksHaveReads'
  <2> SUFFICES ASSUME ReadInvariant, LocksHaveReads, [ReadNext]_readVars PROVE LocksHaveReads'
    OBVIOUS
  <2>1. CASE UNCHANGED readVars
    BY <2>1 DEF readVars, LocksHaveReads, OrderOf, HasRead
  <2>2. ASSUME NEW k \in Caches, Expire(k) PROVE LocksHaveReads'
    BY <2>2 DEF Expire, LocksHaveReads, OrderOf, HasRead
  <2>3. ASSUME NEW r \in Readers, GiveUp(r) \/ FailRead(r) PROVE LocksHaveReads'
    <3>1. UNCHANGED <<stack, lock>> /\ (Go(r, "error") \/ Go(r, "exceeded"))
      BY <2>3 DEF GiveUp, FailRead
    <3>2. CASE Go(r, "error")
      BY <3>1, <3>2, MoveKeepsOrder DEF ReaderPlaces
    <3>3. CASE Go(r, "exceeded")
      BY <3>1, <3>3, MoveKeepsOrder DEF ReaderPlaces
    <3> QED BY <3>1, <3>2, <3>3
  <2>4. ASSUME NEW r \in Readers, Begin(r) \/ ReadStep(r) PROVE LocksHaveReads'
    BY <2>3, <2>4, BeginKeepsOrder, TestKeepsOrder, LockKeepsOrder, WorkKeepsOrder, ReplyKeepsOrder, StoreKeepsOrder,
       RaiseKeepsOrder DEF ReadStep
  <2> QED BY <2>1, <2>2, <2>4 DEF ReadNext
<1> QED BY <1>1, <1>2, ReadInvariantHolds, PTL DEF ReadSpec

\* Locks are taken in one order and left behind by nobody: a reader waits for a
\* lock of a lower level than all those it has, so that no readers wait for each
\* other in a circle, and a reader that is through - with an answer, an error or
\* an exceeded budget - has no lock.  This is the part of ReadsEnd that needs no
\* fairness, for any readers and whatever they read side by side.
THEOREM NobodyWaitsInACircle == ReadSpec => []WaitsGoDown
<1>1. ReadInvariant /\ LocksHaveReads => WaitsGoDown
  <2> SUFFICES ASSUME ReadInvariant, LocksHaveReads, NEW r \in Readers, NEW k \in Locked, lock[k] = r
               PROVE  /\ at[r] \notin {"idle", "done", "failed"}
                      /\ at[r] = "lock" => Level(Top(r).read) < Level(k)
    BY DEF WaitsGoDown
  <2>1. HasRead(r, k)
    BY DEF LocksHaveReads, OrderOf
  <2>2. PICK i \in 1..Len(stack[r]) : stack[r][i].read = k /\ (i < Len(stack[r]) \/ at[r] \notin {"test", "lock"})
    BY <2>1 DEF HasRead
  <2>3. stack[r] \in Seq(FrameRecord) /\ Nested(stack[r])
    BY DEF ReadInvariant, ReadTypes
  <2>4. stack[r] # << >>
    <3>1. Len(stack[r]) # 0
      BY <2>2, <2>3
    <3> QED BY <3>1
  <2>5. at[r] \notin {"idle", "done", "failed"}
    BY <2>4 DEF LocksHaveReads, OrderOf
  <2>6. ASSUME at[r] = "lock"
        PROVE  Level(Top(r).read) < Level(k)
    <3>1. i < Len(stack[r]) /\ Len(stack[r]) \in 1..Len(stack[r])
      BY <2>2, <2>3, <2>6
    <3> QED BY <2>2, <2>3, <3>1 DEF Nested, Top
  <2> QED BY <2>5, <2>6
<1> QED BY <1>1, ReadInvariantHolds, LocksAreInOrder, PTL
===============================================================================
