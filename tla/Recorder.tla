------------------------------- MODULE Recorder -------------------------------
(***************************************************************************)
(* The two recorders that keep evidence of strategy decisions:               *)
(* StrategyDecisionRecorder (auto_trader/ml/decision_pipeline.py) and        *)
(* StrategyCandidateRecorder (auto_trader/ml/candidate_pipeline.py).  The     *)
(* worker of an engine puts rows on a bounded queue in memory; a task takes    *)
(* them in batches to a thread that inserts them; lifespan starts the task     *)
(* and, when the engines have stopped, stops it and drains the queue.          *)
(*                                                                         *)
(* The two share their queue and differ in how they put a failed batch back    *)
(* and in how they stop: kind says which one a behaviour is about.             *)
(***************************************************************************)
EXTENDS Integers, Sequences, FiniteSets, Functions

CONSTANTS
  Kinds,      \* which recorders to look at
  BatchSize,  \* batch_size
  MaxQueue,   \* max_queue
  MaxRows,    \* bound: rows that the engines record
  MaxFaults   \* bound: writes that fail or lose their acknowledgement

ASSUME RecorderAssumption ==
  /\ Kinds \subseteq {"decision", "candidate"}
  /\ BatchSize \in Nat \ {0}
  /\ MaxQueue \in Nat \ {0}
  /\ MaxRows \in Nat
  /\ MaxFaults \in Nat

VARIABLES
  kind,     \* the recorder
  phase,    \* of its task and of stop()
  made,     \* how many rows the engines have recorded: row n is the n-th
  queue,    \* _queue
  batch,    \* the rows that flush has taken and whose write it awaits
  write,    \* the thread of that write
  fresh,    \* how many rows that write inserted
  orphan,   \* the rows of a write that nobody awaits any more
  saved,    \* _saved
  dropped,  \* the rows that _dropped counts
  db,       \* the rows in the table: their key is unique there
  faults    \* history: writes that failed

recorderVars == <<kind, phase, made, queue, batch, write, fresh, orphan, saved, dropped, db, faults>>
buffers == <<queue, batch, write, fresh, orphan>>

Rows == 1..MaxRows
Held == Range(queue) \cup Range(batch) \cup Range(orphan)
Lost == (1..made) \ (Held \cup dropped \cup db)

RecorderInit ==
  /\ kind \in Kinds
  /\ phase = "off" /\ made = 0
  /\ queue = <<>> /\ batch = <<>> /\ write = "none" /\ fresh = 0 /\ orphan = <<>>
  /\ saved = 0 /\ dropped = {} /\ db = {} /\ faults = 0

-----------------------------------------------------------------------------
(* The queue.                                                                *)

\* Whether a row is valid is up to its fields; an invalid one is counted.
Record(valid) ==
  /\ phase = "running" /\ made < MaxRows
  /\ made' = made + 1
  /\ \/ valid /\ Len(queue) < MaxQueue /\ queue' = Append(queue, made') /\ UNCHANGED dropped
     \/ (~valid \/ Len(queue) >= MaxQueue) /\ dropped' = dropped \cup {made'} /\ UNCHANGED queue
  /\ UNCHANGED <<kind, phase, batch, write, fresh, orphan, saved, db, faults>>

Size == IF Len(queue) < BatchSize THEN Len(queue) ELSE BatchSize

\* flush() up to its await; the task calls it when its wait has timed out,
\* stop() calls it until the queue is empty.
TakeBatch ==
  /\ phase \in {"running", "draining"} /\ write = "none" /\ queue # <<>>
  /\ batch' = SubSeq(queue, 1, Size)
  /\ queue' = SubSeq(queue, Size + 1, Len(queue))
  /\ write' = "busy"
  /\ UNCHANGED <<kind, phase, made, fresh, orphan, saved, dropped, db, faults>>

Insert(rows) == db' = db \cup rows

Inserted(rows) == Cardinality(rows \ db)

\* The transaction of a batch: it commits, or fails, or commits and loses the
\* acknowledgement.
Commit ==
  /\ write = "busy" /\ write' = "saved"
  /\ Insert(Range(batch)) /\ fresh' = Inserted(Range(batch))
  /\ UNCHANGED <<kind, phase, made, queue, batch, orphan, saved, dropped, faults>>

Fail ==
  /\ write = "busy" /\ faults < MaxFaults
  /\ write' = "failed" /\ faults' = faults + 1
  /\ \/ UNCHANGED db
     \/ Insert(Range(batch))
  /\ UNCHANGED <<kind, phase, made, queue, batch, fresh, orphan, saved, dropped>>

-----------------------------------------------------------------------------
(* The rest of flush().                                                      *)

FirstRows(rows) == IF Len(rows) > MaxQueue THEN SubSeq(rows, 1, MaxQueue) ELSE rows
LastRows(rows) == IF Len(rows) > MaxQueue THEN SubSeq(rows, MaxQueue + 1, Len(rows)) ELSE <<>>

\* Variant: the failed batch is forgotten.
RestoreNothing == UNCHANGED <<queue, dropped>>

\* _restore_batch, and what the candidate recorder does instead.
Restore ==
  \/ kind = "decision" /\ queue' = batch \o queue /\ UNCHANGED dropped
  \/ /\ kind = "candidate"
     /\ queue' = FirstRows(batch \o queue)
     /\ dropped' = dropped \cup Range(LastRows(batch \o queue))

\* Variants: stop() flushes once; a failed flush ends the task.
AfterOnce(rows) == IF phase = "running" THEN phase ELSE IF phase = "stopping" THEN "draining" ELSE "ended"
AfterFailing(rows) ==
  CASE phase = "draining" -> IF rows = 0 THEN "ended" ELSE "draining"
    [] phase = "stopping" -> "draining"
    [] OTHER -> IF rows = 0 THEN "off" ELSE phase

\* stop() gives up draining when a flush has saved nothing; the task of the
\* candidate recorder looks at _stopping after every flush.
After(rows) ==
  CASE phase = "draining" -> IF rows = 0 THEN "ended" ELSE "draining"
    [] phase = "stopping" -> "draining"
    [] OTHER -> phase

FlushSaved ==
  /\ write = "saved"
  /\ saved' = saved + fresh /\ phase' = After(fresh)
  /\ batch' = <<>> /\ write' = "none" /\ fresh' = 0
  /\ UNCHANGED <<kind, made, queue, orphan, dropped, db, faults>>

FlushFailed ==
  /\ write = "failed"
  /\ Restore /\ phase' = After(0)
  /\ batch' = <<>> /\ write' = "none"
  /\ UNCHANGED <<kind, made, fresh, orphan, saved, db, faults>>

-----------------------------------------------------------------------------
(* start() and stop(); the engines have ended when lifespan calls stop().    *)

Start ==
  /\ phase = "off" /\ phase' = "running"
  /\ UNCHANGED <<kind, made, buffers, saved, dropped, db, faults>>

\* The candidate recorder lets its task finish the flush.
StopCandidate ==
  /\ kind = "candidate" /\ phase = "running"
  /\ phase' = IF write = "none" THEN "draining" ELSE "stopping"
  /\ UNCHANGED <<kind, made, buffers, saved, dropped, db, faults>>

\* The decision recorder cancels its task: the flush is abandoned at its await,
\* and the thread goes on by itself.
StopDecision ==
  /\ kind = "decision" /\ phase = "running"
  /\ phase' = "draining"
  /\ orphan' = IF write = "busy" THEN batch ELSE <<>>
  /\ batch' = <<>> /\ write' = "none" /\ fresh' = 0
  /\ UNCHANGED <<kind, made, queue, saved, dropped, db, faults>>

OrphanEnds ==
  /\ orphan # <<>> /\ orphan' = <<>>
  /\ \/ Insert(Range(orphan)) /\ UNCHANGED faults
     \/ faults < MaxFaults /\ faults' = faults + 1 /\ UNCHANGED db
  /\ UNCHANGED <<kind, phase, made, queue, batch, write, fresh, saved, dropped>>

Drained ==
  /\ phase = "draining" /\ write = "none" /\ queue = <<>>
  /\ phase' = "ended"
  /\ UNCHANGED <<kind, made, buffers, saved, dropped, db, faults>>

-----------------------------------------------------------------------------

RecorderNext ==
  \/ \E valid \in BOOLEAN : Record(valid)
  \/ TakeBatch \/ Commit \/ Fail \/ FlushSaved \/ FlushFailed
  \/ Start \/ StopCandidate \/ StopDecision \/ OrphanEnds \/ Drained

RecorderSpec == RecorderInit /\ [][RecorderNext]_recorderVars

\* The event loop runs the task when its wait is over and resumes a flush whose
\* thread has ended; a statement ends.  Nothing makes anybody start or stop.
RecorderFairness ==
  /\ WF_recorderVars(TakeBatch) /\ WF_recorderVars(Commit \/ Fail)
  /\ WF_recorderVars(FlushSaved \/ FlushFailed)
  /\ WF_recorderVars(OrphanEnds) /\ WF_recorderVars(Drained)

-----------------------------------------------------------------------------

\* Types, and the limits of memory: the queue of the candidate recorder never
\* exceeds max_queue; that of the decision recorder exceeds it by the one batch
\* that a failed flush puts back, and never by more.
RecorderTypeOK ==
  /\ kind \in Kinds
  /\ phase \in {"off", "running", "stopping", "draining", "ended"}
  /\ made \in 0..MaxRows /\ faults \in 0..MaxFaults
  /\ queue \in Seq(Rows) /\ batch \in Seq(Rows) /\ orphan \in Seq(Rows)
  /\ Len(batch) <= BatchSize /\ Len(orphan) <= BatchSize
  /\ Len(queue) <= IF kind = "candidate" THEN MaxQueue ELSE MaxQueue + BatchSize
  /\ write \in {"none", "busy", "saved", "failed"}
  /\ fresh \in 0..BatchSize /\ saved \in Nat
  /\ dropped \subseteq Rows /\ db \subseteq Rows

\* stop() saves everything that was accepted when no write failed: what is not
\* in the table was counted as dropped, or is still being written by the thread
\* that the decision recorder has left behind.
CleanStopSavesAll ==
  phase = "ended" /\ faults = 0 => 1..made \subseteq db \cup dropped \cup Range(orphan)

\* A row on the queue gets into the table or is counted, unless stop() has ended.
RowsSettle ==
  \A r \in Rows : r \in Range(queue) ~> r \in db \cup dropped \/ phase = "ended"

-----------------------------------------------------------------------------

\* What both recorders promise (see RecorderPromise).
Promise == INSTANCE RecorderPromise WITH
  Rows <- Rows,
  offered <- 1..made,
  refused <- dropped \ db,
  stored <- db,
  abandoned <- Lost,
  mayAbandon <- kind = "decision" /\ phase \in {"draining", "ended"}

\* Every row is kept until it is stored or counted as refused; a stored row
\* stays; only a decision recorder that is being stopped may lose rows, and
\* only those of the write it no longer awaits.
KeepsPromise == Promise!Spec
===============================================================================
