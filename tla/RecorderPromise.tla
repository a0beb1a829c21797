---------------------------- MODULE RecorderPromise ----------------------------
(***************************************************************************)
(* What a recorder promises to an engine, without queues, batches, threads or  *)
(* tasks: a row that was offered waits until it is stored or refused, and is    *)
(* abandoned only when the recorder may abandon rows.                          *)
(***************************************************************************)
EXTENDS Integers

CONSTANT Rows

VARIABLES
  offered,    \* the rows the engines have recorded
  refused,    \* counted as dropped
  stored,     \* in the table
  abandoned,  \* in no place any more
  mayAbandon  \* whether the recorder may abandon rows from now on

vars == <<offered, refused, stored, abandoned, mayAbandon>>

Waiting == offered \ (refused \cup stored \cup abandoned)

Init ==
  /\ offered = {} /\ refused = {} /\ stored = {} /\ abandoned = {}
  /\ mayAbandon = FALSE

\* A row is taken, or refused at once.
Offer ==
  \E r \in Rows \ offered :
    /\ offered' = offered \cup {r}
    /\ refused' \in {refused, refused \cup {r}}
    /\ UNCHANGED <<stored, abandoned, mayAbandon>>

Store ==
  \E rows \in SUBSET Waiting :
    /\ stored' = stored \cup rows
    /\ UNCHANGED <<offered, refused, abandoned, mayAbandon>>

\* Rows that waited are refused after all: the queue is full again.
Refuse ==
  \E rows \in SUBSET Waiting :
    /\ refused' = refused \cup rows
    /\ UNCHANGED <<offered, stored, abandoned, mayAbandon>>

\* The recorder is stopped without waiting for its last write.
Leave ==
  /\ ~mayAbandon /\ mayAbandon'
  /\ \E rows \in SUBSET Waiting : abandoned' = abandoned \cup rows
  /\ UNCHANGED <<offered, refused, stored>>

Abandon ==
  /\ mayAbandon
  /\ \E rows \in SUBSET Waiting : abandoned' = abandoned \cup rows
  /\ UNCHANGED <<offered, refused, stored, mayAbandon>>

Next == Offer \/ Store \/ Refuse \/ Leave \/ Abandon

Spec == Init /\ [][Next]_vars
===============================================================================
