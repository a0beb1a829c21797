------------------------------ MODULE QuoteStream ------------------------------
(***************************************************************************)
(* Live quotes for the browser (auto_trader/quote_stream.py and the two       *)
(* event streams of api/market.py).  A workspace has one stream at a time.    *)
(* Viewers register queues of length one with it; a task keeps one socket to  *)
(* the broker while there are viewers.  A change of the broker connection     *)
(* (services/connection_service.py) closes the stream and puts another in its *)
(* place.  Everything runs on one event loop: an action is what runs between  *)
(* two awaits.                                                             *)
(***************************************************************************)
EXTENDS Integers, FiniteSets, Sequences, SequencesExt

CONSTANTS
  Viewers,
  Codes,
  Wishes,      \* what viewers may ask for side by side: stocks, in order
  Limit,       \* stocks one stream may ask for, 100 in the code
  Nobody,
  Streams,     \* 1..n: the workspace's streams, one after the other
  MaxTroubles  \* bound on lost connections and revoked tokens

ASSUME StreamAssumption ==
  /\ Nobody \notin Viewers
  /\ Wishes \subseteq [Viewers -> Seq(Codes)]
  /\ Limit \in Nat \ {0} /\ MaxTroubles \in Nat
  /\ Streams \subseteq Nat /\ 1 \in Streams

VARIABLES
  wanted,     \* the stocks of each viewer
  current,    \* the workspace's stream
  listeners,  \* per stream, pairs of a stock and a viewer
  changed,    \* per stream: the broker must be told of the stocks
  task,       \* per stream, the task it holds, named after the viewer that began it
  tasks,      \* those tasks: their stream, where they are, what they asked for
  viewer,     \* a viewer's place, and the task it waits for when it leaves
  view,       \* the newest frame of a pair, and whether it is still in the queue
  change,     \* the connection change: its place and the task it waits for
  token,      \* per stream, the token its client holds
  troubles

quoteVars == <<wanted, current, listeners, changed, task, tasks, viewer, view, change, token, troubles>>

-----------------------------------------------------------------------------

Pairs == Codes \X Viewers
Heard(s) == {p[1] : p \in listeners[s]}

Blank == [frame |-> "none", unread |-> FALSE]
Unborn == [stream |-> 0, at |-> "unborn", told |-> {}]

QuoteInit ==
  /\ wanted \in Wishes
  /\ current = 1
  /\ listeners = [s \in Streams |-> {}]
  /\ changed = [s \in Streams |-> TRUE]
  /\ task = [s \in Streams |-> Nobody]
  /\ tasks = [v \in Viewers |-> Unborn]
  /\ viewer = [v \in Viewers |-> [at |-> "out", task |-> Nobody]]
  /\ view = [p \in Pairs |-> Blank]
  /\ change = [at |-> "none", task |-> Nobody]
  /\ token = [s \in Streams |-> "none"]
  /\ troubles = 0

\* Variant: a frame is dropped when the queue is full.
PublishIfRoom(pairs, frame) ==
  [p \in Pairs |-> IF p \in pairs /\ ~view[p].unread THEN [frame |-> frame, unread |-> TRUE]
                   ELSE view[p]]

\* A frame takes the place of the one a viewer has not taken yet.
Publish(pairs, frame) ==
  [p \in Pairs |-> IF p \in pairs THEN [frame |-> frame, unread |-> TRUE] ELSE view[p]]

At(t, place) == tasks' = [tasks EXCEPT ![t].at = place]

\* A task that can still ask and be heard.
Alive(t) == tasks[t].at \in {"token", "connect", "listen", "backoff"}
Idle(s) == task[s] = Nobody \/ tasks[task[s]].at = "ended"

\* Cancelling a task: it still has to close its socket.
Cancelled(t) ==
  [u \in Viewers |-> IF u = t /\ Alive(u) THEN [tasks[u] EXCEPT !.at = "closing", !.told = {}] ELSE tasks[u]]

-----------------------------------------------------------------------------
(* Viewers *)

\* The stocks a viewer gets in before the stream is full.
Admitted(v) ==
  LET fits(n) == Cardinality(Heard(current) \cup ToSet(SubSeq(wanted[v], 1, n))) <= Limit
  IN {wanted[v][i] : i \in {n \in DOMAIN wanted[v] : fits(n)}}

\* Variant: a stock that is added while the socket is up is not made known.
Flagged(s) == IF Idle(s) THEN [changed EXCEPT ![s] = TRUE] ELSE changed

\* Variant: a stream begins a task for each viewer.
NeedsTask(s) == TRUE

Known(s) == [changed EXCEPT ![s] = TRUE]
Needs(s) == Idle(s)

\* A viewer that does not get all it wants leaves at once.
Enter(v) ==
  LET pairs == {<<c, v>> : c \in Admitted(v)} IN
  /\ viewer[v].at = "out"
  /\ viewer' = [viewer EXCEPT ![v].at =
                  IF Cardinality(pairs) = Len(wanted[v]) THEN "watching" ELSE "rejected"]
  /\ IF pairs = {} THEN UNCHANGED <<listeners, changed, task, tasks, view>>
     ELSE /\ listeners' = [listeners EXCEPT ![current] = @ \cup pairs]
          /\ changed' = Known(current)
          /\ view' = Publish(pairs, "connecting")
          /\ IF Needs(current)
             THEN /\ task' = [task EXCEPT ![current] = v]
                  /\ tasks' = [tasks EXCEPT ![v] = [stream |-> current, at |-> "token", told |-> {}]]
             ELSE UNCHANGED <<task, tasks>>
  /\ UNCHANGED <<wanted, current, change, token, troubles>>

\* The event stream takes what is in the queue.
Take(p) ==
  /\ viewer[p[2]].at = "watching" /\ view[p].unread
  /\ view' = [view EXCEPT ![p].unread = FALSE]
  /\ UNCHANGED <<wanted, current, listeners, changed, task, tasks, viewer, change, token, troubles>>

\* The page is closed, or the login has ended.  The viewer signs off from the
\* workspace's present stream, which may not be the one it signed on to.
Leave(v) ==
  LET left == {p \in listeners[current] : p[2] # v} IN
  /\ viewer[v].at \in {"watching", "rejected"}
  /\ listeners' = [listeners EXCEPT ![current] = left]
  /\ changed' = [changed EXCEPT ![current] = TRUE]
  /\ IF left = {} /\ task[current] # Nobody
     THEN /\ viewer' = [viewer EXCEPT ![v] = [at |-> "closing", task |-> task[current]]]
          /\ task' = [task EXCEPT ![current] = Nobody]
          /\ tasks' = Cancelled(task[current])
     ELSE /\ viewer' = [viewer EXCEPT ![v].at = "gone"]
          /\ UNCHANGED <<task, tasks>>
  /\ view' = [p \in Pairs |-> IF p[2] = v THEN Blank ELSE view[p]]
  /\ UNCHANGED <<wanted, current, change, token, troubles>>

Left(v) ==
  /\ viewer[v].at = "closing" /\ tasks[viewer[v].task].at = "ended"
  /\ viewer' = [viewer EXCEPT ![v] = [at |-> "gone", task |-> Nobody]]
  /\ UNCHANGED <<wanted, current, listeners, changed, task, tasks, view, change, token, troubles>>

-----------------------------------------------------------------------------
(* The task of a stream.  Its loops go on while the stream has listeners;      *)
(* the last one to leave cancels it.                                         *)

Of(t) == tasks[t].stream

GetToken(t) ==
  /\ tasks[t].at = "token" /\ listeners[Of(t)] # {}
  /\ token' = [token EXCEPT ![Of(t)] = IF @ = "none" THEN "good" ELSE @]
  /\ At(t, "connect")
  /\ UNCHANGED <<wanted, current, listeners, changed, task, viewer, view, change, troubles>>

Connect(t) ==
  /\ tasks[t].at = "connect" /\ token[Of(t)] = "good"
  /\ tasks' = [tasks EXCEPT ![t] = [@ EXCEPT !.at = "listen", !.told = {}]]
  /\ changed' = [changed EXCEPT ![Of(t)] = TRUE]
  /\ UNCHANGED <<wanted, current, listeners, task, viewer, view, change, token, troubles>>

Tell(t) ==
  /\ tasks[t].at = "listen" /\ changed[Of(t)] /\ listeners[Of(t)] # {}
  /\ changed' = [changed EXCEPT ![Of(t)] = FALSE]
  /\ tasks' = [tasks EXCEPT ![t].told = Heard(Of(t))]
  /\ UNCHANGED <<wanted, current, listeners, task, viewer, view, change, token, troubles>>

\* A trade, or the broker's yes or no to a stock.
Hear(t) ==
  /\ tasks[t].at = "listen"
  /\ \E c \in tasks[t].told : view' = Publish({p \in listeners[Of(t)] : p[1] = c}, "answer")
  /\ UNCHANGED <<wanted, current, listeners, changed, task, tasks, viewer, change, token, troubles>>

\* Everyone is told, and the task sleeps before it tries again.
Fall(t) ==
  /\ view' = Publish(listeners[Of(t)], "reconnecting")
  /\ tasks' = [tasks EXCEPT ![t] = [@ EXCEPT !.at = "backoff", !.told = {}]]
  /\ UNCHANGED <<wanted, current, listeners, changed, task, viewer, change>>

Forgotten(s) == "none"

\* The broker answers 401 to a token it no longer knows.
Refused(t) ==
  /\ tasks[t].at = "connect" /\ token[Of(t)] = "revoked"
  /\ token' = [token EXCEPT ![Of(t)] = Forgotten(Of(t))]
  /\ Fall(t) /\ UNCHANGED troubles

Trouble(t) ==
  /\ tasks[t].at \in {"token", "connect", "listen"}
  /\ troubles < MaxTroubles /\ troubles' = troubles + 1
  /\ Fall(t) /\ UNCHANGED token

Retry(t) ==
  /\ tasks[t].at = "backoff" /\ listeners[Of(t)] # {}
  /\ At(t, "token")
  /\ UNCHANGED <<wanted, current, listeners, changed, task, viewer, view, change, token, troubles>>

\* A cancelled task has closed its socket.
End(t) ==
  /\ tasks[t].at = "closing" /\ At(t, "ended")
  /\ UNCHANGED <<wanted, current, listeners, changed, task, viewer, view, change, token, troubles>>

Revoke(s) ==
  /\ token[s] = "good" /\ troubles < MaxTroubles
  /\ troubles' = troubles + 1
  /\ token' = [token EXCEPT ![s] = "revoked"]
  /\ UNCHANGED <<wanted, current, listeners, changed, task, tasks, viewer, view, change>>

-----------------------------------------------------------------------------
(* A new connection: the credentials are saved, the stream is closed, and     *)
(* the workspace gets another.                                               *)

CloseStream ==
  /\ change.at = "none" /\ current + 1 \in Streams /\ task[current] # Nobody
  /\ change' = [at |-> "closing", task |-> task[current]]
  /\ task' = [task EXCEPT ![current] = Nobody]
  /\ tasks' = Cancelled(task[current])
  /\ UNCHANGED <<wanted, current, listeners, changed, viewer, view, token, troubles>>

\* At once when there is no task to wait for.
Replace ==
  /\ \/ change.at = "closing" /\ tasks[change.task].at = "ended"
     \/ change.at = "none" /\ current + 1 \in Streams /\ task[current] = Nobody
  /\ current' = current + 1
  /\ change' = [at |-> "none", task |-> Nobody]
  /\ UNCHANGED <<wanted, listeners, changed, task, tasks, viewer, view, token, troubles>>

-----------------------------------------------------------------------------

TaskStep(t) ==
  \/ GetToken(t) \/ Connect(t) \/ Tell(t) \/ Refused(t) \/ Retry(t) \/ End(t)

QuoteNext ==
  \/ \E v \in Viewers : Enter(v) \/ Leave(v) \/ Left(v)
  \/ \E p \in Pairs : Take(p)
  \/ \E t \in Viewers : TaskStep(t) \/ Hear(t) \/ Trouble(t)
  \/ \E s \in Streams : Revoke(s)
  \/ CloseStream \/ Replace

QuoteSpec == QuoteInit /\ [][QuoteNext]_quoteVars

\* The event loop runs every task that is ready, and a socket answers or fails
\* in the end: timeouts bound its opening.  Viewers may stay for ever.
QuoteFairness ==
  /\ \A t \in Viewers : WF_quoteVars(TaskStep(t)) /\ WF_quoteVars(Left(t))
  /\ WF_quoteVars(change.at = "closing" /\ Replace)

-----------------------------------------------------------------------------

(* No stream has two tasks that ask and publish, however its viewers come    *)
(* and go while an earlier task is still closing, and none asks for more     *)
(* stocks than the broker allows (quote_stream.py:24-51).                   *)
OneTaskPerStream ==
  /\ \A s \in Streams : Cardinality({t \in Viewers : tasks[t].stream = s /\ Alive(t)}) <= 1
  /\ \A t \in Viewers : Cardinality(tasks[t].told) <= Limit

(* What a viewer has in its queue, or took last, is never a quote or a       *)
(* "connected" of a socket that is down: while the present stream's task is   *)
(* without a socket, every viewer is told so (quote_stream.py:15-22, 83-88).  *)
(* During a connection change the viewers of the stream are not told.        *)
ViewsAreHonest ==
  change.at = "none" /\ task[current] # Nobody /\ tasks[task[current]].at # "listen" =>
    \A p \in listeners[current] : view[p].frame \in {"connecting", "reconnecting"}

(* Once the connection troubles are over, the broker is asked for every      *)
(* stock of every viewer that stays, also when it came in the middle of a    *)
(* reconnection or while the last task was closing - unless a connection     *)
(* change took the stream away (quote_stream.py:24-33, 53-65).              *)
StocksAreAskedFor ==
  \A v \in Viewers :
    viewer[v].at = "watching" ~>
      LET stocks == {c \in Codes : <<c, v>> \in listeners[current]} IN
      \/ viewer[v].at # "watching" \/ stocks = {}
      \/ task[current] # Nobody /\ stocks \subseteq tasks[task[current]].told
================================================================================
