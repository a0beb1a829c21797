--------------------------- MODULE EngineLifecycle ---------------------------
(***************************************************************************)
(* Starting and stopping the order worker of a paper account:              *)
(* TradingEngine.start, stop, _run, poll_market and configure in           *)
(* auto_trader/trading/engine.py, and the handlers that call them.         *)
(*                                                                         *)
(* Workers and handlers are asyncio tasks of one event loop: what happens  *)
(* between two awaits is one step, and at an await anything else may run.  *)
(* Task.cancel only asks: the worker ends when it is next resumed, before  *)
(* it runs another line.  Handlers of a workspace share a lock, except     *)
(* logout, and PUT /strategy/settings, which runs in a thread of its own.  *)
(***************************************************************************)
EXTENDS Integers

CONSTANTS
  Workers,      \* asyncio tasks that start() may create; one per start
  NoWorker,     \* engine._task is None
  Requests,     \* handlers at work at the same time
  NoRequest,    \* the workspace lock is free
  Logouts,      \* whether POST /auth/logout is called
  Settings      \* whether PUT /strategy/settings is called

ASSUME LifecycleAssumption ==
  /\ NoWorker \notin Workers
  /\ NoRequest \notin Requests
  /\ Logouts \in BOOLEAN /\ Settings \in BOOLEAN

VARIABLES
  running,    \* engine.running
  emergency,  \* engine.emergency_stopped
  task,       \* engine._task
  at,         \* where each worker is suspended
  cancelled,  \* workers whose cancellation was requested
  lock,       \* the request that holds the workspace lock
  request,    \* what each request is waiting for
  joining,    \* the worker a stopping request awaits
  settings,   \* the settings the engine is configured with (two values suffice)
  stopped     \* history: a stop has returned, and no start has succeeded since

vars == <<running, emergency, task, at, cancelled, lock, request, joining, settings, stopped>>
workerVars == <<at, cancelled>>
requestVars == <<lock, request, joining>>

Suspended == {"created", "hours", "prices", "asleep"}
Alive(w) == at[w] \in Suspended
\* Workers whose end nobody has asked for.
Loose == {w \in Workers : Alive(w) /\ w \notin cancelled}

Init ==
  /\ running = FALSE /\ emergency = FALSE /\ task = NoWorker
  /\ at = [w \in Workers |-> "unborn"] /\ cancelled = {}
  /\ lock = NoRequest /\ request = [r \in Requests |-> "none"]
  /\ joining = [r \in Requests |-> NoWorker]
  /\ settings = 0 /\ stopped = TRUE

-----------------------------------------------------------------------------
(* The worker.                                                              *)

Suspend(w, place) == /\ at' = [at EXCEPT ![w] = place]
                     /\ UNCHANGED running

\* The finally clause of _run.
End(w) == /\ at' = [at EXCEPT ![w] = "ended"]
          /\ running' = FALSE
UnchangedByWorker ==
  /\ UNCHANGED requestVars
  /\ UNCHANGED <<emergency, task, cancelled, settings, stopped>>

\* The event loop runs what is ready in order: a cancellation, which is ready at
\* once, goes before the first step of a worker created after it.
InTurn(w) == at[w] = "created" => \A v \in cancelled : ~Alive(v)

\* while self.running: ask for the market hours, or leave.
Loop(w) ==
  /\ at[w] \in {"created", "asleep"} /\ w \notin cancelled /\ InTurn(w)
  /\ IF running THEN Suspend(w, "hours") ELSE End(w)
  /\ UnchangedByWorker

\* The hours are known: sleep, or read the prices.
CheckHours(w) ==
  /\ at[w] = "hours" /\ w \notin cancelled
  /\ Suspend(w, "asleep") \/ Suspend(w, "prices")
  /\ UnchangedByWorker

\* The prices are there: decide and order, unless they are late or missing.
\* An error in the step ends the worker.
Trade(w) ==
  /\ at[w] = "prices" /\ w \notin cancelled
  /\ Suspend(w, "asleep") \/ End(w)
  /\ UnchangedByWorker

\* Variant: the worker catches its cancellation like any error and goes on.
SwallowedCancellation(w) ==
  /\ Alive(w) /\ w \in cancelled
  /\ Suspend(w, "asleep")
  /\ UnchangedByWorker

\* The cancellation arrives.  A worker that has not begun never enters the try
\* block whose finally clause resets running.
Cancelled(w) ==
  /\ Alive(w) /\ w \in cancelled
  /\ at' = [at EXCEPT ![w] = "ended"]
  /\ running' = IF at[w] = "created" THEN running ELSE FALSE
  /\ UnchangedByWorker

-----------------------------------------------------------------------------
(* The requests.                                                            *)

\* POST /strategy/start.  start() does not suspend.  That it leaves running set
\* when the journal cannot be written is not modelled.
Start(r, w) ==
  /\ request[r] = "none" /\ lock = NoRequest
  /\ ~running /\ at[w] = "unborn"
  /\ running' = TRUE /\ emergency' = FALSE /\ stopped' = FALSE
  /\ task' = w /\ at' = [at EXCEPT ![w] = "created"]
  /\ UNCHANGED requestVars
  /\ UNCHANGED <<cancelled, settings>>

\* What a handler does after stop(): selecting a strategy goes on.
Return(r, kind) ==
  /\ request' = [request EXCEPT ![r] = IF kind = "select" THEN "selecting" ELSE "none"]
  /\ lock' = IF kind = "logout" THEN lock ELSE IF kind = "select" THEN r ELSE NoRequest
  /\ joining' = [joining EXCEPT ![r] = NoWorker]

\* Variant: stop() does not wait for the cancelled worker.
StopWithoutJoin(r, kind, isEmergency) ==
  /\ request[r] = "none"
  /\ IF kind = "logout" THEN Logouts ELSE lock = NoRequest
  /\ running' = FALSE /\ emergency' = isEmergency
  /\ task' = NoWorker /\ stopped' = TRUE /\ Return(r, kind)
  /\ UNCHANGED <<at, cancelled, settings>>

\* stop(), called by pause and emergency stop ("stop"), strategy selection,
\* reset and snapshot ("select"), and logout: cancel the worker and await it;
\* without a worker, or with one that has ended, return at once.
Stop(r, kind, isEmergency) ==
  /\ request[r] = "none"
  /\ IF kind = "logout" THEN Logouts ELSE lock = NoRequest
  /\ running' = FALSE /\ emergency' = isEmergency
  /\ IF task # NoWorker /\ at[task] # "ended"
     THEN /\ cancelled' = cancelled \cup {task}
          /\ request' = [request EXCEPT ![r] = kind]
          /\ joining' = [joining EXCEPT ![r] = task]
          /\ lock' = IF kind = "logout" THEN lock ELSE r
          /\ UNCHANGED <<task, stopped>>
     ELSE /\ task' = NoWorker /\ stopped' = TRUE
          /\ Return(r, kind)
          /\ UNCHANGED cancelled
  /\ UNCHANGED <<at, settings>>

\* The awaited worker has ended: forget the task and return.
Joined(r) ==
  /\ request[r] \in {"stop", "select", "logout"}
  /\ at[joining[r]] = "ended"
  /\ task' = NoWorker
  /\ stopped' = ~running
  /\ Return(r, request[r])
  /\ UNCHANGED <<running, emergency, settings>> /\ UNCHANGED workerVars

\* engine.configure, which refuses while the engine is running.
Configure == settings' = IF running THEN settings ELSE 1 - settings

\* The rest of a selection, after awaits of its own: prices and the database.
Select(r) ==
  /\ request[r] = "selecting"
  /\ Configure \/ UNCHANGED settings
  /\ request' = [request EXCEPT ![r] = "none"]
  /\ lock' = NoRequest
  /\ UNCHANGED <<running, emergency, task, joining, stopped>> /\ UNCHANGED workerVars

\* PUT /strategy/settings: the check and the change of configure, in a thread.
CheckSettings(r) ==
  /\ Settings
  /\ request[r] = "none" /\ ~running
  /\ request' = [request EXCEPT ![r] = "configuring"]
  /\ UNCHANGED <<running, emergency, task, lock, joining, settings, stopped>>
  /\ UNCHANGED workerVars
ApplySettings(r) ==
  /\ request[r] = "configuring"
  /\ settings' = 1 - settings
  /\ request' = [request EXCEPT ![r] = "none"]
  /\ UNCHANGED <<running, emergency, task, lock, joining, stopped>> /\ UNCHANGED workerVars

Kinds == {"stop", "select", "logout"}

WorkerStep(w) == Loop(w) \/ CheckHours(w) \/ Trade(w) \/ Cancelled(w)
RequestStep(r) == Joined(r) \/ Select(r) \/ ApplySettings(r)

Next ==
  \/ \E w \in Workers : WorkerStep(w)
  \/ \E r \in Requests : RequestStep(r)
  \/ \E r \in Requests, w \in Workers : Start(r, w)
  \/ \E r \in Requests, kind \in Kinds, isEmergency \in BOOLEAN :
       (isEmergency => kind = "stop") /\ Stop(r, kind, isEmergency)
  \/ \E r \in Requests : CheckSettings(r)

Spec == Init /\ [][Next]_vars

\* The event loop resumes whatever is ready, and every awaited call answers or
\* times out.  Nobody has to send another request.
FairSpec == /\ Spec
            /\ \A w \in Workers : WF_vars(WorkerStep(w))
            /\ \A r \in Requests : WF_vars(RequestStep(r))

-----------------------------------------------------------------------------
(* Properties.                                                              *)

\* Types; a held lock belongs to a request that is not done, and a request that
\* stops the engine awaits a worker.
TypeOK ==
  /\ running \in BOOLEAN /\ emergency \in BOOLEAN /\ stopped \in BOOLEAN
  /\ task \in Workers \cup {NoWorker}
  /\ at \in [Workers -> Suspended \cup {"unborn", "ended"}]
  /\ cancelled \in SUBSET Workers
  /\ lock \in Requests \cup {NoRequest}
  /\ request \in [Requests -> Kinds \cup {"none", "selecting", "configuring"}]
  /\ joining \in [Requests -> Workers \cup {NoWorker}]
  /\ settings \in {0, 1}
  /\ lock # NoRequest => request[lock] \in {"stop", "select", "selecting"}
  /\ \A r \in Requests : joining[r] # NoWorker <=> request[r] \in Kinds

\* Two workers never trade the same account: at most one worker is alive, even
\* while a stop waits for the old one.
OneWorker == \A v, w \in Workers : Alive(v) /\ Alive(w) => v = w

\* The account shows as running exactly while a worker that nobody has cancelled
\* looks after it.
RunningHasWorker == running => task \in Loose

\* Once a stop has returned, no worker is left between its look at running and
\* its orders, waiting for an answer from which it would still trade.
StopMeansStopped == stopped => \A w \in Loose : at[w] \notin {"hours", "prices"}

\* Every stop returns: the worker it awaits ends.
StopReturns ==
  \A r \in Requests : request[r] \in Kinds ~> request[r] \notin Kinds
=============================================================================
