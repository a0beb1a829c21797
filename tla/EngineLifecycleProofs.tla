----------------------- MODULE EngineLifecycleProofs -----------------------
(***************************************************************************)
(* As long as every stop of an engine happens under the workspace lock, an *)
(* account has at most one worker and a returned stop leaves none that     *)
(* trades - for any number of requests and starts.                         *)
(***************************************************************************)
EXTENDS EngineLifecycle, TLAPS

\* Every worker that is alive is the engine's, and is cancelled only by the
\* request that holds the lock and waits for its end.
WorkerInv ==
  /\ \A w \in Workers : Alive(w) => task = w
  /\ running => task \in Loose
  /\ \A w \in Loose : running
  /\ \A w \in cancelled \cup {task} : w # NoWorker => at[w] # "unborn"
  /\ \A w \in cancelled : Alive(w) => lock # NoRequest /\ request[lock] \in Kinds
  /\ stopped => Loose = {}
RequestInv ==
  \A r \in Requests :
    /\ request[r] # "logout"
    /\ request[r] \in {"stop", "select", "selecting"} => r = lock
    /\ request[r] \in Kinds => joining[r] = task /\ task \in cancelled /\ ~running

LockedInv == TypeOK /\ WorkerInv /\ RequestInv

LEMMA LockedInit == Init => LockedInv
BY LifecycleAssumption
DEF Init, LockedInv, TypeOK, WorkerInv, RequestInv, Alive, Loose, Suspended, Kinds

\* Every step keeps the invariant.
LEMMA LockedStep ==
  ASSUME ~Logouts, LockedInv, [Next]_vars
  PROVE  LockedInv'
<1> USE LifecycleAssumption DEF LockedInv, Alive, Loose, Suspended, Kinds
<1>1. ASSUME NEW w \in Workers, WorkerStep(w) PROVE LockedInv'
  <2>1. PICK p \in Suspended \cup {"ended"} :
          /\ at' = [at EXCEPT ![w] = p] /\ Alive(w)
          /\ \/ running' = running /\ p # "ended" /\ w \notin cancelled
             \/ running' = running /\ p = "ended" /\ at[w] = "created" /\ w \in cancelled
             \/ running' = FALSE /\ p = "ended"
    <3>1. CASE Loop(w) /\ running
      <4> WITNESS "hours" \in Suspended \cup {"ended"}
      <4> QED
        BY <3>1 DEF Loop, Suspend
    <3>2. CASE CheckHours(w) /\ at'[w] = "asleep"
      <4> WITNESS "asleep" \in Suspended \cup {"ended"}
      <4> QED
        BY <3>2 DEF CheckHours, Suspend, TypeOK
    <3>3. CASE CheckHours(w) /\ at'[w] # "asleep"
      <4> WITNESS "prices" \in Suspended \cup {"ended"}
      <4> QED
        BY <3>3 DEF CheckHours, Suspend, TypeOK
    <3>4. CASE Trade(w) /\ at'[w] = "asleep"
      <4> WITNESS "asleep" \in Suspended \cup {"ended"}
      <4> QED
        BY <3>4 DEF Trade, Suspend, End, TypeOK
    <3>5. CASE (Loop(w) /\ ~running) \/ (Trade(w) /\ at'[w] # "asleep") \/ Cancelled(w)
      <4> WITNESS "ended" \in Suspended \cup {"ended"}
      <4> QED
        BY <3>5 DEF Loop, Trade, Cancelled, Suspend, End, TypeOK
    <3> QED
      BY <1>1, <3>1, <3>2, <3>3, <3>4, <3>5 DEF WorkerStep
  <2>2. UnchangedByWorker
    BY <1>1 DEF WorkerStep, Loop, CheckHours, Trade, Cancelled
  <2>3. TypeOK'
    BY <2>1, <2>2 DEF UnchangedByWorker, requestVars, TypeOK
  <2>4. WorkerInv'
    BY <2>1, <2>2 DEF UnchangedByWorker, requestVars, TypeOK, WorkerInv, RequestInv
  <2>5. RequestInv'
    BY <2>1, <2>2 DEF UnchangedByWorker, requestVars, TypeOK, WorkerInv, RequestInv
  <2> QED
    BY <2>3, <2>4, <2>5
<1>2. ASSUME NEW r \in Requests, Joined(r) PROVE LockedInv'
  <2>1. TypeOK'
    BY <1>2 DEF Joined, Return, workerVars, TypeOK, RequestInv
  <2>2. WorkerInv'
    BY <1>2 DEF Joined, Return, workerVars, TypeOK, WorkerInv, RequestInv
  <2>3. RequestInv'
    BY <1>2 DEF Joined, Return, workerVars, TypeOK, WorkerInv, RequestInv
  <2> QED
    BY <2>1, <2>2, <2>3
<1>3. ASSUME NEW r \in Requests, Select(r) \/ ApplySettings(r) \/ CheckSettings(r)
      PROVE  LockedInv'
  <2>1. TypeOK'
    BY <1>3 DEF Select, Configure, ApplySettings, CheckSettings, workerVars, TypeOK, RequestInv
  <2>2. WorkerInv'
    BY <1>3 DEF Select, ApplySettings, CheckSettings, workerVars, TypeOK, WorkerInv, RequestInv
  <2>3. RequestInv'
    BY <1>3 DEF Select, ApplySettings, CheckSettings, workerVars, TypeOK, RequestInv
  <2> QED
    BY <2>1, <2>2, <2>3
<1>4. ASSUME NEW r \in Requests, NEW w \in Workers, Start(r, w) PROVE LockedInv'
  <2>1. \A v \in Workers : ~Alive(v)
    BY <1>4 DEF Start, WorkerInv
  <2>2. TypeOK'
    BY <1>4 DEF Start, requestVars, TypeOK
  <2>3. WorkerInv' /\ RequestInv'
    BY <1>4, <2>1 DEF Start, requestVars, TypeOK, WorkerInv, RequestInv
  <2> QED
    BY <2>2, <2>3
<1>5. ASSUME NEW r \in Requests, NEW kind \in Kinds, NEW isEmergency \in BOOLEAN,
             Stop(r, kind, isEmergency)
      PROVE  LockedInv'
  <2>1. kind \in {"stop", "select"} /\ lock = NoRequest /\ request[r] = "none"
    BY <1>5 DEF Stop
  <2>2. \A q \in Requests : request[q] \in {"none", "configuring"}
    BY <2>1 DEF TypeOK, RequestInv
  <2>6. request \in [Requests -> Kinds \cup {"none", "selecting", "configuring"}]
        /\ joining \in [Requests -> Workers \cup {NoWorker}]
        /\ task \in Workers \cup {NoWorker} /\ cancelled \in SUBSET Workers
    BY DEF TypeOK
  <2>3. CASE task # NoWorker /\ at[task] # "ended"
    <3>1. /\ running' = FALSE /\ cancelled' = cancelled \cup {task} /\ task' = task /\ at' = at
          /\ request' = [request EXCEPT ![r] = kind] /\ joining' = [joining EXCEPT ![r] = task]
          /\ lock' = r /\ stopped' = stopped
      BY <1>5, <2>1, <2>3 DEF Stop
    <3>6. /\ request'[r] = kind /\ joining'[r] = task
          /\ \A q \in Requests \ {r} : request'[q] = request[q] /\ joining'[q] = joining[q]
      BY <3>1, <2>6
    <3>2. task \in Workers /\ \A v \in Workers : Alive(v) => v = task
      BY <2>3 DEF TypeOK, WorkerInv
    <3>3. at[task] # "unborn"
      BY <3>2 DEF WorkerInv
    <3>4. WorkerInv'
      BY <3>1, <3>2, <3>3, <3>6, <2>1 DEF WorkerInv
    <3>5. RequestInv'
      BY <3>1, <3>6, <2>1, <2>2 DEF RequestInv
    <3>7. TypeOK'
      BY <3>1, <3>2, <3>6, <2>1, <2>2, <1>5 DEF TypeOK, Stop
    <3> QED
      BY <3>4, <3>5, <3>7
  <2>4. CASE ~(task # NoWorker /\ at[task] # "ended")
    <3>1. \A v \in Workers : ~Alive(v)
      BY <2>4 DEF WorkerInv, TypeOK
    <3>2. /\ running' = FALSE /\ cancelled' = cancelled /\ task' = NoWorker /\ at' = at
          /\ stopped' = TRUE /\ Return(r, kind)
      BY <1>5, <2>1, <2>4 DEF Stop
    <3>3. WorkerInv'
      BY <3>1, <3>2, <2>6 DEF WorkerInv
    <3>4. /\ request'[r] = IF kind = "select" THEN "selecting" ELSE "none"
          /\ joining'[r] = NoWorker /\ lock' = IF kind = "select" THEN r ELSE NoRequest
          /\ request' \in [Requests -> Kinds \cup {"none", "selecting", "configuring"}]
          /\ joining' \in [Requests -> Workers \cup {NoWorker}]
          /\ \A q \in Requests \ {r} : request'[q] = request[q] /\ joining'[q] = joining[q]
      BY <3>2, <2>1, <2>6 DEF Return
    <3>5. RequestInv'
      BY <3>4, <2>1, <2>2 DEF RequestInv
    <3>6. TypeOK'
      <4>1. \A q \in Requests : joining'[q] # NoWorker <=> request'[q] \in Kinds
        BY <3>4 DEF TypeOK
      <4>2. lock' # NoRequest => request'[lock'] \in {"stop", "select", "selecting"}
        BY <3>4
      <4>3. /\ lock' \in Requests \cup {NoRequest} /\ emergency' \in BOOLEAN
            /\ settings' = settings /\ at' = at
        BY <3>4, <1>5 DEF Stop
      <4> QED
        BY <3>2, <3>4, <4>1, <4>2, <4>3 DEF TypeOK
    <3> QED
      BY <3>3, <3>5, <3>6
  <2> QED
    BY <2>3, <2>4
<1>6. CASE UNCHANGED vars
  BY <1>6 DEF vars, TypeOK, WorkerInv, RequestInv
<1> QED
  BY <1>1, <1>2, <1>3, <1>4, <1>5, <1>6 DEF Next, RequestStep

LEMMA LockedInvHolds == ASSUME ~Logouts PROVE Spec => []LockedInv
<1>1. LockedInv /\ [Next]_vars => LockedInv'
  BY LockedStep
<1> QED
  BY <1>1, LockedInit, PTL DEF Spec

\* With every stop under the lock the running flag tells whether there is a worker
\* that will go on, and a returned stop leaves none that trades.
THEOREM LockedEngineIsSafe ==
  ASSUME ~Logouts
  PROVE  Spec => [](TypeOK /\ RunningHasWorker /\ StopMeansStopped)
<1>1. LockedInv => TypeOK /\ RunningHasWorker /\ StopMeansStopped
  BY DEF LockedInv, WorkerInv, RunningHasWorker, StopMeansStopped
<1> QED
  BY <1>1, LockedInvHolds, PTL

\* With every stop under the lock no account has two workers, not even while a
\* cancelled one has yet to end: a start finds the lock held until it has.
THEOREM WorkersTakeTurns == ASSUME ~Logouts PROVE Spec => []OneWorker
<1>1. LockedInv => OneWorker
  BY DEF LockedInv, WorkerInv, OneWorker
<1> QED
  BY <1>1, LockedInvHolds, PTL
=============================================================================
