---------------------------- MODULE TransportProofs ----------------------------
(***************************************************************************)
(* Proofs about Transport for any number of calls, groups, paces, budgets and   *)
(* failures.  What a call knows of its group stays true because it holds the    *)
(* lock of the group while it waits and while its request is out.             *)
(***************************************************************************)
EXTENDS Transport, TLAPS

Places == Ended \cup {"idle", "lookup", "take", "tokenLock", "groupLock", "spacing",
                      "sent", "backoff", "invalidate"}
Holding == {"spacing", "sent"}

\* What is known of one call.
CallOK(c) ==
  /\ ~plan[c].get => sends[c] <= 1 /\ (at[c] \notin Ended => sends[c] = 0)
  /\ at[c] \in Holding => groupLock[lane[c]] = c
  /\ at[c] = "spacing" => limit[lane[c]] = 0
  /\ Budgeted(c) =>
       /\ at[c] = "backoff" => (wait[c] < left[c] \/ wait[c] = 0)
       /\ at[c] = "spacing" => (Delay(lane[c]) < left[c] \/ Ready(lane[c]))

TransportInv == TypeOK /\ quiet = since /\ \A c \in Calls : CallOK(c)

-----------------------------------------------------------------------------

LEMMA PlansAreTyped ==
  ASSUME TypeOK, NEW c \in Calls
  PROVE  plan[c] \in [group : STRING, get : BOOLEAN, budget : Nat] /\ plan[c].group \in Groups
<1>1. plan \in Mixes /\ plan \in [Calls -> [group : STRING, get : BOOLEAN, budget : Nat]]
  BY TransportAssumption DEF TypeOK
<1>2. plan[c].group \in {plan[d].group : d \in Calls}
  OBVIOUS
<1>3. plan[c].group \in Own
  BY <1>1, <1>2 DEF Own
<1> QED BY <1>1, <1>3 DEF Groups

\* What a step of one call leaves of the others and of the groups they hold.
Spares(c) ==
  /\ plan' = plan
  /\ \A d \in Calls \ {c} :
       at'[d] = at[d] /\ lane'[d] = lane[d] /\ wait'[d] = wait[d] /\ left'[d] = left[d]
         /\ sends'[d] = sends[d]
  /\ \A g \in Groups :
       groupLock[g] \notin {c, Nobody} =>
         groupLock'[g] = groupLock[g] /\ since'[g] = since[g] /\ interval'[g] = interval[g]
           /\ limit'[g] = limit[g]

LEMMA OthersAreOK ==
  ASSUME NEW c \in Calls, NEW d \in Calls \ {c}, TransportInv, Spares(c)
  PROVE  CallOK(d)'
<1>1. lane[d] \in Groups /\ d # Nobody /\ d # c
  BY TransportAssumption DEF TransportInv, TypeOK
<1>2. /\ at'[d] = at[d] /\ lane'[d] = lane[d] /\ wait'[d] = wait[d] /\ left'[d] = left[d]
      /\ sends'[d] = sends[d] /\ plan' = plan
  BY DEF Spares
<1>3. CallOK(d)
  BY DEF TransportInv
<1>4. CASE at[d] \in Holding
  <2>1. groupLock[lane[d]] \notin {c, Nobody}
    BY <1>1, <1>3, <1>4 DEF CallOK
  <2>2. /\ groupLock'[lane[d]] = groupLock[lane[d]] /\ since'[lane[d]] = since[lane[d]]
        /\ interval'[lane[d]] = interval[lane[d]] /\ limit'[lane[d]] = limit[lane[d]]
    BY <2>1, <1>1 DEF Spares
  <2> QED BY <2>2, <1>2, <1>3 DEF CallOK, Budgeted, Delay, Ready
<1>5. CASE at[d] \notin Holding
  BY <1>2, <1>3, <1>5 DEF CallOK, Budgeted, Holding
<1> QED BY <1>4, <1>5

\* A step of a call keeps the invariant if it keeps the types and the call.
LEMMA OneCall ==
  ASSUME NEW c \in Calls, TransportInv, TypeOK', quiet' = since', Spares(c), CallOK(c)'
  PROVE  TransportInv'
BY OthersAreOK DEF TransportInv

-----------------------------------------------------------------------------
(* The parts that several steps share.                                      *)

CallTypes ==
  /\ at \in [Calls -> Places]
  /\ lane \in [Calls -> Groups] /\ mine \in [Calls -> 0..issued]
  /\ again \in [Calls -> BOOLEAN] /\ tries \in [Calls -> 0..2]
  /\ due \in [Calls -> 0..Patience]
  /\ wait \in [Calls -> Nat] /\ left \in [Calls -> Nat]

SparesCalls(c) ==
  /\ plan' = plan
  /\ \A d \in Calls \ {c} :
       at'[d] = at[d] /\ lane'[d] = lane[d] /\ wait'[d] = wait[d] /\ left'[d] = left[d]

LEMMA TypesOfCalls == TypeOK => CallTypes
BY DEF TypeOK, CallTypes, Places

LEMMA GoGives ==
  ASSUME NEW c \in Calls, NEW place \in Places, TypeOK, issued' = issued, Go(c, place)
  PROVE  CallTypes' /\ SparesCalls(c) /\ at'[c] = place /\ lane' = lane /\ UNCHANGED callVars
BY TypesOfCalls DEF Go, callVars, CallTypes, SparesCalls

LEMMA UseTokenGives ==
  ASSUME NEW c \in Calls, NEW t \in Nat, TypeOK, UseToken(c, t), t <= issued', issued' \in Nat,
         issued <= issued'
  PROVE  CallTypes' /\ SparesCalls(c) /\ at'[c] = "groupLock"
<1>1. plan[c].group \in Groups
  BY PlansAreTyped
<1>2. issued \in Nat /\ 0..issued \subseteq 0..issued' /\ t \in 0..issued'
  BY DEF TypeOK
<1>3. mine' \in [Calls -> 0..issued']
  BY <1>2 DEF TypeOK, UseToken
<1>4. due' \in [Calls -> 0..Patience] /\ tries' \in [Calls -> 0..2]
  BY TransportAssumption DEF TypeOK, UseToken
<1>5. at' \in [Calls -> Places] /\ lane' \in [Calls -> Groups]
  BY <1>1 DEF TypeOK, UseToken, Places
<1>6. again' \in [Calls -> BOOLEAN] /\ wait' \in [Calls -> Nat] /\ left' \in [Calls -> Nat]
  BY DEF TypeOK, UseToken
<1> QED BY <1>3, <1>4, <1>5, <1>6 DEF UseToken, TypeOK, CallTypes, SparesCalls

LEMMA EndGives ==
  ASSUME NEW c \in Calls, NEW how \in Ended, TypeOK, End(c, how), issued' = issued
  PROVE  /\ CallTypes' /\ SparesCalls(c) /\ at'[c] = how
         /\ tokenLock' \in Calls \cup {Nobody}
<1>1. "AUTH" \in Groups /\ how \in Places
  BY DEF Groups, Places
<1>2. /\ at' \in [Calls -> Places] /\ lane' \in [Calls -> Groups]
      /\ again' \in [Calls -> BOOLEAN] /\ wait' \in [Calls -> Nat] /\ left' \in [Calls -> Nat]
  BY <1>1 DEF TypeOK, End, Places
<1>3. mine' \in [Calls -> 0..issued'] /\ tries' \in [Calls -> 0..2] /\ due' \in [Calls -> 0..Patience]
  BY TransportAssumption DEF TypeOK, End
<1>4. tokenLock' \in Calls \cup {Nobody}
  BY DEF TypeOK, End, LeaveTokenLock
<1> QED BY <1>2, <1>3, <1>4 DEF End, TypeOK, CallTypes, SparesCalls

LEMMA PausesAreNatural ==
  ASSUME NEW g \in Groups, NEW error, limit' \in [Groups -> 0..RetryAfter]
  PROVE  Pause(g, error) \in Nat
BY TransportAssumption DEF Pause, Later

\* A request is repeated only if it is a read.
LEMMA RetryGives ==
  ASSUME NEW c \in Calls, NEW error, TypeOK, Retry(c, error), issued' = issued,
         limit' \in [Groups -> 0..RetryAfter]
  PROVE  /\ CallTypes' /\ SparesCalls(c)
         /\ tokenLock' \in Calls \cup {Nobody}
         /\ at'[c] \in {"backoff", "yielded", "failed"}
         /\ at'[c] = "backoff" => plan[c].get /\ (Budgeted(c) => wait'[c] < left'[c])
<1> DEFINE pause == Pause(lane[c], error)
<1>1. pause \in Nat
  BY PausesAreNatural DEF TypeOK
<1> HIDE DEF pause
<1>2. CASE \E how \in {"yielded", "failed"} : End(c, how)
  <2>1. PICK how \in {"yielded", "failed"} : End(c, how)
    BY <1>2
  <2>2. how \in Ended /\ how # "backoff"
    BY DEF Ended
  <2> QED BY <2>1, <2>2, EndGives
<1>3. CASE /\ plan[c].get /\ tries[c] < 2 /\ Affords(c, pause)
           /\ wait' = [wait EXCEPT ![c] = pause]
           /\ tries' = [tries EXCEPT ![c] = @ + 1]
           /\ at' = [at EXCEPT ![c] = "backoff"]
           /\ UNCHANGED <<plan, lane, mine, again, due, left, tokenLock>>
  <2>1. tries' \in [Calls -> 0..2]
    BY <1>3 DEF TypeOK
  <2>2. at' \in [Calls -> Places] /\ wait' \in [Calls -> Nat]
    BY <1>1, <1>3 DEF TypeOK, Places
  <2>3. CallTypes'
    BY <2>1, <2>2, <1>3 DEF TypeOK, CallTypes
  <2>4. at'[c] = "backoff" /\ wait'[c] = pause /\ left' = left
    BY <1>3 DEF TypeOK
  <2>5. SparesCalls(c)
    BY <1>3 DEF TypeOK, SparesCalls
  <2> QED BY <2>3, <2>4, <2>5, <1>3 DEF Affords, TypeOK
<1> QED BY <1>2, <1>3 DEF Retry, MayRepeat, HasTries, pause
-----------------------------------------------------------------------------
(* Time, the broker, and the steps of a call.                                *)

LEMMA InitIsOK == Init => TransportInv
<1> SUFFICES ASSUME Init PROVE TransportInv
  OBVIOUS
<1>1. "AUTH" \in Groups /\ MaxInterval \in Nat /\ Interval \in Interval..MaxInterval
  BY TransportAssumption DEF Groups
<1>2. TypeOK
  BY <1>1, TransportAssumption DEF Init, TypeOK
<1>3. quiet = since
  BY DEF Init
<1>4. ASSUME NEW c \in Calls PROVE CallOK(c)
  BY DEF Init, CallOK, Holding
<1> QED BY <1>2, <1>3, <1>4 DEF TransportInv

LEMMA TimersAreTyped ==
  /\ \A n \in Nat : Shorter(n) \in Nat /\ Shorter(n) <= n
  /\ \A m \in Nat : \A n \in 0..m : Shorter(n) \in 0..m
  /\ \A n \in 0..MaxInterval : Longer(n) \in 0..MaxInterval
  /\ \A n \in Interval..MaxInterval : Longer(n) \in Interval..MaxInterval
BY TransportAssumption DEF Shorter, Longer

LEMMA TickKeeps == ASSUME TransportInv, Tick PROVE TransportInv'
<1> USE DEF TransportInv
<1>1. /\ UNCHANGED <<at, plan, lane, sends, groupLock, interval>>
      /\ wait' = [c \in Calls |-> Shorter(wait[c])] /\ left' = [c \in Calls |-> Shorter(left[c])]
      /\ since' = [g \in Groups |-> Longer(since[g])] /\ quiet' = [g \in Groups |-> Longer(quiet[g])]
      /\ limit' = [g \in Groups |-> Shorter(limit[g])]
  BY DEF Tick
<1>2. /\ life' \in 0..Life /\ due' \in [Calls -> 0..Patience]
      /\ wait' \in [Calls -> Nat] /\ left' \in [Calls -> Nat]
      /\ since' \in [Groups -> 0..MaxInterval] /\ quiet' \in [Groups -> 0..MaxInterval]
      /\ limit' \in [Groups -> 0..RetryAfter]
  BY TimersAreTyped, TransportAssumption DEF TypeOK, Tick
<1>3. TypeOK'
  BY <1>2 DEF TypeOK, Tick
<1>4. quiet' = since'
  BY <1>1
<1>5. ASSUME NEW c \in Calls PROVE CallOK(c)'
  <2>1. lane[c] \in Groups /\ wait[c] \in Nat /\ left[c] \in Nat
    BY DEF TypeOK
  <2> DEFINE g == lane[c]
  <2>2. since[g] \in 0..MaxInterval /\ interval[g] \in Interval..MaxInterval /\ limit[g] \in 0..RetryAfter
    BY <2>1 DEF TypeOK
  <2>3. CallOK(c) /\ Budgeted(c)' = Budgeted(c)
    BY <1>1 DEF Budgeted
  <2>4. at[c] = "spacing" => limit'[g] = 0
    BY <1>1, <2>1, <2>3 DEF CallOK, Shorter
  <2>5. (wait[c] < left[c] \/ wait[c] = 0) => (wait'[c] < left'[c] \/ wait'[c] = 0)
    BY <1>1, <2>1 DEF Shorter
  <2>6. (Delay(g) < left[c] \/ Ready(g)) =>
          (interval[g] - since'[g] < left'[c] \/ since'[g] >= interval[g])
    <3>1. since'[g] = Longer(since[g]) /\ left'[c] = Shorter(left[c])
      BY <1>1, <2>1
    <3> QED BY <3>1, <2>1, <2>2, TransportAssumption DEF Delay, Ready, Longer, Shorter
  <2>7. lane'[c] = g /\ at'[c] = at[c] /\ sends'[c] = sends[c] /\ interval' = interval
        /\ groupLock' = groupLock /\ plan' = plan
    BY <1>1
  <2> QED BY <2>3, <2>4, <2>5, <2>6, <2>7 DEF CallOK, Delay, Ready, Budgeted
<1> QED BY <1>3, <1>4, <1>5

LEMMA RevokeKeeps == ASSUME TransportInv, Revoke PROVE TransportInv'
<1>1. /\ UNCHANGED <<at, callVars, token, life, tokenLock, issued, groupVars, sends>>
      /\ faults' \in 0..MaxFaults /\ dead' \subseteq 1..issued
  BY TransportAssumption DEF Revoke, TransportInv, TypeOK
<1> QED BY <1>1 DEF callVars, groupVars, TransportInv, TypeOK, CallOK, Budgeted, Delay, Ready

\* A step that leaves the groups alone, to a place without a lock.
LEMMA Elsewhere ==
  ASSUME NEW c \in Calls, TransportInv, TypeOK', UNCHANGED <<groupVars, sends>>, SparesCalls(c),
         at[c] \notin Ended, at'[c] \notin Holding \cup {"backoff"}
  PROVE  TransportInv'
<1>1. Spares(c)
  BY DEF Spares, SparesCalls, groupVars
<1>2. CallOK(c)'
  BY DEF TransportInv, CallOK, SparesCalls, Holding, Ended
<1>3. quiet' = since'
  BY DEF TransportInv, groupVars
<1> QED BY <1>1, <1>2, <1>3, OneCall

\* The rest of TypeOK.
OtherTypes ==
  /\ plan \in Mixes
  /\ issued \in Nat /\ token \in 0..issued /\ life \in 0..Life
  /\ tokenLock \in Calls \cup {Nobody} /\ groupLock \in [Groups -> Calls \cup {Nobody}]
  /\ since \in [Groups -> 0..MaxInterval] /\ quiet \in [Groups -> 0..MaxInterval]
  /\ interval \in [Groups -> Interval..MaxInterval] /\ limit \in [Groups -> 0..RetryAfter]
  /\ dead \subseteq 1..issued /\ sends \in [Calls -> Nat] /\ faults \in 0..MaxFaults

LEMMA TypesJoin == CallTypes' /\ OtherTypes' => TypeOK'
BY DEF CallTypes, OtherTypes, TypeOK, Places

LEMMA TypesSplit == TypeOK => CallTypes /\ OtherTypes
BY DEF CallTypes, OtherTypes, TypeOK, Places

LEMMA BeginKeeps == ASSUME NEW c \in Calls, TransportInv, Begin(c) PROVE TransportInv'
<1>1. /\ at[c] = "idle" /\ at' = [at EXCEPT ![c] = "lookup"]
      /\ left' = [left EXCEPT ![c] = plan[c].budget]
      /\ UNCHANGED <<plan, lane, mine, again, tries, due, wait, tokenVars, groupVars, sends, faults>>
  BY DEF Begin
<1>2. plan[c].budget \in Nat
  BY PlansAreTyped DEF TransportInv
<1>3. TypeOK'
  BY <1>1, <1>2 DEF TransportInv, TypeOK, tokenVars, groupVars
<1>4. SparesCalls(c) /\ at'[c] = "lookup"
  BY <1>1 DEF SparesCalls, TransportInv, TypeOK
<1> QED BY <1>1, <1>3, <1>4, Elsewhere DEF Ended, Holding

LEMMA LookupKeeps == ASSUME NEW c \in Calls, TransportInv, Lookup(c) PROVE TransportInv'
<1>1. PICK place \in {"take", "tokenLock"} : Go(c, place)
  BY DEF Lookup
<1>2. at[c] = "lookup" /\ UNCHANGED <<tokenVars, groupVars, sends, faults>>
  BY DEF Lookup
<1>3. place \in Places /\ place \notin Holding \cup {"backoff"} /\ issued' = issued
  BY <1>2 DEF Places, Holding, tokenVars
<1>4. CallTypes' /\ SparesCalls(c) /\ at'[c] = place
  BY <1>1, <1>3, GoGives DEF TransportInv
<1>5. TypeOK'
  BY <1>1, <1>2, <1>4, TypesSplit, TypesJoin
     DEF TransportInv, OtherTypes, tokenVars, groupVars, Go, callVars
<1> QED BY <1>2, <1>3, <1>4, <1>5, Elsewhere DEF Ended

LEMMA TakeKeeps == ASSUME NEW c \in Calls, TransportInv, Take(c) PROVE TransportInv'
<1>1. at[c] = "take" /\ UNCHANGED <<tokenVars, groupVars, sends, faults>>
  BY DEF Take
<1>2. issued' = issued /\ token \in Nat /\ token <= issued /\ issued \in Nat
  BY <1>1 DEF TransportInv, TypeOK, tokenVars
<1>3. /\ CallTypes' /\ SparesCalls(c) /\ at'[c] \in {"groupLock", "tokenLock", "broken"}
  <2>1. CASE UseToken(c, token) \/ UseToken(c, 0)
    BY <1>2, <2>1, UseTokenGives DEF TransportInv
  <2>2. CASE \E place \in {"tokenLock", "broken"} : Go(c, place)
    BY <1>2, <2>2, GoGives DEF TransportInv, Places, Ended
  <2> QED BY <2>1, <2>2 DEF Take
<1>4. TypeOK'
  BY <1>1, <1>3, TypesSplit, TypesJoin DEF TransportInv, OtherTypes, tokenVars, groupVars, SparesCalls
<1> QED BY <1>1, <1>3, <1>4, Elsewhere DEF Ended, Holding
LEMMA LockTokenKeeps == ASSUME NEW c \in Calls, TransportInv, LockToken(c) PROVE TransportInv'
<1>1. at[c] = "tokenLock" /\ UNCHANGED <<token, life, issued, dead, groupVars, sends, faults>>
  BY DEF LockToken
<1>2. token \in Nat /\ token <= issued /\ issued \in Nat
  BY DEF TransportInv, TypeOK
<1>3. /\ CallTypes' /\ SparesCalls(c) /\ at'[c] = "groupLock"
      /\ tokenLock' \in Calls \cup {Nobody}
  <2>1. CASE UseToken(c, token) /\ UNCHANGED tokenLock
    BY <1>1, <1>2, <2>1, UseTokenGives DEF TransportInv, TypeOK
  <2>2. CASE /\ tokenLock' = c
             /\ lane' = [lane EXCEPT ![c] = "AUTH"]
             /\ at' = [at EXCEPT ![c] = "groupLock"]
             /\ UNCHANGED <<plan, mine, again, tries, due, wait, left>>
    <3>1. "AUTH" \in Groups /\ "groupLock" \in Places
      BY DEF Groups, Places
    <3>2. CallTypes /\ CallTypes'
      BY <2>2, <3>1, <1>1, TypesSplit DEF TransportInv, CallTypes
    <3> QED BY <2>2, <3>2 DEF CallTypes, SparesCalls
  <2> QED BY <2>1, <2>2 DEF LockToken
<1>4. TypeOK'
  BY <1>1, <1>3, TypesSplit, TypesJoin DEF TransportInv, OtherTypes, groupVars, SparesCalls
<1> QED BY <1>1, <1>3, <1>4, Elsewhere DEF Ended, Holding

LEMMA InvalidateKeeps == ASSUME NEW c \in Calls, TransportInv, Invalidate(c) PROVE TransportInv'
<1>1. /\ at[c] = "invalidate" /\ Go(c, "lookup")
      /\ UNCHANGED <<tokenLock, issued, dead, groupVars, sends, faults>>
  BY DEF Invalidate
<1>2. token' \in 0..issued /\ life' \in 0..Life
  BY TransportAssumption DEF Invalidate, Forget, TransportInv, TypeOK
<1>3. CallTypes' /\ SparesCalls(c) /\ at'[c] = "lookup"
  BY <1>1, GoGives DEF TransportInv, Places
<1>4. TypeOK'
  BY <1>1, <1>2, <1>3, TypesSplit, TypesJoin DEF TransportInv, OtherTypes, groupVars, SparesCalls
<1> QED BY <1>1, <1>3, <1>4, Elsewhere DEF Ended, Holding

LEMMA YieldKeeps == ASSUME NEW c \in Calls, TransportInv, Yield(c) PROVE TransportInv'
<1>1. /\ at[c] \in {"tokenLock", "groupLock", "invalidate"} /\ End(c, "yielded")
      /\ UNCHANGED <<token, life, issued, dead, groupVars, sends, faults>>
  BY DEF Yield
<1>2. CallTypes' /\ SparesCalls(c) /\ at'[c] = "yielded" /\ tokenLock' \in Calls \cup {Nobody}
  BY <1>1, EndGives DEF TransportInv, Ended
<1>3. TypeOK'
  BY <1>1, <1>2, TypesSplit, TypesJoin DEF TransportInv, OtherTypes, groupVars, SparesCalls
<1> QED BY <1>1, <1>2, <1>3, Elsewhere DEF Ended, Holding

LEMMA BackoffOverKeeps == ASSUME NEW c \in Calls, TransportInv, BackoffOver(c) PROVE TransportInv'
<1>1. /\ at[c] = "backoff" /\ Go(c, "groupLock")
      /\ UNCHANGED <<tokenVars, groupVars, sends, faults>>
  BY DEF BackoffOver
<1>2. CallTypes' /\ SparesCalls(c) /\ at'[c] = "groupLock"
  BY <1>1, GoGives DEF TransportInv, Places, tokenVars
<1>3. TypeOK'
  BY <1>1, <1>2, TypesSplit, TypesJoin DEF TransportInv, OtherTypes, tokenVars, groupVars, SparesCalls
<1> QED BY <1>1, <1>2, <1>3, Elsewhere DEF Ended, Holding

LEMMA LockGroupKeeps == ASSUME NEW c \in Calls, TransportInv, LockGroup(c) PROVE TransportInv'
<1> DEFINE g == lane[c]
<1>1. /\ at[c] = "groupLock" /\ groupLock[g] = Nobody /\ limit' = limit
      /\ UNCHANGED <<token, life, issued, dead, since, interval, quiet, sends, faults>>
  BY DEF LockGroup
<1>2. g \in Groups /\ limit' \in [Groups -> 0..RetryAfter] /\ CallOK(c)
  BY <1>1 DEF TransportInv, TypeOK
<1>3. CASE Retry(c, "429") /\ UNCHANGED groupLock
  <2>1. /\ CallTypes' /\ SparesCalls(c) /\ tokenLock' \in Calls \cup {Nobody}
        /\ at'[c] \in {"backoff", "yielded", "failed"}
        /\ at'[c] = "backoff" => plan[c].get /\ (Budgeted(c) => wait'[c] < left'[c])
    BY <1>1, <1>2, <1>3, RetryGives DEF TransportInv
  <2>2. TypeOK'
    BY <1>1, <1>3, <2>1, TypesSplit, TypesJoin DEF TransportInv, OtherTypes, SparesCalls
  <2>3. Spares(c) /\ plan' = plan
    BY <1>1, <1>3, <2>1 DEF Spares, SparesCalls
  <2>4. CallOK(c)'
    BY <1>1, <1>2, <2>1, <2>3 DEF CallOK, Holding, Ended, Budgeted
  <2> QED BY <1>1, <2>2, <2>3, <2>4, OneCall DEF TransportInv
<1>4. CASE End(c, "yielded") /\ UNCHANGED groupLock
  <2>1. CallTypes' /\ SparesCalls(c) /\ at'[c] = "yielded" /\ tokenLock' \in Calls \cup {Nobody}
    BY <1>1, <1>4, EndGives DEF TransportInv, Ended
  <2>2. TypeOK'
    BY <1>1, <1>4, <2>1, TypesSplit, TypesJoin DEF TransportInv, OtherTypes, SparesCalls
  <2> QED BY <1>1, <1>4, <2>1, <2>2, Elsewhere DEF Ended, Holding, groupVars
<1>5. CASE /\ limit[g] = 0 /\ (Affords(c, Delay(g)) \/ Delay(g) <= 0)
           /\ groupLock' = [groupLock EXCEPT ![g] = c]
           /\ Go(c, "spacing") /\ UNCHANGED tokenLock
  <2>1. /\ CallTypes' /\ SparesCalls(c) /\ at'[c] = "spacing" /\ lane' = lane /\ left' = left
        /\ plan' = plan
    BY <1>1, <1>5, GoGives DEF TransportInv, Places, callVars
  <2>2. groupLock' \in [Groups -> Calls \cup {Nobody}]
    BY <1>5 DEF TransportInv, TypeOK
  <2>3. TypeOK'
    BY <1>1, <1>5, <2>1, <2>2, TypesSplit, TypesJoin DEF TransportInv, OtherTypes, SparesCalls
  <2>4. Spares(c)
    BY <1>1, <1>2, <1>5, <2>1 DEF Spares, SparesCalls, TransportInv, TypeOK
  <2>5. groupLock'[g] = c
    BY <1>2, <1>5 DEF TransportInv, TypeOK
  <2>6. Budgeted(c) => Delay(g) < left[c] \/ Ready(g)
    <3>1. since[g] \in Int /\ interval[g] \in Int
      BY <1>2, TransportAssumption DEF TransportInv, TypeOK
    <3> QED BY <3>1, <1>5 DEF Affords, Delay, Ready
  <2>7. CallOK(c)'
    BY <1>1, <1>2, <1>5, <2>1, <2>5, <2>6 DEF CallOK, Holding, Ended, Budgeted, Delay, Ready
  <2> QED BY <1>1, <2>3, <2>4, <2>7, OneCall DEF TransportInv
<1> QED BY <1>3, <1>4, <1>5 DEF LockGroup

LEMMA SendKeeps == ASSUME NEW c \in Calls, TransportInv, Send(c) PROVE TransportInv'
<1>1. /\ at[c] = "spacing" /\ Go(c, "sent")
      /\ UNCHANGED <<tokenVars, groupVars, sends, faults>>
  BY DEF Send
<1>2. CallTypes' /\ SparesCalls(c) /\ at'[c] = "sent" /\ lane' = lane
  BY <1>1, GoGives DEF TransportInv, Places, tokenVars
<1>3. TypeOK'
  BY <1>1, <1>2, TypesSplit, TypesJoin DEF TransportInv, OtherTypes, tokenVars, groupVars, SparesCalls
<1>4. Spares(c)
  BY <1>1, <1>2 DEF Spares, SparesCalls, groupVars
<1>5. CallOK(c)'
  BY <1>1, <1>2 DEF TransportInv, CallOK, Holding, Ended, groupVars, SparesCalls
<1> QED BY <1>1, <1>3, <1>4, <1>5, OneCall DEF TransportInv, groupVars

\* A call gives its group back; the others' groups are as they were.
LEMMA GroupGivenBack ==
  ASSUME NEW c \in Calls, TransportInv, at[c] \in Holding, SparesCalls(c),
         groupLock' = [groupLock EXCEPT ![lane[c]] = Nobody],
         \A d \in Calls \ {c} : sends'[d] = sends[d],
         \A g \in Groups \ {lane[c]} :
           since'[g] = since[g] /\ interval'[g] = interval[g] /\ limit'[g] = limit[g]
  PROVE  Spares(c) /\ groupLock' \in [Groups -> Calls \cup {Nobody}]
<1>1. groupLock[lane[c]] = c /\ lane[c] \in Groups
  BY DEF TransportInv, CallOK, TypeOK
<1>2. groupLock \in [Groups -> Calls \cup {Nobody}]
  BY DEF TransportInv, TypeOK
<1> QED BY <1>1, <1>2 DEF Spares, SparesCalls

LEMMA TooLateKeeps == ASSUME NEW c \in Calls, TransportInv, TooLate(c) PROVE TransportInv'
<1>1. /\ at[c] = "spacing" /\ End(c, "yielded")
      /\ groupLock' = [groupLock EXCEPT ![lane[c]] = Nobody]
      /\ UNCHANGED <<token, life, issued, dead, since, interval, limit, quiet, sends, faults>>
  BY DEF TooLate
<1>2. CallTypes' /\ SparesCalls(c) /\ at'[c] = "yielded" /\ tokenLock' \in Calls \cup {Nobody}
  BY <1>1, EndGives DEF TransportInv, Ended
<1>3. Spares(c) /\ groupLock' \in [Groups -> Calls \cup {Nobody}]
  BY <1>1, <1>2, GroupGivenBack DEF Holding
<1>4. TypeOK'
  BY <1>1, <1>2, <1>3, TypesSplit, TypesJoin DEF TransportInv, OtherTypes, SparesCalls
<1>5. CallOK(c)'
  BY <1>1, <1>2 DEF TransportInv, CallOK, Holding, Ended, SparesCalls
<1> QED BY <1>1, <1>3, <1>4, <1>5, OneCall DEF TransportInv
-----------------------------------------------------------------------------
(* Answers.                                                                  *)

LEMMA HeardGives ==
  ASSUME NEW g \in Groups, TransportInv, Heard(g) \/ UNCHANGED <<since, quiet>>
  PROVE  /\ since' \in [Groups -> 0..MaxInterval] /\ quiet' \in [Groups -> 0..MaxInterval]
         /\ quiet' = since' /\ \A h \in Groups \ {g} : since'[h] = since[h]
BY TransportAssumption DEF TransportInv, TypeOK, Heard

LEMMA CountedGives ==
  ASSUME NEW c \in Calls, TransportInv, at[c] = "sent", Counted(c)
  PROVE  /\ sends' \in [Calls -> Nat] /\ \A d \in Calls \ {c} : sends'[d] = sends[d]
         /\ ~plan[c].get => sends'[c] <= 1
         /\ lane[c] = "AUTH" => sends'[c] = sends[c]
BY DEF TransportInv, TypeOK, Counted, CallOK, Ended

\* An answer that takes the call to a place without a lock.
LEMMA Answered ==
  ASSUME NEW c \in Calls, TransportInv, at[c] = "sent", Released(c), SparesCalls(c), CallTypes',
         Heard(lane[c]) \/ UNCHANGED <<since, quiet>>,
         tokenLock' \in Calls \cup {Nobody}, issued' \in Nat, token' \in 0..issued',
         life' \in 0..Life, dead' = dead, issued <= issued',
         interval' \in [Groups -> Interval..MaxInterval], limit' \in [Groups -> 0..RetryAfter],
         \A g \in Groups \ {lane[c]} : interval'[g] = interval[g] /\ limit'[g] = limit[g],
         faults' \in 0..MaxFaults,
         sends' \in [Calls -> Nat], \A d \in Calls \ {c} : sends'[d] = sends[d],
         at'[c] \notin Holding,
         ~plan[c].get => sends'[c] <= 1 /\ (at'[c] \notin Ended => sends'[c] = 0),
         Budgeted(c) /\ at'[c] = "backoff" => wait'[c] < left'[c]
  PROVE  TransportInv'
<1>1. lane[c] \in Groups
  BY DEF TransportInv, TypeOK
<1>2. /\ since' \in [Groups -> 0..MaxInterval] /\ quiet' \in [Groups -> 0..MaxInterval]
      /\ quiet' = since' /\ \A h \in Groups \ {lane[c]} : since'[h] = since[h]
  BY <1>1, HeardGives
<1>3. Spares(c) /\ groupLock' \in [Groups -> Calls \cup {Nobody}]
  BY <1>2, GroupGivenBack DEF Released, Holding
<1>4. dead' \subseteq 1..issued' /\ plan' \in Mixes
  BY DEF TransportInv, TypeOK, SparesCalls
<1>5. TypeOK'
  BY <1>2, <1>3, <1>4, TypesJoin DEF OtherTypes
<1>6. CallOK(c)'
  BY DEF SparesCalls, CallOK, Budgeted, Holding
<1> QED BY <1>2, <1>3, <1>5, <1>6, OneCall

LEMMA AnswerKeeps == ASSUME NEW c \in Calls, TransportInv, Answer(c) PROVE TransportInv'
<1> DEFINE g == lane[c]
<1>1. /\ at[c] = "sent" /\ Heard(g) /\ Released(c) /\ Counted(c)
      /\ UNCHANGED <<dead, limit, faults>>
  BY DEF Answer
<1>2. PICK pace \in Interval..MaxInterval : interval' = [interval EXCEPT ![g] = Later(@, pace)]
  BY DEF Answer
<1>3. /\ interval' \in [Groups -> Interval..MaxInterval]
      /\ \A h \in Groups \ {g} : interval'[h] = interval[h]
      /\ issued \in Nat /\ limit' \in [Groups -> 0..RetryAfter] /\ faults' \in 0..MaxFaults
  BY <1>1, <1>2, TransportAssumption DEF TransportInv, TypeOK, Later
<1>4. /\ sends' \in [Calls -> Nat] /\ \A d \in Calls \ {c} : sends'[d] = sends[d]
      /\ ~plan[c].get => sends'[c] <= 1
      /\ g = "AUTH" => sends'[c] = sends[c]
  BY <1>1, CountedGives
<1>5. ~plan[c].get => sends[c] = 0
  BY <1>1 DEF TransportInv, CallOK, Ended
<1>6. CASE /\ g = "AUTH" /\ issued' = issued + 1 /\ token' = issued' /\ life' = Life
           /\ UseToken(c, issued') /\ LeaveTokenLock(c)
  <2>1. issued' \in Nat /\ issued <= issued' /\ token' \in 0..issued' /\ life' \in 0..Life
    BY <1>3, <1>6, TransportAssumption
  <2>2. CallTypes' /\ SparesCalls(c) /\ at'[c] = "groupLock"
    BY <1>3, <1>6, <2>1, UseTokenGives DEF TransportInv
  <2>3. tokenLock' \in Calls \cup {Nobody}
    BY <1>6 DEF LeaveTokenLock, TransportInv, TypeOK
  <2>4. at'[c] \notin Holding /\ at'[c] # "backoff"
    BY <2>2 DEF Holding
  <2> QED BY <1>1, <1>3, <1>4, <1>5, <1>6, <2>1, <2>2, <2>3, <2>4, Answered
<1>7. CASE End(c, "done") /\ UNCHANGED <<token, life, issued>>
  <2>1. CallTypes' /\ SparesCalls(c) /\ at'[c] = "done" /\ tokenLock' \in Calls \cup {Nobody}
    BY <1>7, EndGives DEF TransportInv, Ended
  <2>2. /\ at'[c] \notin Holding /\ at'[c] # "backoff" /\ at'[c] \in Ended
        /\ token' \in 0..issued' /\ life' \in 0..Life /\ issued <= issued' /\ issued' \in Nat
    BY <2>1, <1>7 DEF Holding, Ended, TransportInv, TypeOK
  <2> QED BY <1>1, <1>3, <1>4, <2>1, <2>2, Answered
<1> QED BY <1>6, <1>7 DEF Answer

LEMMA RefusedKeeps == ASSUME NEW c \in Calls, TransportInv, Refused(c) PROVE TransportInv'
<1>1. /\ at[c] = "sent" /\ Heard(lane[c]) /\ Released(c)
      /\ UNCHANGED <<token, life, issued, dead, interval, limit, sends, faults>>
  BY DEF Refused
<1>2. /\ CallTypes' /\ SparesCalls(c) /\ at'[c] \in {"invalidate", "failed"}
      /\ tokenLock' \in Calls \cup {Nobody}
  <2>1. CASE End(c, "failed")
    BY <1>1, <2>1, EndGives DEF TransportInv, Ended
  <2>2. CASE /\ again' = [again EXCEPT ![c] = TRUE]
             /\ at' = [at EXCEPT ![c] = "invalidate"]
             /\ UNCHANGED <<plan, lane, mine, tries, due, wait, left, tokenLock>>
    BY <1>1, <2>2 DEF TransportInv, TypeOK, CallTypes, SparesCalls, Places
  <2> QED BY <2>1, <2>2 DEF Refused
<1>3. /\ at'[c] \notin Holding /\ at'[c] # "backoff"
  BY <1>2 DEF Holding
<1>4. ~plan[c].get => sends'[c] = 0
  BY <1>1 DEF TransportInv, CallOK, Ended
<1>5. /\ token' \in 0..issued' /\ life' \in 0..Life /\ issued' \in Nat /\ issued <= issued'
      /\ interval' \in [Groups -> Interval..MaxInterval] /\ limit' \in [Groups -> 0..RetryAfter]
      /\ faults' \in 0..MaxFaults /\ sends' \in [Calls -> Nat]
  BY <1>1 DEF TransportInv, TypeOK
<1> QED BY <1>1, <1>2, <1>3, <1>4, <1>5, Answered

\* What 429 and other errors have in common.
LEMMA ErrorKeeps ==
  ASSUME NEW c \in Calls, NEW error, TransportInv, at[c] = "sent", Released(c), Counted(c),
         Retry(c, error), faults < MaxFaults, faults' = faults + 1,
         Heard(lane[c]) \/ UNCHANGED <<since, quiet>>,
         UNCHANGED <<token, life, issued, dead>>,
         limit' \in [Groups -> 0..RetryAfter], interval' \in [Groups -> Interval..MaxInterval],
         \A g \in Groups \ {lane[c]} : interval'[g] = interval[g] /\ limit'[g] = limit[g]
  PROVE  TransportInv'
<1>1. /\ CallTypes' /\ SparesCalls(c) /\ tokenLock' \in Calls \cup {Nobody}
      /\ at'[c] \in {"backoff", "yielded", "failed"}
      /\ at'[c] = "backoff" => plan[c].get /\ (Budgeted(c) => wait'[c] < left'[c])
  BY RetryGives DEF TransportInv
<1>2. /\ sends' \in [Calls -> Nat] /\ \A d \in Calls \ {c} : sends'[d] = sends[d]
      /\ ~plan[c].get => sends'[c] <= 1
  BY CountedGives
<1>3. faults' \in 0..MaxFaults
  BY TransportAssumption DEF TransportInv, TypeOK
<1>4. /\ token' \in 0..issued' /\ life' \in 0..Life /\ issued' \in Nat /\ issued <= issued'
  BY DEF TransportInv, TypeOK
<1>5. at'[c] \notin Holding /\ (~plan[c].get => at'[c] \in Ended)
  BY <1>1 DEF Holding, Ended
<1> QED BY <1>1, <1>2, <1>3, <1>4, <1>5, Answered

LEMMA LimitedKeeps == ASSUME NEW c \in Calls, TransportInv, Limited(c) PROVE TransportInv'
<1>1. lane[c] \in Groups /\ RetryAfter \in 0..RetryAfter
  BY TransportAssumption DEF TransportInv, TypeOK
<1>2. limit' \in [Groups -> 0..RetryAfter] /\ interval' \in [Groups -> Interval..MaxInterval]
  BY <1>1, TimersAreTyped DEF Limited, TransportInv, TypeOK, Later
<1>3. \A g \in Groups \ {lane[c]} : interval'[g] = interval[g] /\ limit'[g] = limit[g]
  BY DEF Limited, TransportInv, TypeOK
<1> QED BY <1>2, <1>3, ErrorKeeps DEF Limited

LEMMA FailedKeeps ==
  ASSUME NEW c \in Calls, NEW error \in {"5xx", "4xx", "network", "invalid"}, TransportInv,
         Failed(c, error)
  PROVE  TransportInv'
<1>1. /\ limit' \in [Groups -> 0..RetryAfter] /\ interval' \in [Groups -> Interval..MaxInterval]
      /\ limit' = limit /\ interval' = interval
  BY DEF Failed, TransportInv, TypeOK
<1>2. Heard(lane[c]) \/ UNCHANGED <<since, quiet>>
  BY DEF Failed
<1> QED BY <1>1, <1>2, ErrorKeeps DEF Failed

LEMMA NextKeeps == ASSUME TransportInv, [Next]_vars PROVE TransportInv'
<1>1. ASSUME NEW c \in Calls, Step(c) PROVE TransportInv'
  <2>1. CASE Begin(c) \/ Lookup(c) \/ Take(c) \/ LockToken(c) \/ Invalidate(c) \/ Yield(c)
    BY <2>1, BeginKeeps, LookupKeeps, TakeKeeps, LockTokenKeeps, InvalidateKeeps, YieldKeeps
  <2>2. CASE LockGroup(c) \/ Send(c) \/ TooLate(c) \/ BackoffOver(c)
    BY <2>2, LockGroupKeeps, SendKeeps, TooLateKeeps, BackoffOverKeeps
  <2>3. CASE Answer(c) \/ Refused(c) \/ Limited(c)
    BY <2>3, AnswerKeeps, RefusedKeeps, LimitedKeeps
  <2>4. CASE \E error \in {"5xx", "4xx", "network", "invalid"} : Failed(c, error)
    BY <2>4, FailedKeeps
  <2> QED BY <1>1, <2>1, <2>2, <2>3, <2>4 DEF Step
<1>2. CASE UNCHANGED vars
  BY <1>2 DEF vars, callVars, tokenVars, groupVars, TransportInv, TypeOK, CallOK, Budgeted, Delay,
              Ready
<1> QED BY <1>1, <1>2, TickKeeps, RevokeKeeps DEF Next

LEMMA TransportInvHolds == Spec => []TransportInv
<1>1. Init => TransportInv
  BY InitIsOK
<1>2. TransportInv /\ [Next]_vars => TransportInv'
  BY NextKeeps
<1> QED BY <1>1, <1>2, PTL DEF Spec

-----------------------------------------------------------------------------

\* An order is never sent a second time when the first may have been carried out
\* or was limited, whatever fails and whoever else uses the token.
THEOREM OrdersAreNotRepeated == Spec => []OrdersGoOutOnce
<1>1. TransportInv => OrdersGoOutOnce
  BY DEF TransportInv, CallOK, OrdersGoOutOnce
<1> QED BY <1>1, TransportInvHolds, PTL

\* A call that has a budget never starts a wait that would outlast it.
THEOREM BudgetsHold == Spec => []BudgetIsKept
<1>1. TransportInv => BudgetIsKept
  BY DEF TransportInv, CallOK, BudgetIsKept
<1> QED BY <1>1, TransportInvHolds, PTL

\* Only Send lets a request go out.
LEMMA OnlySendStarts == ASSUME TypeOK, Next, NEW c \in Calls, Starts(c) PROVE Send(c)
<1> DEFINE GoesBy(b) == \E place : place # "sent" /\ at' = [at EXCEPT ![b] = place]
<1>1. ASSUME NEW b \in Calls, NEW how, how # "sent", End(b, how) \/ Go(b, how) PROVE GoesBy(b)
  BY <1>1 DEF End, Go
<1>2. ASSUME NEW b \in Calls, NEW t, UseToken(b, t) PROVE GoesBy(b)
  BY <1>2 DEF UseToken
<1>3. ASSUME NEW b \in Calls, NEW error, Retry(b, error) PROVE GoesBy(b)
  BY <1>1, <1>3 DEF Retry
<1>4. ASSUME NEW b \in Calls, Step(b), ~Send(b) PROVE GoesBy(b)
  <2>1. CASE Begin(b) \/ Lookup(b) \/ Take(b)
    BY <1>1, <1>2, <2>1 DEF Begin, Lookup, Take
  <2>2. CASE LockToken(b) \/ Invalidate(b) \/ Yield(b)
    BY <1>1, <1>2, <2>2 DEF LockToken, Invalidate, Yield
  <2>3. CASE LockGroup(b) \/ TooLate(b) \/ BackoffOver(b)
    BY <1>1, <1>3, <2>3 DEF LockGroup, TooLate, BackoffOver
  <2>4. CASE Answer(b) \/ Refused(b) \/ Limited(b)
    BY <1>1, <1>2, <1>3, <2>4 DEF Answer, Refused, Limited
  <2>5. CASE \E error \in {"5xx", "4xx", "network", "invalid"} : Failed(b, error)
    BY <1>3, <2>5 DEF Failed
  <2> QED BY <1>4, <2>1, <2>2, <2>3, <2>4, <2>5 DEF Step
<1>5. at' # at
  BY DEF Starts
<1>6. PICK b \in Calls : Step(b)
  BY <1>5 DEF Next, Tick, Revoke
<1>7. ~Send(b) => at'[c] = at[c] \/ at'[c] # "sent"
  BY <1>4, <1>6 DEF TypeOK
<1>8. Send(b) => b = c
  BY DEF Send, Go, Starts, TypeOK
<1> QED BY <1>6, <1>7, <1>8 DEF Starts

\* Requests of a group go out one at a time, at its pace and not while it rests,
\* whichever threads they come from.
THEOREM PacesHold == Spec => GroupsArePaced
<1> DEFINE Paced ==
      \A c \in Calls : Starts(c) =>
        LET g == lane'[c]
        IN /\ quiet[g] >= interval[g] /\ limit[g] = 0
           /\ \A d \in Calls \ {c} : ~(at[d] = "sent" /\ lane[d] = g)
<1>1. ASSUME TransportInv, [Next]_vars PROVE [Paced]_vars
  <2> SUFFICES ASSUME Next, NEW c \in Calls, Starts(c)
               PROVE  LET g == lane'[c]
                      IN /\ quiet[g] >= interval[g] /\ limit[g] = 0
                         /\ \A d \in Calls \ {c} : ~(at[d] = "sent" /\ lane[d] = g)
    BY <1>1
  <2>1. Send(c)
    BY <1>1, OnlySendStarts DEF TransportInv
  <2>2. at[c] = "spacing" /\ Ready(lane[c]) /\ lane' = lane /\ limit[lane[c]] = 0
        /\ groupLock[lane[c]] = c
    BY <1>1, <2>1 DEF Send, Go, callVars, TransportInv, CallOK, Holding
  <2>3. ASSUME NEW d \in Calls \ {c}, at[d] = "sent", lane[d] = lane[c] PROVE FALSE
    BY <1>1, <2>2, <2>3 DEF TransportInv, CallOK, Holding
  <2> QED BY <1>1, <2>2, <2>3 DEF Ready, TransportInv
<1> QED BY <1>1, TransportInvHolds, PTL DEF Spec, GroupsArePaced
===============================================================================
