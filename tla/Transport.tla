------------------------------- MODULE Transport -------------------------------
(***************************************************************************)
(* Requests of one TossClient to the broker (auto_trader/brokers/toss/        *)
(* transport.py and request_budget.py): the shared access token, one lock and  *)
(* one pace per group of endpoints, rate limits, retries and the time budget   *)
(* of maintenance reads.  The calls run in threads of a pool and share the      *)
(* client's fields.                                                           *)
(*                                                                         *)
(* Time is kept in timers: since counts up to the longest interval, the others *)
(* count down to zero.                                                        *)
(***************************************************************************)
EXTENDS Integers, FiniteSets

CONSTANTS
  Calls,        \* calls of _authorized_json_request
  Nobody,
  Mixes,        \* what the calls may be: each is [group, get, budget]; budget 0 is none
  Charts,       \* the groups of candles
  Interval,     \* seconds between two requests of a group, at first
  MaxInterval,  \* and at most
  RetryAfter,   \* how long a rate limit lasts
  Backoff,      \* wait before a repeated read of candles
  Patience,     \* no retry that would end later than this
  Life,         \* how long the client uses a token
  MaxFaults     \* bound: answers that are not the wanted one

ASSUME TransportAssumption ==
  /\ Nobody \notin Calls
  /\ \A m \in Mixes : m \in [Calls -> [group : STRING, get : BOOLEAN, budget : Nat]]
  /\ Interval \in Nat \ {0} /\ MaxInterval \in Nat /\ Interval <= MaxInterval
  /\ RetryAfter \in Nat \ {0} /\ Backoff \in Nat \ {0} /\ Patience \in Nat
  /\ Life \in Nat \ {0} /\ MaxFaults \in Nat

VARIABLES
  plan,       \* of each call
  at,         \* where each call is
  lane,       \* the group of the request it is making: its own or AUTH
  mine,       \* the token it has; 0 is None
  again,      \* whether it has replaced a rejected token
  tries,      \* attempts of _json_request so far
  due,        \* time left for retries
  wait,       \* time it still waits, holding nothing
  left,       \* time left of its budget
  token,      \* _access_token, 0 is None
  life,       \* time to _token_expires_at
  tokenLock,  \* _token_lock
  groupLock,  \* _group_locks
  since,      \* time since _group_last_request_at
  interval,   \* _group_intervals
  limit,      \* time to _group_rate_limit_until
  issued,     \* history: tokens issued; the last one is number issued
  dead,       \* external: tokens the broker does not accept any more
  sends,       \* history: requests of a call that were not refused for their token
  quiet,      \* history: time since the group was last heard of
  faults      \* history: answers that were not the wanted one

callVars == <<plan, lane, mine, again, tries, due, wait, left>>
tokenVars == <<token, life, tokenLock, issued, dead>>
groupVars == <<groupLock, since, interval, limit, quiet>>
vars == <<at, callVars, tokenVars, groupVars, sends, faults>>

Own == UNION {{m[c].group : c \in Calls} : m \in Mixes}
Groups == Own \cup {"AUTH"}
Ended == {"done", "failed", "yielded", "broken"}
Shorter(n) == IF n = 0 THEN 0 ELSE n - 1

Longer(n) == IF n = MaxInterval THEN n ELSE n + 1
Later(m, n) == IF m < n THEN n ELSE m

Init ==
  /\ plan \in Mixes
  /\ at = [c \in Calls |-> "idle"]
  /\ lane = [c \in Calls |-> "AUTH"] /\ mine = [c \in Calls |-> 0]
  /\ again = [c \in Calls |-> FALSE] /\ tries = [c \in Calls |-> 0]
  /\ due = [c \in Calls |-> 0] /\ wait = [c \in Calls |-> 0] /\ left = [c \in Calls |-> 0]
  /\ token = 0 /\ life = 0 /\ tokenLock = Nobody
  /\ groupLock = [g \in Groups |-> Nobody]
  /\ since = [g \in Groups |-> MaxInterval] /\ interval = [g \in Groups |-> Interval]
  /\ limit = [g \in Groups |-> 0]
  /\ issued = 0 /\ dead = {} /\ sends = [c \in Calls |-> 0]
  /\ quiet = [g \in Groups |-> MaxInterval] /\ faults = 0

-----------------------------------------------------------------------------
(* Time, and the broker's own doings: external.                              *)

\* The waits of request_wait are over, locks expire, the token grows old.
Tick ==
  /\ life' = Shorter(life)
  /\ due' = [c \in Calls |-> Shorter(due[c])]
  /\ wait' = [c \in Calls |-> Shorter(wait[c])]
  /\ left' = [c \in Calls |-> Shorter(left[c])]
  /\ since' = [g \in Groups |-> Longer(since[g])]
  /\ quiet' = [g \in Groups |-> Longer(quiet[g])]
  /\ limit' = [g \in Groups |-> Shorter(limit[g])]
  /\ UNCHANGED <<at, plan, lane, mine, again, tries, token, tokenLock, issued, dead,
                 groupLock, interval, sends, faults>>

\* The broker stops accepting a token before its time.
Revoke ==
  /\ faults < MaxFaults /\ faults' = faults + 1
  /\ \E t \in (1..issued) \ dead : dead' = dead \cup {t}
  /\ UNCHANGED <<at, callVars, token, life, tokenLock, issued, groupVars, sends>>

-----------------------------------------------------------------------------
(* access_token().                                                           *)

\* RequestBudget.remaining(), activate() and check_wait().
Budgeted(c) == plan[c].budget > 0
InTime(c) == Budgeted(c) => left[c] > 0

\* Variant: a wait is not compared with the budget.
AffordsAnything(c, time) == TRUE

Affords(c, time) == Budgeted(c) => time < left[c]

Begin(c) ==
  /\ at[c] = "idle" /\ at' = [at EXCEPT ![c] = "lookup"]
  /\ left' = [left EXCEPT ![c] = plan[c].budget]
  /\ UNCHANGED <<plan, lane, mine, again, tries, due, wait, tokenVars, groupVars, sends, faults>>

\* What access_token() returns; _json_request then makes its first attempt.
UseToken(c, t) ==
  /\ mine' = [mine EXCEPT ![c] = t]
  /\ lane' = [lane EXCEPT ![c] = plan[c].group]
  /\ tries' = [tries EXCEPT ![c] = 0] /\ due' = [due EXCEPT ![c] = Patience]
  /\ at' = [at EXCEPT ![c] = "groupLock"]
  /\ UNCHANGED <<plan, again, wait, left>>

Go(c, place) == at' = [at EXCEPT ![c] = place] /\ UNCHANGED callVars

\* The first test reads the two fields without the lock.
Lookup(c) ==
  /\ at[c] = "lookup"
  /\ Go(c, IF token # 0 THEN "take" ELSE "tokenLock")
  /\ UNCHANGED <<tokenVars, groupVars, sends, faults>>

\* It then reads them again, to compare the time and to return the token.  If
\* they were cleared in between it compares with None, which raises TypeError,
\* or returns None.
Take(c) ==
  /\ at[c] = "take"
  /\ \/ token # 0 /\ life > 0 /\ UseToken(c, token)
     \/ token # 0 /\ life = 0 /\ Go(c, "tokenLock")
     \/ token = 0 /\ Go(c, "broken")
     \/ token = 0 /\ UseToken(c, 0)
  /\ UNCHANGED <<tokenVars, groupVars, sends, faults>>

\* The second test, with the lock: another call may have got a token.
LockToken(c) ==
  /\ at[c] = "tokenLock" /\ tokenLock = Nobody /\ InTime(c)
  /\ \/ token # 0 /\ life > 0 /\ UseToken(c, token) /\ UNCHANGED tokenLock
     \/ /\ token = 0 \/ life = 0
        /\ tokenLock' = c
        /\ lane' = [lane EXCEPT ![c] = "AUTH"]
        /\ at' = [at EXCEPT ![c] = "groupLock"]
        /\ UNCHANGED <<plan, mine, again, tries, due, wait, left>>
  /\ UNCHANGED <<token, life, issued, dead, groupVars, sends, faults>>

\* _invalidate_access_token: another call may have replaced the token already.
Forget(t) == IF token = t THEN token' = 0 /\ life' = 0 ELSE UNCHANGED <<token, life>>

Invalidate(c) ==
  /\ at[c] = "invalidate" /\ tokenLock = Nobody /\ InTime(c)
  /\ Forget(mine[c])
  /\ Go(c, "lookup")
  /\ UNCHANGED <<tokenLock, issued, dead, groupVars, sends, faults>>

-----------------------------------------------------------------------------
(* _json_request and _json_request_once.                                     *)

\* Variant: an error leaves the token locked.
LeaveLocked(c) == UNCHANGED tokenLock

LeaveTokenLock(c) == tokenLock' = IF tokenLock = c THEN Nobody ELSE tokenLock

\* The call returns or raises: its locals are gone, and a token request leaves
\* the token lock.
End(c, how) ==
  /\ at' = [at EXCEPT ![c] = how]
  /\ lane' = [lane EXCEPT ![c] = "AUTH"] /\ mine' = [mine EXCEPT ![c] = 0]
  /\ again' = [again EXCEPT ![c] = FALSE] /\ tries' = [tries EXCEPT ![c] = 0]
  /\ due' = [due EXCEPT ![c] = 0] /\ wait' = [wait EXCEPT ![c] = 0]
  /\ left' = [left EXCEPT ![c] = 0] /\ UNCHANGED plan
  /\ LeaveTokenLock(c)

\* RequestBudgetExceeded: the time is over before or while it waits for a lock.
Yield(c) ==
  /\ at[c] \in {"tokenLock", "groupLock", "invalidate"} /\ ~InTime(c)
  /\ End(c, "yielded")
  /\ UNCHANGED <<token, life, issued, dead, groupVars, sends, faults>>

Delay(g) == interval[g] - since[g]
Transient(g, error) == g \in Charts /\ error \in {"network", "5xx"}
Pause(g, error) == Later(IF Transient(g, error) THEN Backoff ELSE 0, limit'[g])

HasTries(c) == tries[c] < 2

\* Variant: orders are repeated too.
MayRepeatOrders(c) == lane[c] # "AUTH"

\* Only reads are repeated; a request for a token is a POST.
MayRepeat(c) == lane[c] # "AUTH" /\ plan[c].get

\* What _json_request does with an error: a repeated read waits without locks,
\* as long as it may; anything else is raised.
Retry(c, error) ==
  LET g == lane[c]
  IN \/ /\ error = "429" \/ Transient(g, error)
        /\ MayRepeat(c) /\ HasTries(c) /\ Pause(g, error) <= due[c]
        /\ \/ /\ Affords(c, Pause(g, error))
              /\ wait' = [wait EXCEPT ![c] = Pause(g, error)]
              /\ tries' = [tries EXCEPT ![c] = @ + 1]
              /\ at' = [at EXCEPT ![c] = "backoff"]
              /\ UNCHANGED <<plan, lane, mine, again, due, left, tokenLock>>
           \/ ~Affords(c, Pause(g, error)) /\ End(c, "yielded")
     \/ /\ \/ ~(error = "429" \/ Transient(g, error))
           \/ ~MayRepeat(c) \/ ~HasTries(c) \/ Pause(g, error) > due[c]
        /\ End(c, "failed")

\* With the lock of the group: a known rate limit is an error at once, else the
\* call waits for its turn with the lock in hand.
LockGroup(c) ==
  LET g == lane[c]
  IN /\ at[c] = "groupLock" /\ groupLock[g] = Nobody /\ InTime(c)
     /\ \/ limit[g] > 0 /\ UNCHANGED limit /\ Retry(c, "429") /\ UNCHANGED groupLock
        \/ /\ limit[g] = 0 /\ Delay(g) > 0 /\ ~Affords(c, Delay(g))
           /\ End(c, "yielded") /\ UNCHANGED <<groupLock, limit>>
        \/ /\ limit[g] = 0 /\ (Affords(c, Delay(g)) \/ Delay(g) <= 0)
           /\ groupLock' = [groupLock EXCEPT ![g] = c]
           /\ Go(c, "spacing") /\ UNCHANGED <<tokenLock, limit>>
     /\ UNCHANGED <<token, life, issued, dead, since, interval, quiet, sends, faults>>

\* Variant: the wait begins anew without looking at the slower pace.
ReadyAtFirstPace(g) == since[g] >= Interval

\* The wait is over; the request goes out, within what is left of the budget.
Ready(g) == since[g] >= interval[g]

Send(c) ==
  /\ at[c] = "spacing" /\ Ready(lane[c]) /\ InTime(c)
  /\ Go(c, "sent")
  /\ UNCHANGED <<tokenVars, groupVars, sends, faults>>

TooLate(c) ==
  /\ at[c] = "spacing" /\ ~InTime(c)
  /\ End(c, "yielded")
  /\ groupLock' = [groupLock EXCEPT ![lane[c]] = Nobody]
  /\ UNCHANGED <<token, life, issued, dead, since, interval, limit, quiet, sends, faults>>

BackoffOver(c) ==
  /\ at[c] = "backoff" /\ wait[c] = 0
  /\ Go(c, "groupLock")
  /\ UNCHANGED <<tokenVars, groupVars, sends, faults>>

-----------------------------------------------------------------------------
(* Answers.                                                                  *)

Released(c) == groupLock' = [groupLock EXCEPT ![lane[c]] = Nobody]
Heard(g) == since' = [since EXCEPT ![g] = 0] /\ quiet' = [quiet EXCEPT ![g] = 0]

\* A request of the call itself whose token was good.
Counted(c) == sends' = [sends EXCEPT ![c] = IF lane[c] = "AUTH" THEN @ ELSE @ + 1]

\* The broker knows the token of the request.
Welcome(c) == lane[c] = "AUTH" \/ (mine[c] # 0 /\ mine[c] \notin dead)

\* A good answer: a token is kept, a result returned.  A header may tell a
\* slower pace.
Answer(c) ==
  LET g == lane[c]
  IN /\ at[c] = "sent" /\ Welcome(c)
     /\ Heard(g) /\ Released(c) /\ Counted(c)
     /\ \E pace \in Interval..MaxInterval : interval' = [interval EXCEPT ![g] = Later(@, pace)]
     /\ \/ /\ g = "AUTH" /\ issued' = issued + 1 /\ token' = issued' /\ life' = Life
           /\ UseToken(c, issued') /\ LeaveTokenLock(c)
        \/ g # "AUTH" /\ End(c, "done") /\ UNCHANGED <<token, life, issued>>
     /\ UNCHANGED <<dead, limit, faults>>

\* 401: the first time, with a code that says so, the token is replaced.
Refused(c) ==
  /\ at[c] = "sent" /\ ~Welcome(c)
  /\ Heard(lane[c]) /\ Released(c)
  /\ \/ /\ ~again[c] /\ again' = [again EXCEPT ![c] = TRUE]
        /\ at' = [at EXCEPT ![c] = "invalidate"]
        /\ UNCHANGED <<plan, lane, mine, tries, due, wait, left, tokenLock>>
     \/ End(c, "failed")
  /\ UNCHANGED <<token, life, issued, dead, interval, limit, sends, faults>>

\* 429: the group rests for the time it is told and goes slower from now on.
Limited(c) ==
  LET g == lane[c]
  IN /\ at[c] = "sent" /\ faults < MaxFaults /\ faults' = faults + 1
     /\ Heard(g) /\ Released(c)
     /\ limit' = [limit EXCEPT ![g] = Later(@, RetryAfter)]
     /\ interval' = [interval EXCEPT ![g] = Longer(@)]
     /\ Counted(c) /\ Retry(c, "429")
     /\ UNCHANGED <<token, life, issued, dead>>

\* Another error, a timeout, a lost connection or an answer that is not JSON:
\* the request may have been carried out.  A broken connection is noted for
\* the pace of the candle groups only.
Failed(c, error) ==
  LET g == lane[c]
  IN /\ at[c] = "sent" /\ faults < MaxFaults /\ faults' = faults + 1
     /\ \/ error \in {"5xx", "4xx"} /\ Heard(g)
        \/ /\ error \in {"network", "invalid"}
           /\ IF g \in Charts THEN Heard(g) ELSE UNCHANGED <<since, quiet>>
     /\ Released(c) /\ Counted(c)
     /\ UNCHANGED limit /\ Retry(c, error)
     /\ UNCHANGED <<token, life, issued, dead, interval>>

-----------------------------------------------------------------------------

Step(c) ==
  \/ Begin(c) \/ Lookup(c) \/ Take(c) \/ LockToken(c) \/ Invalidate(c) \/ Yield(c)
  \/ LockGroup(c) \/ Send(c) \/ TooLate(c) \/ BackoffOver(c)
  \/ Answer(c) \/ Refused(c) \/ Limited(c)
  \/ \E error \in {"5xx", "4xx", "network", "invalid"} : Failed(c, error)

Next == Tick \/ Revoke \/ \E c \in Calls : Step(c)
Spec == Init /\ [][Next]_vars

\* Time passes; a thread runs on; a lock that is free is given to who waits
\* for it; a request is answered or times out.
FairSpec == Spec /\ WF_vars(Tick) /\ \A c \in Calls : WF_vars(Step(c) /\ ~Begin(c))

-----------------------------------------------------------------------------

TypeOK ==
  /\ plan \in Mixes
  /\ at \in [Calls -> Ended \cup {"idle", "lookup", "take", "tokenLock", "groupLock", "spacing",
                                  "sent", "backoff", "invalidate"}]
  /\ lane \in [Calls -> Groups] /\ mine \in [Calls -> 0..issued]
  /\ again \in [Calls -> BOOLEAN] /\ tries \in [Calls -> 0..2]
  /\ due \in [Calls -> 0..Patience]
  /\ wait \in [Calls -> Nat] /\ left \in [Calls -> Nat]
  /\ issued \in Nat /\ token \in 0..issued /\ life \in 0..Life
  /\ tokenLock \in Calls \cup {Nobody} /\ groupLock \in [Groups -> Calls \cup {Nobody}]
  /\ since \in [Groups -> 0..MaxInterval] /\ quiet \in [Groups -> 0..MaxInterval]
  /\ interval \in [Groups -> Interval..MaxInterval] /\ limit \in [Groups -> 0..RetryAfter]
  /\ dead \subseteq 1..issued /\ sends \in [Calls -> Nat] /\ faults \in 0..MaxFaults

\* An order is never sent a second time when the first may have been carried
\* out or was limited: only a request refused for its token is repeated.
OrdersGoOutOnce == \A c \in Calls : ~plan[c].get => sends[c] <= 1

\* A call that has a budget never starts a wait that would outlast it.
BudgetIsKept ==
  \A c \in Calls : Budgeted(c) =>
    /\ at[c] = "backoff" => (wait[c] < left[c] \/ wait[c] = 0)
    /\ at[c] = "spacing" => (Delay(lane[c]) < left[c] \/ Ready(lane[c]))

\* Requests of a group start one at a time, not sooner than its interval after
\* the last answer and never while the broker asked for a rest, whichever
\* threads they come from and however often they are repeated.
Starts(c) == at[c] # "sent" /\ at'[c] = "sent"
GroupsArePaced ==
  [][\A c \in Calls : Starts(c) =>
       LET g == lane'[c]
       IN /\ quiet[g] >= interval[g] /\ limit[g] = 0
          /\ \A d \in Calls \ {c} : ~(at[d] = "sent" /\ lane[d] = g)]_vars

\* Every call ends: no order of locks, waits and failures keeps one for ever.
CallsEnd == \A c \in Calls : at[c] = "lookup" ~> at[c] \in Ended
===============================================================================
