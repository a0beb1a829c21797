------------------------------- MODULE ReadCaches -------------------------------
(***************************************************************************)
(* Cached reads of one TossClient (auto_trader/brokers/toss/accounts.py and    *)
(* market_data.py).  Most kinds of answer have a cache, a time to live and a   *)
(* lock of their own; a read that finds its cache empty or too old takes the   *)
(* lock, looks again, and builds the answer from requests and from other       *)
(* cached reads, whose locks it takes with the first one in hand.  The reads   *)
(* run in threads of a pool; the reads of a maintenance worker have a budget   *)
(* and stop waiting for a lock when it ends.                                  *)
(***************************************************************************)
EXTENDS Integers, Sequences

CONSTANTS
  Readers,  \* threads, one read each
  Budgeted, \* those of a maintenance worker
  NoReader,
  Mixes,    \* what the readers may ask for side by side: reads and counts
  PageSize  \* candles in an answer of the broker, 200 in the code

ASSUME ReadAssumption ==
  /\ Budgeted \subseteq Readers /\ NoReader \notin Readers
  /\ PageSize \in Nat \ {0}

VARIABLES
  wish,     \* what a reader asks for: a read and a count
  at,       \* where it is in the innermost read of its stack
  stack,    \* its reads in progress, the innermost last
  valid,    \* the caches that hold an answer that has not expired
  holds,    \* for how many candles the cached answer was asked
  lock,     \* of each cache
  open      \* whether today is a trading day

readVars == <<wish, at, stack, valid, holds, lock, open>>

-----------------------------------------------------------------------------
(* What each answer is made of: requests ("GET") and other reads, in order. *)

\* Variant: the list of accounts shows the value of each.
AccountsWithValues == <<"GET", "portfolio">>
Accounts == <<"GET">>
Portfolio == <<"accounts", "GET", "day">>
BuyingPower == <<"accounts", "GET", "GET">>
MarketDay == <<"GET">>
Rankings == <<"GET">>
Universe == <<"GET", "GET">>
Candidates == <<"buying", "rankings", "GET">>
Directory == <<"universe", "rankings", "GET", "info">>
StockInfo == <<"GET">>
Detail == <<"universe", "GET", "info", "candles", "rankings", "daily">>
Sparklines == <<"candles", "daily">>
WarmUp == <<"universe", "rankings", "candles">>
Favorites == <<"GET", "rankings">>
TopAmounts == <<"GET", "GET">>

\* Pages of candles, until there are enough.
Pages(n) == [i \in 1..(n + PageSize - 1) \div PageSize |-> "GET"]

Recipe(read, n) ==
  CASE read = "accounts" -> Accounts     [] read = "portfolio" -> Portfolio
    [] read = "buying" -> BuyingPower    [] read = "day" -> MarketDay
    [] read = "rankings" -> Rankings     [] read = "universe" -> Universe
    [] read = "candidates" -> Candidates [] read = "directory" -> Directory
    [] read = "info" -> StockInfo        [] read = "detail" -> Detail
    [] read = "sparklines" -> Sparklines [] read = "warm" -> WarmUp
    [] read = "favorites" -> Favorites   [] read = "top" -> TopAmounts
    [] OTHER -> Pages(n)

\* Candles of one stock for minutes and days, and of a market index, whose
\* answers expire at once when the caller does not say otherwise.
Charts == {"candles", "daily", "index"}
Locked == Charts \cup {"accounts", "portfolio", "buying", "day", "rankings", "universe", "candidates"}
Caches == Locked \cup {"info"}
Lasting == Caches \ {"index"}
Reads == Caches \cup {"directory", "detail", "sparklines", "warm", "favorites", "top"}

\* Only candles are asked for by number.
ASSUME MixAssumption ==
  \A mix \in Mixes : mix \in [Readers -> [read : Reads, count : Nat \ {0}]]
                    /\ \A r \in Readers : mix[r].read \in Charts \/ mix[r].count = 1

\* portfolio() goes on without the calendar, whatever the error.
Ignores(read, part) == read = "portfolio" /\ part = "day"

\* domestic_sparklines() goes on without the candles of a stock, but only if the
\* error says that the broker does not know the stock.
Tolerates(read, part) ==
  Ignores(read, part) \/ (read \in {"sparklines", "warm"} /\ part \in Charts)

Frame(read, n) == [read |-> read, count |-> n, step |-> 1]
Top(r) == stack[r][Len(stack[r])]
Parts(f) == Recipe(f.read, f.count)
Complete(f) == f.step > Len(Parts(f))
Pop(s) == SubSeq(s, 1, Len(s) - 1)
Advanced(s) == [s EXCEPT ![Len(s)].step = @ + 1]
Go(r, place) == at' = [at EXCEPT ![r] = place]

\* On a day without trading the cached answer has the date of the last trading
\* day, is compared with today's, and is never found.
Hit(f) ==
  /\ f.read \in valid /\ holds[f.read] >= f.count
  /\ f.read = "day" => open

ReadInit ==
  /\ wish \in Mixes
  /\ at = [r \in Readers |-> "idle"] /\ stack = [r \in Readers |-> <<>>]
  /\ valid = {} /\ holds = [k \in Caches |-> 0]
  /\ lock = [k \in Locked |-> NoReader]
  /\ open \in BOOLEAN

-----------------------------------------------------------------------------

Expire(k) ==
  /\ k \in valid /\ valid' = valid \ {k}
  /\ UNCHANGED <<wish, at, stack, holds, lock, open>>

Begin(r) ==
  /\ at[r] = "idle" /\ Go(r, "test")
  /\ stack' = [stack EXCEPT ![r] = <<Frame(wish[r].read, wish[r].count)>>]
  /\ UNCHANGED <<wish, valid, holds, lock, open>>

\* The innermost read returns, to the reader or to the read that wanted it.
Return(r) ==
  IF Len(stack[r]) = 1
  THEN stack' = [stack EXCEPT ![r] = <<>>] /\ Go(r, "done")
  ELSE stack' = [stack EXCEPT ![r] = Advanced(Pop(@))] /\ Go(r, "work")

\* The first test, without the lock.
Test(r) ==
  /\ at[r] = "test"
  /\ \/ Top(r).read \in Caches /\ Hit(Top(r)) /\ Return(r)
     \/ /\ ~(Top(r).read \in Caches /\ Hit(Top(r))) /\ UNCHANGED stack
        /\ Go(r, IF Top(r).read \in Locked THEN "lock" ELSE "work")
  /\ UNCHANGED <<wish, valid, holds, lock, open>>

\* Variant: without the second test.
LockAtOnce(r) ==
  /\ at[r] = "lock" /\ lock[Top(r).read] = NoReader
  /\ lock' = [lock EXCEPT ![Top(r).read] = r] /\ Go(r, "work")
  /\ UNCHANGED <<wish, stack, valid, holds, open>>

\* The second test, with the lock; the lock is left again when it finds one.
Lock(r) ==
  /\ at[r] = "lock" /\ lock[Top(r).read] = NoReader
  /\ \/ Hit(Top(r)) /\ Return(r) /\ UNCHANGED lock
     \/ /\ ~Hit(Top(r)) /\ lock' = [lock EXCEPT ![Top(r).read] = r]
        /\ Go(r, "work") /\ UNCHANGED stack
  /\ UNCHANGED <<wish, valid, holds, open>>

\* The budget ends while the read waits for the lock of a chart.
GiveUp(r) ==
  /\ r \in Budgeted /\ at[r] = "lock" /\ Top(r).read \in Charts
  /\ lock[Top(r).read] # NoReader /\ Go(r, "exceeded")
  /\ UNCHANGED <<wish, stack, valid, holds, lock, open>>

\* The next part of the answer: a request, or another read.
Work(r) ==
  LET part == Parts(Top(r))[Top(r).step]
  IN /\ at[r] = "work" /\ ~Complete(Top(r))
     /\ \/ part = "GET" /\ Go(r, "request") /\ UNCHANGED stack
        \/ /\ part # "GET" /\ Go(r, "test")
           /\ stack' = [stack EXCEPT ![r] = Append(@, Frame(part, 1))]
     /\ UNCHANGED <<wish, valid, holds, lock, open>>

\* The broker answers.  A page without a further cursor, or with one that was
\* seen, is the last one.
Reply(r) ==
  /\ at[r] = "request" /\ Go(r, "work")
  /\ \/ stack' = [stack EXCEPT ![r] = Advanced(@)]
     \/ /\ Top(r).read \in Charts
        /\ stack' = [stack EXCEPT ![r][Len(stack[r])].step = Len(Parts(Top(r))) + 1]
  /\ UNCHANGED <<wish, valid, holds, lock, open>>

\* The lock of the innermost read, left on every way out of it.
Release(r) == lock' = [k \in Locked |-> IF k = Top(r).read /\ lock[k] = r THEN NoReader ELSE lock[k]]

\* What the answer is kept as.
Kept(f) == {f.read} \cap Lasting

\* The answer is complete: it is cached, and the lock is left.
Store(r) ==
  LET f == Top(r)
  IN /\ at[r] = "work" /\ Complete(f)
     /\ IF f.read \in Caches
        THEN /\ valid' = valid \cup Kept(f)
             /\ holds' = [holds EXCEPT ![f.read] = f.count]
        ELSE UNCHANGED <<valid, holds>>
     /\ Release(r) /\ Return(r)
     /\ UNCHANGED <<wish, open>>

\* A request fails or its answer has another form (TossApiError), or the budget
\* does not allow it.
FailRead(r) ==
  /\ at[r] = "request"
  /\ \/ Go(r, "error")
     \/ r \in Budgeted /\ Go(r, "exceeded")
  /\ UNCHANGED <<wish, stack, valid, holds, lock, open>>

\* The error leaves one read after another, with their locks, up to one that
\* tolerates it.  An exceeded budget is no TossApiError, and nobody tolerates it.
Raise(r) ==
  LET rest == Pop(stack[r])
      f == rest[Len(rest)]
  IN /\ at[r] \in {"error", "exceeded"} /\ Release(r)
     /\ \/ rest = <<>> /\ stack' = [stack EXCEPT ![r] = rest] /\ Go(r, "failed")
        \/ /\ rest # <<>> /\ at[r] = "error" /\ Tolerates(f.read, Parts(f)[f.step])
           /\ stack' = [stack EXCEPT ![r] = Advanced(rest)] /\ Go(r, "work")
        \/ /\ rest # <<>> /\ ~(at[r] = "error" /\ Ignores(f.read, Parts(f)[f.step]))
           /\ stack' = [stack EXCEPT ![r] = rest] /\ UNCHANGED at
     /\ UNCHANGED <<wish, valid, holds, open>>

-----------------------------------------------------------------------------

ReadStep(r) == Test(r) \/ Lock(r) \/ GiveUp(r) \/ Work(r) \/ Reply(r) \/ Store(r) \/ FailRead(r) \/ Raise(r)
ReadNext == (\E k \in Caches : Expire(k)) \/ \E r \in Readers : Begin(r) \/ ReadStep(r)
ReadSpec == ReadInit /\ [][ReadNext]_readVars

\* A thread runs on, and a request ends one way or the other.
ReadFairness == \A r \in Readers : WF_readVars(ReadStep(r))

-----------------------------------------------------------------------------

\* Readers share a request.  Nobody asks the broker for an answer that is cached
\* and has not expired, and no two readers ask for the same one side by side.
Asks(r) == at[r] # "request" /\ at'[r] = "request"
FetchesAreShared ==
  [][\A r \in Readers : Asks(r) /\ Top(r).read \in Locked =>
       /\ ~Hit(Top(r))
       /\ \A q \in Readers \ {r} : at[q] = "request" => Top(q).read # Top(r).read]_readVars

\* Every read ends.  The locks are nested in one order, so that readers never
\* wait for each other in a circle, and an error leaves no lock behind.
ReadsEnd == \A r \in Readers : at[r] = "test" ~> at[r] \in {"done", "failed"}
===============================================================================
