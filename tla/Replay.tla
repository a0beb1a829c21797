-------------------------------- MODULE Replay --------------------------------
(***************************************************************************)
(* The replay of stored candles (auto_trader/ml/backtest.py).  Candles are    *)
(* fed in the order they became available, not the order of the minutes they  *)
(* stand for: a bar may come late, out of order or without volume.  The        *)
(* engine of the trading loop runs on them; when it orders is left open here   *)
(* (TradingStep has its rules), what becomes of the order is not.              *)
(***************************************************************************)
EXTENDS Integers, Sequences, FiniteSets, FiniteSetsExt

CONSTANTS
  Stocks,
  LastEvent,   \* bound: bars begin at the minutes 0..LastEvent
  LastBatch,   \* bound: the replay looks at the minutes up to this one
  MaxBars,     \* bound: bars of a stock in one batch
  DayMinutes   \* minutes in a day

ASSUME ReplayAssumption ==
  /\ LastEvent \in Nat /\ LastBatch \in Nat /\ MaxBars \in Nat
  /\ DayMinutes \in Nat \ {0}

VARIABLES
  method,   \* "moving_average", "buy_and_hold"
  delayed,  \* execution = "next_open": orders wait for a later open
  at,       \* the batch looked at, by the minute it became available
  known,    \* per stock, the bars received: event |-> whether it had volume
  pending,  \* per stock, the signal that waits
  trades    \* per stock, its trades

replayVars == <<method, delayed, at, known, pending, trades>>

NoSignal == [side |-> "NONE", at |-> 0, bar |-> 0]
Signal(side, time, bar) == [side |-> side, at |-> time, bar |-> bar]
Trade(signal, fill, seen) ==
  [side |-> signal.side, bar |-> signal.bar, signal |-> signal.at, fill |-> fill, seen |-> seen]

Day(minute) == minute \div DayMinutes

\* A position is what the last trade left.
Holds(done) == done # << >> /\ done[Len(done)].side = "BUY"

ReplayInit ==
  /\ method \in {"moving_average", "buy_and_hold"} /\ delayed \in BOOLEAN
  /\ at = 0 /\ known = [s \in Stocks |-> << >>]
  /\ pending = [s \in Stocks |-> NoSignal] /\ trades = [s \in Stocks |-> << >>]

-----------------------------------------------------------------------------
(* Filling what waits *)

\* Variant: in time is what comes after the bar the signal rests on.
InTimeOfBar(signal, event) == signal.bar < event /\ event <= signal.bar + 2

\* An open strictly after the moment of the signal, two minutes at most.
InTime(signal, event) == signal.at < event /\ event <= signal.at + 2

\* The first bar, by its minute, that settles the signal of a stock: one of
\* another day drops it, one with volume and in time is where it fills.
Settling(s, batch) ==
  {e \in DOMAIN batch : \/ Day(e) # Day(pending[s].at)
                        \/ InTime(pending[s], e) /\ batch[e]}

Settled(s, batch) == pending[s] # NoSignal /\ Settling(s, batch) # {}

FillsAt(s, batch) ==
  IF Settled(s, batch) /\ Day(Min(Settling(s, batch))) = Day(pending[s].at)
  THEN {Min(Settling(s, batch))} ELSE {}

\* The order may still be refused, by the limits, the cash or the hours.
Traded(s, batch, allowed, time) ==
  IF FillsAt(s, batch) # {} /\ allowed
  THEN Append(trades[s], Trade(pending[s], Min(FillsAt(s, batch)), time))
  ELSE trades[s]

\* What is left to wait; not for more than three minutes.
Waiting(s, batch, time) ==
  IF Settled(s, batch) \/ (delayed /\ time - pending[s].at > 3) THEN NoSignal ELSE pending[s]

-----------------------------------------------------------------------------
(* Deciding *)

\* A stock is decided about when its latest bar has volume and is not stale: a
\* backfill warms the averages and trades nothing.
Fresh(bars, batch, time) ==
  /\ batch # << >>
  /\ LET latest == Max(DOMAIN bars) IN bars[latest] /\ time - (latest + 1) <= 2

\* The averages buy when nothing is held and sell what is; buy and hold buys
\* once.
Wants(done) ==
  IF method = "buy_and_hold" THEN (IF done = << >> THEN {"BUY"} ELSE {})
  ELSE IF Holds(done) THEN {"SELL"} ELSE {"BUY"}

Merge(old, new) ==
  [e \in DOMAIN old \cup DOMAIN new |-> IF e \in DOMAIN new THEN new[e] ELSE old[e]]

\* One batch: fills, expiry, then the step of the engine on what is fresh.  The
\* first signal of a stock is kept while it waits.
Batch(time, batch, allowed, orders) ==
  LET done(s) == Traded(s, batch[s], allowed[s], time)
      left(s) == Waiting(s, batch[s], time)
      bars(s) == Merge(known[s], batch[s])
      side(s) == IF orders[s] /\ Fresh(bars(s), batch[s], time) THEN Wants(done(s)) ELSE {}
      new(s)  == Signal(CHOOSE d \in side(s) : TRUE, time, Max(DOMAIN bars(s)))
  IN /\ time > at /\ at' = time
     /\ known' = [s \in Stocks |-> bars(s)]
     /\ pending' = [s \in Stocks |->
          IF side(s) # {} /\ left(s) = NoSignal /\ delayed THEN new(s) ELSE left(s)]
     /\ trades' = [s \in Stocks |->
          IF side(s) # {} /\ ~delayed THEN Append(done(s), Trade(new(s), time, time)) ELSE done(s)]
     /\ UNCHANGED <<method, delayed>>

\* Bars come once, when they are complete or later; a batch may be of stocks
\* that are not in the model.
Arrivals(s, time) ==
  LET outstanding == {e \in 0..LastEvent : e + 1 <= time} \ DOMAIN known[s]
  IN UNION {[events -> BOOLEAN] :
              events \in UNION {kSubset(n, outstanding) : n \in 0..MaxBars}}

ReplayNext ==
  \E time \in 1..LastBatch :
    \E batch \in {f \in [Stocks -> UNION {Arrivals(s, time) : s \in Stocks}] :
                    \A s \in Stocks : f[s] \in Arrivals(s, time)},
       allowed \in [Stocks -> BOOLEAN], orders \in [Stocks -> BOOLEAN] :
      Batch(time, batch, allowed, orders)

ReplaySpec == ReplayInit /\ [][ReplayNext]_replayVars

-----------------------------------------------------------------------------

(* A replay knows at no time what it would have learnt later.  Every trade is *)
(* on the day of its signal and, when orders wait for an open, at one after   *)
(* it; the signal rests on a complete and recent bar; and the trades of a     *)
(* stock follow each other, buy and sell in turn: nothing is signalled before *)
(* the trade before was seen, in whatever order the bars came                 *)
(* (backtest.py:138-189, "Backfills ... must not cause trades on old prices"). *)
TradesAreCausal ==
  \A s \in Stocks : \A i \in DOMAIN trades[s] :
    LET t == trades[s][i] IN
    /\ t.bar + 1 <= t.signal /\ t.signal <= t.bar + 3
    /\ IF delayed THEN t.signal < t.fill /\ t.fill < t.seen ELSE t.signal = t.fill
    /\ Day(t.signal) = Day(t.fill)
    /\ i > 1 => LET before == trades[s][i - 1]
                IN before.seen <= t.signal /\ before.fill < t.fill /\ before.side # t.side
===============================================================================
