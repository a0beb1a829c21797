---------------------------- MODULE TradingStep ----------------------------
(***************************************************************************)
(* How the worker of a paper account decides: poll_market, step, _buy and  *)
(* _sell of TradingEngine in auto_trader/trading/engine.py, manage_exits in *)
(* trading/exits.py and the moving-average rules of trading/strategies/     *)
(* moving_average.py, over the candles of paper_feed.py and the trading     *)
(* hours of market_hours.py.                                               *)
(*                                                                         *)
(* Time is counted in half minutes: a candle is complete every two units.  *)
(* A candle says, for each strategy, whether the short average with that   *)
(* strategy's periods is above the long one.  The account is reduced to    *)
(* the lots that strategies bought (scope AUTO), each sold as a whole;     *)
(* what cash, sizing, the daily limit of orders and the risk limits refuse  *)
(* is a purchase that may not happen.  PaperAccount has the rest.          *)
(***************************************************************************)
EXTENDS Integers, Functions

CONSTANTS
  Symbols,
  Strategies,
  Targets,     \* the target symbols of each strategy
  Windows,     \* trading_start and trading_end of each strategy, times of day
  Cooldown,    \* cooldown_minutes
  MaxHolding,  \* max_holding_days
  DayLength,   \* half minutes of a day
  Sessions,    \* the trading sessions, each within a day
  LotIds,      \* bound on the lots held at a time
  MaxTime      \* bound on time

ASSUME StepAssumption ==
  /\ Targets \in [Strategies -> SUBSET Symbols]
  /\ Windows \in [Strategies -> [from : Nat, to : Nat]]
  /\ Cooldown \in Nat /\ MaxHolding \in Nat
  /\ DayLength \in Nat \ {0} /\ MaxTime \in Nat
  /\ Sessions \subseteq [from : Nat, to : Nat]

VARIABLES
  now,
  candle,    \* the last complete candle of each symbol, at the exchange
  strategy,  \* the strategy the engine is configured with
  stage,     \* what the worker is doing; "off" without a worker
  status,    \* _market_status with _market_checked_at
  asked,     \* when the worker asked what it now waits for
  fetched,   \* the candles the worker has asked for, then those it has got
  todo,      \* the lots, then the symbols the step has still to look at
  exited,    \* the symbols of lots whose exit rules applied in this step
  memory,    \* what the engine remembers of the candles of each symbol
  lastOrder, \* _last_order_at
  lots,      \* managed_lots()
  orderedAt, \* history, since the engine was configured: the time of the last
  boughtOn,  \* order of each symbol, the time of the candle its last purchase
  lastBelow  \* was based on, and of the last candle with the short average below

marketVars == <<now, candle>>
pollVars == <<status, asked, fetched, todo, exited>>
history == <<orderedAt, boughtOn, lastBelow>>
accountVars == <<lots, lastOrder, history>>
vars == <<now, candle, strategy, stage, pollVars, memory, accountVars>>

Never == -1
Unread == [at |-> Never]
Memory(trend, armed, count, lastBar) ==
  [trend |-> trend, armed |-> armed, count |-> count, lastBar |-> lastBar]
Fresh == Memory("NONE", FALSE, 0, Never)
Nowhere == [s \in Symbols |-> Never]
NoHistory == orderedAt' = Nowhere /\ boughtOn' = Nowhere /\ lastBelow' = Nowhere
\* What poll_market and step keep in local variables.
NoLocals == asked' = Never /\ fetched' = << >> /\ todo' = {} /\ exited' = {}
Trends == {"ABOVE", "BELOW"}
Day(t) == t \div DayLength
TimeOfDay(t) == t % DayLength

-----------------------------------------------------------------------------
(* Trading hours.                                                           *)

\* The sessions that are under way at time t, as the calendar has them: external.
ActiveSessions(t) == {p \in Sessions : p.from <= t /\ t < p.to}
\* trading_status: the answer to a question asked at time t.
StatusAt(t) == [date |-> Day(t), sessions |-> ActiveSessions(t), checkedAt |-> now]
UnknownStatus(t) == [date |-> Never, sessions |-> {}, checkedAt |-> t]

InWindow(st, t) == Windows[st].from <= TimeOfDay(t) /\ TimeOfDay(t) <= Windows[st].to

\* Variant: the end of the session is not looked at again.
WithinHoursAsTold(st, s, t) ==
  /\ s.checkedAt # Never /\ t - s.checkedAt < 3
  /\ s.date = Day(t) /\ s.sessions # {}
  /\ InWindow(st, t)

\* _within_hours: an answer is good for less than 90 seconds.
WithinHours(st, s, t) ==
  /\ s.checkedAt # Never /\ t - s.checkedAt < 3
  /\ s.date = Day(t) /\ \E p \in s.sessions : p.from <= t /\ t < p.to
  /\ InWindow(st, t)
Within == WithinHours(strategy, status, now)

-----------------------------------------------------------------------------
(* The market: external.                                                    *)

\* With every full minute a candle may be complete; there is none when nobody
\* traded.  The first has no average before it.
NextCandles(s) ==
  {candle[s]} \cup
  (IF (now + 1) % 2 # 0 THEN {}
   ELSE [at : {now + 1}, trend : [Strategies -> Trends],
         before : {IF candle[s] = Unread THEN [st \in Strategies |-> "NONE"] ELSE candle[s].trend}])

Tick ==
  /\ now < MaxTime
  /\ now' = now + 1
  /\ candle' \in {c \in [Symbols -> UNION {NextCandles(s) : s \in Symbols}] :
                    \A s \in Symbols : c[s] \in NextCandles(s)}
  /\ lastBelow' = [s \in Symbols |->
       IF candle'[s] # candle[s] /\ candle'[s].trend[strategy] = "BELOW"
       THEN now + 1 ELSE lastBelow[s]]
  /\ UNCHANGED <<strategy, stage, pollVars, memory, lots, lastOrder, orderedAt, boughtOn>>

-----------------------------------------------------------------------------
(* Starting, stopping, configuring.                                         *)

Start ==
  /\ stage = "off"
  /\ stage' = "asleep"
  /\ memory' = [s \in Symbols |-> Fresh]
  /\ UNCHANGED <<marketVars, strategy, status, accountVars>> /\ NoLocals

\* A stop reaches the worker at one of its awaits.
Stop ==
  /\ stage \in {"asleep", "hours", "candles", "prices"}
  /\ stage' = "off" /\ NoLocals
  /\ UNCHANGED <<marketVars, strategy, status, memory, accountVars>>

\* configure, also for the strategy that is configured already;
\* set_management_scope makes the engine forget the same.
Configure(st) ==
  /\ stage = "off"
  /\ strategy' = st
  /\ memory' = [s \in Symbols |-> Fresh]
  /\ lastOrder' = Nowhere /\ NoHistory
  /\ UNCHANGED <<marketVars, stage, pollVars, lots>>

\* A new process knows the lots only.
Restart ==
  /\ stage' = "off" /\ NoLocals
  /\ memory' = [s \in Symbols |-> Fresh]
  /\ lastOrder' = Nowhere /\ NoHistory
  /\ status' = UnknownStatus(Never)
  /\ UNCHANGED <<marketVars, strategy, lots>>

-----------------------------------------------------------------------------
(* poll_market.                                                             *)

AskHours ==
  /\ stage = "asleep"
  /\ stage' = "hours" /\ asked' = now
  /\ UNCHANGED <<marketVars, strategy, status, fetched, todo, exited, memory, accountVars>>

\* The hours are known, or not.  Within them the worker asks for the candles of
\* its targets and of the symbols of its lots, as they are now.
ReadHours ==
  /\ stage = "hours"
  /\ status' \in {StatusAt(asked), UnknownStatus(now)}
  /\ IF WithinHours(strategy, status', now)
     THEN /\ stage' = "candles" /\ asked' = now
          /\ fetched' = Restrict(candle, Targets[strategy] \cup {lots[l].symbol : l \in DOMAIN lots})
          /\ UNCHANGED <<todo, exited>>
     ELSE stage' = "asleep" /\ NoLocals
  /\ UNCHANGED <<marketVars, strategy, memory, accountVars>>

\* A candle that began more than three minutes ago is no basis.
Recent(c, t) == c # Unread /\ t - c.at <= 4

\* The candles are there, of some symbols; now the worker asks for prices.
ReadCandles ==
  /\ stage = "candles"
  /\ \E failed \in SUBSET DOMAIN fetched :
       fetched' = Restrict(fetched, {s \in DOMAIN fetched \ failed : Recent(fetched[s], asked)})
  /\ stage' = "prices" /\ asked' = now
  /\ UNCHANGED <<marketVars, strategy, status, todo, exited, memory, accountVars>>

\* The prices are there: decide, unless they are older than 30 seconds, all
\* candles are too old, or the session has ended.
ReadPrices ==
  /\ stage = "prices"
  /\ LET usable == {s \in DOMAIN fetched : Recent(fetched[s], now)}
     IN IF Within /\ now - asked <= 1 /\ usable # {}
        THEN /\ stage' = "exits" /\ todo' = DOMAIN lots
             /\ fetched' = Restrict(fetched, usable)
             /\ asked' = Never /\ exited' = {}
        ELSE stage' = "asleep" /\ NoLocals
  /\ UNCHANGED <<marketVars, strategy, status, memory, accountVars>>
FailToRead ==
  /\ stage \in {"candles", "prices"}
  /\ stage' = "asleep" /\ NoLocals
  /\ UNCHANGED <<marketVars, strategy, status, memory, accountVars>>

-----------------------------------------------------------------------------
(* Orders.                                                                  *)

\* Variant: only purchases start the waiting time.
SellUncooled(s, gone) ==
  /\ lots' = Restrict(lots, DOMAIN lots \ gone)
  /\ orderedAt' = [orderedAt EXCEPT ![s] = now]
  /\ UNCHANGED <<lastOrder, boughtOn, lastBelow>>

\* Lots that are sold leave the account.
Sell(s, gone) ==
  /\ lots' = Restrict(lots, DOMAIN lots \ gone)
  /\ lastOrder' = [lastOrder EXCEPT ![s] = now]
  /\ orderedAt' = [orderedAt EXCEPT ![s] = now]
  /\ UNCHANGED <<boughtOn, lastBelow>>
Unsold == UNCHANGED accountVars

Held(s) == {l \in DOMAIN lots : lots[l].symbol = s}

\* What a failing order leaves: _run ends.
Fail == stage' = "off" /\ UNCHANGED accountVars

\* _can_order.
CanBuy(s) ==
  /\ Within
  /\ lastOrder[s] # Never => now - lastOrder[s] >= Cooldown

\* A purchase that the cash, the daily limit of orders and the risk limits allow.
Buy(s) ==
  \E l \in LotIds \ DOMAIN lots :
    /\ lots' = [k \in DOMAIN lots \cup {l} |->
                  IF k = l THEN [symbol |-> s, rules |-> strategy, opened |-> now] ELSE lots[k]]
    /\ lastOrder' = [lastOrder EXCEPT ![s] = now]
    /\ orderedAt' = [orderedAt EXCEPT ![s] = now]
    /\ boughtOn' = [boughtOn EXCEPT ![s] = fetched[s].at]
    /\ UNCHANGED lastBelow

-----------------------------------------------------------------------------
(* step: first the exit rules of every lot, ...                             *)

\* generate_exit_signal, with the periods of the strategy that bought the lot.
CrossedDown(c, st) == c.before[st] = "ABOVE" /\ c.trend[st] = "BELOW"

\* manage_exits for one lot.  Whether its profit or loss is reached depends on
\* the price.
Exit(l) ==
  /\ stage = "exits" /\ l \in todo
  /\ todo' = todo \ {l}
  /\ LET s == lots[l].symbol
         rules == lots[l].rules
         Watched == s \in DOMAIN fetched /\ InWindow(rules, now)
         Due == now - lots[l].opened >= MaxHolding \/ CrossedDown(fetched[s], rules)
     IN \/ /\ ~Watched \/ ~Due
           /\ Unsold /\ UNCHANGED <<stage, exited>>
        \/ /\ Watched
           /\ exited' = exited \cup {s}
           /\ \/ Within /\ Sell(s, {l}) /\ UNCHANGED stage
              \/ Within /\ Fail
              \/ ~Within /\ Unsold /\ UNCHANGED stage
  /\ UNCHANGED <<marketVars, strategy, status, asked, fetched, memory>>

ExitsDone ==
  /\ stage = "exits" /\ todo = {}
  /\ stage' = "signals"
  /\ todo' = Targets[strategy] \cap DOMAIN fetched
  /\ UNCHANGED <<marketVars, strategy, status, asked, fetched, exited, memory, accountVars>>

(* ... then the signal of every target.                                     *)

\* generate_signal on a new candle: what is remembered of it.
Learned(m, c) ==
  IF c.trend[strategy] = "BELOW"
  THEN Memory(m.trend, FALSE, 0, m.lastBar)
  ELSE Memory(m.trend, m.armed \/ m.trend = "BELOW", IF m.count < 2 THEN m.count + 1 ELSE 2, m.lastBar)

\* Variant: a purchase leaves the cross usable.
DisarmedNever(m) == m
Disarmed(m) == Memory(m.trend, FALSE, m.count, m.lastBar)

\* A candle is new when it is later than the last one; after a gap of more than
\* two minutes nothing before counts.
NewCandle(s) == memory[s].lastBar = Never \/ fetched[s].at > memory[s].lastBar
AfterGap(s) == memory[s].lastBar # Never /\ fetched[s].at - memory[s].lastBar > 4
Seen(s) ==
  IF AfterGap(s) THEN Memory("NONE", FALSE, 0, fetched[s].at)
  ELSE Memory(memory[s].trend, memory[s].armed, memory[s].count, fetched[s].at)

Remember(s, m) == memory' = [memory EXCEPT ![s] = m]

\* No new candle, a symbol whose lot has just been dealt with, or too few
\* candles: nothing is learned.
Pass(s) ==
  /\ stage = "signals" /\ s \in todo
  /\ todo' = todo \ {s}
  /\ IF NewCandle(s) THEN Remember(s, Seen(s)) ELSE UNCHANGED memory
  /\ UNCHANGED <<marketVars, strategy, stage, status, asked, fetched, exited, accountVars>>

Evaluate(s) ==
  /\ stage = "signals" /\ s \in todo
  /\ NewCandle(s) /\ s \notin exited
  /\ todo' = todo \ {s}
  /\ LET before == Seen(s)
         after == Learned(before, fetched[s])
         trend == fetched[s].trend[strategy]
         Ready == after.armed /\ after.count = 2
         Buying == Ready /\ Held(s) = {} /\ CanBuy(s)
         Selling == before.trend = "ABOVE" /\ trend = "BELOW" /\ Held(s) # {} /\ Within
         Conclude(m) == Remember(s, Memory(trend, m.armed, m.count, m.lastBar)) /\ UNCHANGED stage
     IN \/ Buying /\ Buy(s) /\ Conclude(Disarmed(after))
        \/ Selling /\ Sell(s, Held(s)) /\ Conclude(after)
        \/ (Buying \/ Selling) /\ Fail /\ Remember(s, after)
        \/ ~Selling /\ Unsold /\ Conclude(after)
  /\ UNCHANGED <<marketVars, strategy, status, asked, fetched, exited>>

StepDone ==
  /\ stage = "signals" /\ todo = {}
  /\ stage' = "asleep" /\ NoLocals
  /\ UNCHANGED <<marketVars, strategy, status, memory, accountVars>>

-----------------------------------------------------------------------------
Init ==
  /\ now = 0
  /\ candle = [s \in Symbols |-> Unread]
  /\ strategy \in Strategies
  /\ stage = "off"
  /\ status = UnknownStatus(Never)
  /\ asked = Never /\ fetched = << >> /\ todo = {} /\ exited = {}
  /\ memory = [s \in Symbols |-> Fresh]
  /\ lastOrder = Nowhere /\ orderedAt = Nowhere /\ boughtOn = Nowhere /\ lastBelow = Nowhere
  /\ lots = [l \in {} |-> 0]

Next ==
  \/ Tick
  \/ Start \/ Stop \/ Restart
  \/ \E st \in Strategies : Configure(st)
  \/ AskHours \/ ReadHours \/ ReadCandles \/ ReadPrices \/ FailToRead
  \/ \E l \in LotIds : Exit(l)
  \/ ExitsDone
  \/ \E s \in Symbols : Pass(s) \/ Evaluate(s)
  \/ StepDone

Spec == Init /\ [][Next]_vars

-----------------------------------------------------------------------------
(* Properties.                                                              *)

Candles == [at : 0..MaxTime, trend : [Strategies -> Trends], before : [Strategies -> Trends \cup {"NONE"}]]

\* Types; a cross is armed by a candle above, and never without one.
TypeOK ==
  /\ now \in 0..MaxTime
  /\ candle \in [Symbols -> Candles \cup {Unread}]
  /\ strategy \in Strategies
  /\ stage \in {"off", "asleep", "hours", "candles", "prices", "exits", "signals"}
  /\ DOMAIN fetched \subseteq Symbols /\ Range(fetched) \subseteq Candles \cup {Unread}
  /\ todo \subseteq LotIds \cup Symbols /\ exited \subseteq Symbols
  /\ memory \in [Symbols -> [trend : Trends \cup {"NONE"}, armed : BOOLEAN, count : 0..2,
                             lastBar : {Never} \cup 0..MaxTime]]
  /\ \A s \in Symbols : memory[s].armed => memory[s].count > 0
  /\ DOMAIN lots \subseteq LotIds
  /\ \A l \in DOMAIN lots : lots[l] \in [symbol : Symbols, rules : Strategies, opened : 0..MaxTime]

Bought(s) == \E l \in DOMAIN lots' \ DOMAIN lots : lots'[l].symbol = s

\* A strategy trades only while the exchange is in session and the hours of the
\* strategy last, although what the worker knows of the session is older.
OrdersInSession == [][lots' # lots => ActiveSessions(now) # {} /\ InWindow(strategy, now)]_vars

\* A cross is used once: between two purchases of a symbol the averages have
\* crossed down, also when the lot was sold, the engine paused or candles
\* were missed in between.
OneEntryPerCross ==
  [][\A s \in Symbols :
       Bought(s) => boughtOn[s] = Never \/ boughtOn[s] < lastBelow[s]]_vars

\* No purchase follows the last order of its symbol within the waiting time, as
\* long as the engine is not configured anew or restarted.
CooledDown ==
  [][\A s \in Symbols : Bought(s) /\ orderedAt[s] # Never => now - orderedAt[s] >= Cooldown]_vars

=============================================================================
