------------------------- MODULE TradingStepProofs -------------------------
(***************************************************************************)
(* For any symbols, strategies, sessions and waiting times: strategies     *)
(* trade in session only, use a cross once and wait after an order.        *)
(***************************************************************************)
EXTENDS TradingStep, TLAPS

Polled == stage \in {"candles", "prices", "exits", "signals"}
Below(c) == c.trend[strategy] = "BELOW"

\* Types of what the history and the decisions use.
Times == {Never} \cup 0..MaxTime
MarketTypes ==
  /\ now \in 0..MaxTime
  /\ candle \in [Symbols -> Candles \cup {Unread}]
  /\ \A s \in Symbols : candle[s].at <= now
HistoryTypes ==
  /\ lastOrder \in [Symbols -> Times]
  /\ orderedAt \in [Symbols -> Times]
  /\ boughtOn \in [Symbols -> Times]
  /\ lastBelow \in [Symbols -> Times]
Memories == [trend : Trends \cup {"NONE"}, armed : BOOLEAN, count : 0..2, lastBar : Times]
Types ==
  /\ MarketTypes /\ HistoryTypes
  /\ strategy \in Strategies
  /\ memory \in [Symbols -> Memories]
  /\ status.sessions \subseteq Sessions
  /\ \A l \in DOMAIN lots : lots[l].symbol \in Symbols

\* What the worker has fetched was the last candle when it asked, after the
\* engine was configured.
WasLast(s) ==
  /\ stage \in {"exits", "signals"} => fetched[s] # Unread
  /\ fetched[s].at <= candle[s].at
  /\ fetched[s].at = candle[s].at => fetched[s] = candle[s]
  /\ fetched[s].at < candle[s].at /\ Below(candle[s]) => candle[s].at <= lastBelow[s]
Fetched ==
  /\ DOMAIN fetched \subseteq Symbols
  /\ \A s \in DOMAIN fetched : fetched[s] \in Candles \cup {Unread}
  /\ stage = "signals" => todo \subseteq DOMAIN fetched
  /\ Polled => \A s \in DOMAIN fetched : WasLast(s)

\* The candle c says nothing against the last purchase of s: it is not older than
\* the candle of the purchase, not below if it is the same, and a later one
\* below is recorded.
Follows(c, s) ==
  /\ boughtOn[s] <= c.at
  /\ boughtOn[s] = c.at => ~Below(c)
  /\ boughtOn[s] < c.at /\ Below(c) => boughtOn[s] < lastBelow[s]

\* After a purchase, the engine remembers a candle below, or an armed cross,
\* only when the averages have crossed down since.
CrossesAreNew ==
  \A s \in Symbols : boughtOn[s] # Never =>
    /\ Follows(candle[s], s)
    /\ Polled /\ s \in DOMAIN fetched => Follows(fetched[s], s)
    /\ memory[s].armed \/ memory[s].trend = "BELOW" => boughtOn[s] < lastBelow[s]

OrdersAreTimed == lastOrder = orderedAt

StepInv == Types /\ Fetched /\ CrossesAreNew /\ OrdersAreTimed

LEMMA StepInit == Init => StepInv
BY StepAssumption
DEF Init, StepInv, Types, MarketTypes, HistoryTypes, Times, Fetched, CrossesAreNew, OrdersAreTimed,
    Polled, Fresh, Memory, Memories, Nowhere, Never, UnknownStatus, Unread, Trends

\* Time passes and candles complete.
LEMMA TickKeeps ==
  ASSUME StepInv, Tick PROVE StepInv'
<1> USE StepAssumption DEF StepInv, Never
<1>1. ASSUME NEW s \in Symbols
      PROVE  candle'[s] = candle[s] \/ (candle'[s] \in Candles /\ candle'[s].at = now + 1)
  <2>1. candle'[s] \in NextCandles(s) BY DEF Tick
  <2>2. CASE (now + 1) % 2 # 0
    BY <2>1, <2>2 DEF NextCandles
  <2>3. CASE (now + 1) % 2 = 0
    <3> DEFINE before == IF candle[s] = Unread THEN [st \in Strategies |-> "NONE"] ELSE candle[s].trend
    <3>1. candle'[s] = candle[s] \/ candle'[s] \in [at : {now + 1}, trend : [Strategies -> Trends], before : {before}]
      BY <2>1, <2>3 DEF NextCandles
    <3>2. candle[s] = Unread \/ candle[s].trend \in [Strategies -> Trends]
      BY DEF Types, MarketTypes, Candles
    <3>3. before \in [Strategies -> Trends \cup {"NONE"}]
      BY <3>2 DEF Trends
    <3>4. now + 1 \in 0..MaxTime
      BY DEF Tick, Types, MarketTypes
    <3> HIDE DEF before
    <3> QED BY <3>1, <3>3, <3>4 DEF Candles
  <2> QED BY <2>2, <2>3 DEF Types, MarketTypes
<1>2. MarketTypes'
  <2>1. candle' \in [Symbols -> UNION {NextCandles(s) : s \in Symbols}]
    BY DEF Tick
  <2>2. \A s \in Symbols : candle'[s] \in Candles \cup {Unread}
    BY <1>1 DEF Types, MarketTypes
  <2>3. candle' \in [Symbols -> Candles \cup {Unread}]
    BY <2>1, <2>2
  <2>4. now' \in 0..MaxTime /\ now' = now + 1
    BY DEF Tick, Types, MarketTypes
  <2>5. \A s \in Symbols : candle'[s].at <= now'
    BY <1>1, <2>4 DEF Types, MarketTypes, Candles, Unread
  <2> QED BY <2>3, <2>4, <2>5 DEF MarketTypes
<1>3. \A s \in Symbols :
        lastBelow'[s] = IF candle'[s] # candle[s] /\ Below(candle'[s]) THEN now + 1 ELSE lastBelow[s]
  BY DEF Tick, Below
<1>4. Types'
  BY <1>2, <1>3 DEF Types, MarketTypes, HistoryTypes, Times, Tick, pollVars
<1>5. ASSUME NEW s \in Symbols
      PROVE  /\ candle[s] \in Candles \cup {Unread} /\ candle[s].at \in Times /\ candle[s].at <= now
             /\ candle[s].at = Never => candle[s] = Unread
             /\ now \in Nat /\ lastBelow[s] \in Times /\ boughtOn[s] \in Times
             /\ lastBelow[s] <= lastBelow'[s] \/ lastBelow'[s] = now + 1
             /\ boughtOn'[s] = boughtOn[s]
  BY <1>3 DEF Types, MarketTypes, HistoryTypes, Times, Candles, Unread, Tick
<1>6. Fetched'
  <2>1. Polled' <=> Polled BY DEF Polled, Tick
  <2>2. ASSUME NEW s \in DOMAIN fetched, Polled PROVE WasLast(s)'
    <3>1. s \in Symbols /\ WasLast(s) BY <2>2 DEF Fetched
    <3>2. fetched[s] \in Candles \cup {Unread} BY DEF Fetched
    <3>3. fetched[s].at \in Times BY <3>2 DEF Candles, Unread, Times
    <3> QED BY <1>1, <1>3, <1>5, <3>1, <3>3 DEF WasLast, Tick, pollVars, Below, Times
  <2> QED BY <2>1, <2>2 DEF Fetched, Tick, pollVars
<1>7. CrossesAreNew'
  <2> SUFFICES ASSUME NEW s \in Symbols, boughtOn'[s] # Never
               PROVE  /\ Follows(candle[s], s)'
                      /\ Polled' /\ s \in DOMAIN fetched' => Follows(fetched[s], s)'
                      /\ memory'[s].armed \/ memory'[s].trend = "BELOW" => boughtOn'[s] < lastBelow'[s]
    BY DEF CrossesAreNew
  <2>1. /\ Follows(candle[s], s)
        /\ Polled /\ s \in DOMAIN fetched => Follows(fetched[s], s)
        /\ memory[s].armed \/ memory[s].trend = "BELOW" => boughtOn[s] < lastBelow[s]
    BY <1>5 DEF CrossesAreNew
  <2>2. boughtOn[s] <= now BY <1>5, <2>1 DEF Follows, Times
  <2>3. boughtOn[s] < lastBelow[s] => boughtOn[s] < lastBelow'[s]
    BY <1>3, <1>5, <2>2 DEF Times
  <2>4. Follows(candle[s], s)'
    BY <1>1, <1>3, <1>5, <2>1, <2>2, <2>3 DEF Follows, Below, Tick, Times
  <2>5. Polled' /\ s \in DOMAIN fetched' => Follows(fetched[s], s)'
    BY <1>5, <2>1, <2>3 DEF Follows, Below, Tick, pollVars, Polled
  <2>6. memory'[s].armed \/ memory'[s].trend = "BELOW" => boughtOn'[s] < lastBelow'[s]
    BY <1>5, <2>1, <2>3 DEF Tick
  <2> QED BY <2>4, <2>5, <2>6
<1> QED BY <1>4, <1>6, <1>7 DEF StepInv, OrdersAreTimed, Tick

\* A memory of s says nothing that the history does not confirm.
Confirmed(m, s) ==
  m.armed \/ m.trend = "BELOW" => boughtOn[s] = Never \/ boughtOn[s] < lastBelow[s]

\* Steps of the worker between orders: what it holds is what the market shows
\* now, or what it held before.
LEMMA QuietStep ==
  ASSUME StepInv, UNCHANGED <<marketVars, strategy, accountVars>>,
         memory' \in [Symbols -> Memories], status'.sessions \subseteq Sessions,
         DOMAIN fetched' \subseteq Symbols,
         stage' = "signals" => todo' \subseteq DOMAIN fetched',
         \A s \in DOMAIN fetched' :
           \/ fetched'[s] = candle[s] /\ stage' \notin {"exits", "signals"}
           \/ /\ s \in DOMAIN fetched /\ fetched'[s] = fetched[s] /\ (Polled' => Polled)
              /\ stage' \in {"exits", "signals"} => fetched[s] # Unread,
         \A s \in Symbols : Confirmed(memory'[s], s)
  PROVE  StepInv'
<1> USE StepAssumption DEF StepInv, Never, marketVars, accountVars, history
<1>1. Types' BY DEF Types, MarketTypes, HistoryTypes
<1>2. Fetched'
  <2>1. \A s \in DOMAIN fetched' : fetched'[s] \in Candles \cup {Unread}
    BY DEF Fetched, Types, MarketTypes
  <2>2. ASSUME NEW s \in DOMAIN fetched', Polled' PROVE WasLast(s)'
    <3>1. CASE fetched'[s] = candle[s] /\ stage' \notin {"exits", "signals"}
      <4>1. candle[s].at \in Int
        BY DEF Types, MarketTypes, Candles, Unread
      <4> QED BY <3>1, <4>1 DEF WasLast
    <3>2. CASE /\ s \in DOMAIN fetched /\ fetched'[s] = fetched[s] /\ (Polled' => Polled)
               /\ stage' \in {"exits", "signals"} => fetched[s] # Unread
      BY <2>2, <3>2 DEF WasLast, Fetched, Below
    <3> QED BY <3>1, <3>2
  <2> QED BY <2>1, <2>2 DEF Fetched
<1>3. CrossesAreNew'
  BY DEF CrossesAreNew, Follows, Below, Confirmed
<1>4. OrdersAreTimed'
  BY DEF OrdersAreTimed
<1> QED BY <1>1, <1>2, <1>3, <1>4

\* What the engine remembers is confirmed.
LEMMA MemoryIsConfirmed == StepInv => \A s \in Symbols : Confirmed(memory[s], s)
BY DEF StepInv, CrossesAreNew, Confirmed

LEMMA PollKeeps ==
  ASSUME StepInv,
         Start \/ Stop \/ AskHours \/ ReadHours \/ ReadCandles \/ ReadPrices \/ FailToRead
           \/ ExitsDone \/ StepDone
  PROVE  StepInv'
<1> USE MemoryIsConfirmed DEF StepInv
<1>1. CASE Start
  BY <1>1, QuietStep
  DEF Start, NoLocals, Types, Fresh, Memory, Memories, Confirmed, Trends, Times, Polled
<1>2. CASE Stop \/ FailToRead \/ StepDone
  BY <1>2, QuietStep DEF Stop, FailToRead, StepDone, NoLocals, Types, Polled
<1>3. CASE AskHours
  BY <1>3, QuietStep DEF AskHours, Types, Polled, Fetched
<1>4. CASE ReadHours
  <2>1. status'.sessions \subseteq Sessions
    BY <1>4 DEF ReadHours, StatusAt, UnknownStatus, ActiveSessions
  <2>2. CASE stage' = "candles"
    BY <1>4, <2>1, <2>2, QuietStep, StepAssumption DEF ReadHours, Types, Restrict
  <2>3. CASE stage' = "asleep"
    BY <1>4, <2>1, <2>3, QuietStep DEF ReadHours, NoLocals, Types
  <2> QED BY <1>4, <2>2, <2>3 DEF ReadHours
<1>5. CASE ReadCandles
  BY <1>5, QuietStep DEF ReadCandles, Restrict, Types, Polled, Fetched
<1>6. CASE ReadPrices
  BY <1>6, QuietStep DEF ReadPrices, NoLocals, Restrict, Types, Polled, Fetched, Recent
<1>7. CASE ExitsDone
  BY <1>7, QuietStep DEF ExitsDone, Types, Polled, Fetched, WasLast
<1> QED BY <1>1, <1>2, <1>3, <1>4, <1>5, <1>6, <1>7

\* A sale within a step.
LEMMA SaleKeeps ==
  ASSUME StepInv, NEW s \in Symbols, NEW gone, Sell(s, gone),
         UNCHANGED <<marketVars, strategy, status, fetched, stage>>,
         todo' \subseteq todo, memory' \in [Symbols -> Memories],
         \A r \in Symbols : Confirmed(memory'[r], r)
  PROVE  StepInv'
<1> USE DEF StepInv, marketVars
<1>1. Types'
  BY DEF Types, MarketTypes, HistoryTypes, Sell, Restrict, Times
<1>2. Fetched'
  BY DEF Fetched, WasLast, Below, Polled, Sell
<1>3. CrossesAreNew'
  BY DEF CrossesAreNew, Follows, Below, Polled, Confirmed, Sell
<1>4. OrdersAreTimed'
  BY DEF OrdersAreTimed, Sell
<1> QED BY <1>1, <1>2, <1>3, <1>4

LEMMA ExitKeeps ==
  ASSUME StepInv, NEW l \in LotIds, Exit(l) PROVE StepInv'
<1> USE MemoryIsConfirmed DEF StepInv
<1> DEFINE s == lots[l].symbol
<1>1. CASE Unsold /\ stage' = stage
  BY <1>1, QuietStep DEF Exit, Unsold, Types, Polled, Fetched, WasLast
<1>2. CASE s \in DOMAIN fetched /\ Sell(s, {l}) /\ stage' = stage
  <2>1. s \in Symbols BY <1>2 DEF Fetched
  <2>2. UNCHANGED <<boughtOn, lastBelow, memory>> BY <1>2 DEF Exit, Sell
  <2> QED BY <1>2, <2>1, <2>2, SaleKeeps DEF Exit, Types, Confirmed
<1>3. CASE Fail
  BY <1>3, QuietStep DEF Exit, Fail, Types, Polled, Fetched
<1> QED BY <1>1, <1>2, <1>3 DEF Exit

\* What is remembered of a new candle is confirmed, too.
LEMMA SeenIsConfirmed ==
  ASSUME StepInv, NEW s \in Symbols, s \in DOMAIN fetched, stage = "signals"
  PROVE  /\ Seen(s) \in Memories /\ Confirmed(Seen(s), s)
         /\ Learned(Seen(s), fetched[s]) \in Memories
         /\ Confirmed(Learned(Seen(s), fetched[s]), s)
         /\ fetched[s].trend[strategy] \in Trends
<1> USE DEF StepInv
<1>1. fetched[s] \in Candles
  BY DEF Fetched, Polled, WasLast
<1>2. memory[s] \in Memories /\ Confirmed(memory[s], s)
  BY MemoryIsConfirmed DEF Types
<1>3. Seen(s) \in Memories /\ Confirmed(Seen(s), s)
  BY <1>1, <1>2 DEF Seen, Memory, Memories, Confirmed, Candles, Times, Never
<1>4. fetched[s].trend[strategy] \in Trends
  BY <1>1 DEF Types, Candles
<1> HIDE DEF StepInv
<1>5. ASSUME NEW m \in Memories, Confirmed(m, s)
      PROVE  Learned(m, fetched[s]) \in Memories /\ Confirmed(Learned(m, fetched[s]), s)
  BY <1>5 DEF Learned, Memory, Memories, Confirmed, Trends
<1> QED BY <1>3, <1>4, <1>5

LEMMA PassKeeps ==
  ASSUME StepInv, NEW s \in Symbols, Pass(s) PROVE StepInv'
<1> USE MemoryIsConfirmed DEF StepInv
<1>1. s \in DOMAIN fetched /\ stage = "signals" BY DEF Pass, Fetched
<1>2. Seen(s) \in Memories /\ Confirmed(Seen(s), s) BY <1>1, SeenIsConfirmed
<1>3. /\ memory' \in [Symbols -> Memories]
      /\ \A r \in Symbols : Confirmed(memory'[r], r)
  BY <1>2 DEF Pass, Remember, Types
<1> QED BY <1>3, QuietStep DEF Pass, Types, Polled, Fetched, WasLast

\* A purchase is based on a candle above; with it the cross is used up.
LEMMA PurchaseKeeps ==
  ASSUME StepInv, NEW s \in Symbols, s \in DOMAIN fetched, stage = "signals", Buy(s),
         ~Below(fetched[s]),
         UNCHANGED <<marketVars, strategy, status, fetched, stage>>,
         todo' \subseteq todo, memory' \in [Symbols -> Memories],
         ~memory'[s].armed, memory'[s].trend # "BELOW",
         \A r \in Symbols \ {s} : memory'[r] = memory[r]
  PROVE  StepInv'
<1> USE DEF StepInv, marketVars
<1>1. fetched[s] \in Candles /\ WasLast(s)
  BY DEF Fetched, Polled, WasLast
<1>2. fetched[s].at \in 0..MaxTime
  BY <1>1 DEF Candles
<1>3. /\ lastOrder' = [lastOrder EXCEPT ![s] = now]
      /\ orderedAt' = [orderedAt EXCEPT ![s] = now]
      /\ boughtOn' = [boughtOn EXCEPT ![s] = fetched[s].at]
      /\ lastBelow' = lastBelow
      /\ \A l \in DOMAIN lots' : lots'[l].symbol \in Symbols
  BY DEF Buy, Types
<1>4. Types'
  BY <1>2, <1>3 DEF Types, MarketTypes, HistoryTypes, Times
<1>5. Fetched'
  BY <1>3 DEF Fetched, WasLast, Below, Polled
<1>6. CrossesAreNew'
  <2> SUFFICES ASSUME NEW r \in Symbols, boughtOn'[r] # Never
               PROVE  /\ Follows(candle[r], r)'
                      /\ Polled' /\ r \in DOMAIN fetched' => Follows(fetched[r], r)'
                      /\ memory'[r].armed \/ memory'[r].trend = "BELOW" => boughtOn'[r] < lastBelow'[r]
    BY DEF CrossesAreNew
  <2>1. CASE r = s
    <3>1. boughtOn'[s] = fetched[s].at BY <1>3 DEF Types, HistoryTypes
    <3>2. Follows(fetched[s], s)'
      BY <1>2, <3>1 DEF Follows, Below
    <3>3. candle[s].at \in Int /\ lastBelow[s] \in Int
      BY DEF Types, MarketTypes, HistoryTypes, Candles, Unread, Never, Times
    <3>4. Follows(candle[s], s)'
      BY <1>1, <1>2, <1>3, <3>1, <3>3 DEF Follows, Below, WasLast
    <3> QED BY <2>1, <3>2, <3>4
  <2>2. CASE r # s
    BY <1>3, <2>2 DEF CrossesAreNew, Follows, Below, Polled, Types, HistoryTypes
  <2> QED BY <2>1, <2>2
<1>7. OrdersAreTimed'
  BY <1>3 DEF OrdersAreTimed
<1> QED BY <1>4, <1>5, <1>6, <1>7

LEMMA EvaluateKeeps ==
  ASSUME StepInv, NEW s \in Symbols, Evaluate(s) PROVE StepInv'
<1> USE MemoryIsConfirmed DEF StepInv
<1>1. s \in DOMAIN fetched /\ stage = "signals" BY DEF Evaluate, Fetched
<1> DEFINE after == Learned(Seen(s), fetched[s])
           trend == fetched[s].trend[strategy]
           Conclude(m) == Memory(trend, m.armed, m.count, m.lastBar)
<1>2. /\ after \in Memories /\ Confirmed(after, s) /\ trend \in Trends
      /\ after.armed => trend = "ABOVE"
  BY <1>1, SeenIsConfirmed DEF Learned, Memory, Trends
<1>3. trend = "BELOW" => boughtOn[s] = Never \/ boughtOn[s] < lastBelow[s]
  <2>1. boughtOn[s] \in Int /\ fetched[s].at \in Int
    BY <1>1 DEF Types, HistoryTypes, Times, Never, Fetched, Candles, Unread
  <2> QED BY <1>1, <2>1 DEF CrossesAreNew, Polled, Follows, Below
<1>4. Conclude(after) \in Memories /\ Confirmed(Conclude(after), s)
  BY <1>2, <1>3 DEF Memory, Memories, Confirmed, Trends
<1> HIDE DEF after, trend
<1>5. ASSUME NEW m \in Memories, Confirmed(m, s), Remember(s, m)
      PROVE  /\ memory' \in [Symbols -> Memories]
             /\ \A r \in Symbols : Confirmed(memory'[r], r)
  BY <1>5 DEF Remember, Types
<1>6. CASE Unsold /\ stage' = stage /\ Remember(s, Conclude(after))
  BY <1>4, <1>5, <1>6, QuietStep DEF Evaluate, Unsold, Types, Polled, Fetched, WasLast
<1>7. CASE Fail /\ Remember(s, after)
  BY <1>2, <1>5, <1>7, QuietStep DEF Evaluate, Fail, Types, Polled, Fetched
<1>8. CASE Sell(s, Held(s)) /\ stage' = stage /\ Remember(s, Conclude(after))
  BY <1>4, <1>5, <1>8, SaleKeeps DEF Evaluate
<1>9. CASE /\ after.armed /\ Buy(s) /\ stage' = stage
           /\ Remember(s, Conclude(Disarmed(after)))
  <2>1. trend = "ABOVE" /\ ~Below(fetched[s]) BY <1>2, <1>9 DEF trend, Below
  <2>2. /\ Conclude(Disarmed(after)) \in Memories
        /\ ~Conclude(Disarmed(after)).armed /\ Conclude(Disarmed(after)).trend = "ABOVE"
    BY <1>2, <2>1 DEF Disarmed, Memory, Memories, Trends
  <2>3. /\ memory' \in [Symbols -> Memories] /\ memory'[s] = Conclude(Disarmed(after))
        /\ \A r \in Symbols \ {s} : memory'[r] = memory[r]
    BY <1>9, <2>2 DEF Remember, Types
  <2> QED BY <1>1, <1>9, <2>1, <2>2, <2>3, PurchaseKeeps DEF Evaluate
<1> QED BY <1>6, <1>7, <1>8, <1>9 DEF Evaluate, after, trend

\* A new configuration or a new process forgets orders and history together.
LEMMA ForgettingKeeps ==
  ASSUME StepInv, Restart \/ \E st \in Strategies : Configure(st) PROVE StepInv'
<1> USE DEF StepInv
<1>1. /\ lastOrder' = Nowhere /\ NoHistory /\ memory' = [s \in Symbols |-> Fresh]
      /\ stage' = "off" /\ strategy' \in Strategies
      /\ UNCHANGED <<marketVars, lots>>
      /\ status'.sessions \subseteq Sessions
  BY DEF Restart, Configure, Types, UnknownStatus, pollVars
<1>2. Types'
  BY <1>1 DEF Types, MarketTypes, HistoryTypes, NoHistory, Nowhere, Times, Never, Fresh, Memory,
              Memories, Trends, marketVars
<1>3. Fetched'
  BY <1>1 DEF Fetched, Polled, Restart, Configure, pollVars, NoLocals
<1>4. CrossesAreNew' /\ OrdersAreTimed'
  BY <1>1 DEF CrossesAreNew, OrdersAreTimed, NoHistory, Nowhere
<1> QED BY <1>2, <1>3, <1>4

LEMMA StepKeeps == StepInv /\ [Next]_vars => StepInv'
<1> SUFFICES ASSUME StepInv, [Next]_vars PROVE StepInv'
  OBVIOUS
<1>1. CASE Next
  BY <1>1, TickKeeps, PollKeeps, ExitKeeps, PassKeeps, EvaluateKeeps, ForgettingKeeps DEF Next
<1>2. CASE UNCHANGED vars
  BY <1>2 DEF vars, StepInv, Types, MarketTypes, HistoryTypes, Fetched, WasLast, Below, Polled,
     CrossesAreNew, Follows, OrdersAreTimed, marketVars, pollVars, accountVars, history
<1> QED BY <1>1, <1>2

\* The inductive invariant: what is fetched, remembered and recorded agree.
THEOREM StepInvariant == Spec => []StepInv
BY StepInit, StepKeeps, PTL DEF Spec

\* Lots change by a sale or a purchase, within the hours; a purchase comes from
\* an armed cross after the waiting time.
LEMMA LotsChange ==
  ASSUME StepInv, Next, lots' # lots
  PROVE  /\ Within
         /\ \A s \in Symbols : Bought(s) =>
              /\ CanBuy(s)
              /\ boughtOn[s] = Never \/ boughtOn[s] < lastBelow[s]
<1>1. ASSUME NEW l \in LotIds, Exit(l) PROVE Within /\ \A s \in Symbols : ~Bought(s)
  <2>1. Within /\ Sell(lots[l].symbol, {l})
    BY <1>1 DEF Exit, Fail, Unsold, accountVars
  <2> QED BY <2>1 DEF Sell, Restrict, Bought
<1>2. ASSUME NEW r \in Symbols, Evaluate(r)
      PROVE  /\ Within
             /\ \A s \in Symbols : Bought(s) =>
                  /\ CanBuy(s)
                  /\ boughtOn[s] = Never \/ boughtOn[s] < lastBelow[s]
  <2> DEFINE after == Learned(Seen(r), fetched[r])
  <2>1. r \in DOMAIN fetched /\ stage = "signals"
    BY <1>2 DEF Evaluate, StepInv, Fetched
  <2>2. Confirmed(after, r) BY <2>1, SeenIsConfirmed
  <2> HIDE DEF after
  <2>3. CASE Within /\ Sell(r, Held(r))
    BY <2>3 DEF Sell, Restrict, Bought
  <2>4. CASE after.armed /\ CanBuy(r) /\ Buy(r)
    <3>1. \A s \in Symbols : Bought(s) => s = r
      BY <2>4 DEF Buy, Bought
    <3> QED BY <2>2, <2>4, <3>1 DEF CanBuy, Confirmed
  <2> QED BY <1>2, <2>3, <2>4 DEF Evaluate, Fail, Unsold, accountVars, after
<1> QED
  BY <1>1, <1>2
  DEF Next, Tick, Start, Stop, Restart, Configure, AskHours, ReadHours, ReadCandles, ReadPrices,
      FailToRead, ExitsDone, Pass, StepDone, accountVars

\* Strategies trade in session and within their hours.
THEOREM OrdersStayInSession == Spec => OrdersInSession
<1>1. StepInv /\ [Next]_vars => [lots' # lots => ActiveSessions(now) # {} /\ InWindow(strategy, now)]_vars
  <2> SUFFICES ASSUME StepInv, Next, lots' # lots
               PROVE  ActiveSessions(now) # {} /\ InWindow(strategy, now)
    BY DEF vars
  <2> QED BY LotsChange DEF Within, WithinHours, ActiveSessions, StepInv, Types
<1> QED BY <1>1, StepInvariant, PTL DEF Spec, OrdersInSession

\* A cross is used for one purchase.
THEOREM CrossesAreUsedOnce == Spec => OneEntryPerCross
<1>1. StepInv /\ [Next]_vars =>
        [\A s \in Symbols : Bought(s) => boughtOn[s] = Never \/ boughtOn[s] < lastBelow[s]]_vars
  BY LotsChange DEF Bought, vars
<1> QED BY <1>1, StepInvariant, PTL DEF Spec, OneEntryPerCross

\* A purchase waits for the cooldown after every order of its symbol.
THEOREM PurchasesWait == Spec => CooledDown
<1>1. StepInv /\ [Next]_vars =>
        [\A s \in Symbols : Bought(s) /\ orderedAt[s] # Never => now - orderedAt[s] >= Cooldown]_vars
  BY LotsChange DEF Bought, vars, StepInv, OrdersAreTimed, CanBuy
<1> QED BY <1>1, StepInvariant, PTL DEF Spec, CooledDown
=============================================================================
