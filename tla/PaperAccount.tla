---------------------------- MODULE PaperAccount ----------------------------
(***************************************************************************)
(* The paper (simulated) trading account of FOLIO: PaperBroker in          *)
(* auto_trader/paper.py, with the handlers of services/                    *)
(* paper_workspace_service.py and api/paper.py that change it, the order   *)
(* worker of trading/engine.py as the source of STRATEGY orders, and the   *)
(* restart path of lifecycle.py and runtime.py.                            *)
(*                                                                         *)
(* An account keeps cash, holdings, a log of orders, the request ids it    *)
(* has answered, and two lists of lots: the shares bought by strategies    *)
(* (auto) and the shares the current strategy looks after (managed).  Lots *)
(* are numbered per symbol in the order of the lists of the code, so that  *)
(* the first lot of a list is the one with the smallest number.            *)
(*                                                                         *)
(* Every broker method runs under the broker's lock and the @persisted     *)
(* wrapper: it either takes effect in memory and in the database, or is    *)
(* rolled back in memory and reported as failed - and then the database    *)
(* has the old state or, when only the acknowledgement of the commit was   *)
(* lost, the new one.                                                      *)
(***************************************************************************)
EXTENDS Integers, Sequences, Functions

CONSTANTS
  Symbols,      \* the stocks of the market
  Quantities,   \* order quantities (1..1000 in OrderRequest)
  Chunk,        \* the most shares one STRATEGY sale takes (1000)
  Prices,       \* execution prices a quote may give, slippage included
  FeePct, TaxPct,  \* fee_rate and sell_tax_rate, in percent
  RequestIds,   \* request ids a client may send, and resend
  NoRequest,    \* an order without one: the broker draws a fresh uuid
  Strategies,   \* saved DRY_RUN strategies
  Default,      \* the engine's own settings, before any strategy is chosen
  NoStrategy,   \* an empty strategy context; no selected strategy
  Targets,      \* the target symbols of each strategy
  Seeds,        \* starting assets: the initial account and copied snapshots
  RiskAnswers,  \* whether RiskManager.check_buy may refuse a purchase
  LostAcks,     \* whether a commit may succeed without being acknowledged
  WarmUp,       \* whether startup configures the engine before the account is
                \* restored (the owner's account when Toss is configured)
  MaxOrders,    \* bound on the order log
  MaxLots       \* bound on lot numbers

Scopes == {"CURRENT", "AUTO", "ALL"}
Contexts == Strategies \cup {Default, NoStrategy}

ASSUME ConstantsAssumption ==
  /\ Quantities \subseteq Nat \ {0}
  /\ Chunk \in Nat \ {0}
  /\ Prices \subseteq Nat \ {0}
  /\ FeePct \in Nat /\ TaxPct \in Nat /\ FeePct + TaxPct <= 100
  /\ NoRequest \notin RequestIds
  /\ NoStrategy \notin Strategies \cup {Default}
  /\ Targets \in [Strategies \cup {Default} -> SUBSET Symbols]
  /\ Seeds \subseteq [cash : Nat, positions : [Symbols -> Nat]]
  /\ RiskAnswers \subseteq BOOLEAN
  /\ LostAcks \in BOOLEAN /\ WarmUp \in BOOLEAN
  /\ MaxOrders \in Nat /\ MaxLots \in Nat
  /\ {"none", "baseline"} \cap Strategies = {}

VARIABLES
  acct,      \* the broker's memory
  disk,      \* paper_account_state.state: the durable part of an account
  engine,    \* the strategy the trading engine is configured with
  running,   \* TradingEngine.running
  selected,  \* workspace.selected_strategy
  lockedBy,  \* what a handler that holds the workspace lock still has to do
  answered   \* history: the orders that clients were told about, by request id

vars == <<acct, disk, engine, running, selected, lockedBy, answered>>

-----------------------------------------------------------------------------
(* Money.  Decimal.quantize(1, ROUND_DOWN) drops the fraction.              *)

Fee(amount) == (amount * FeePct) \div 100
Tax(amount) == (amount * TaxPct) \div 100
Amount(o) == o.price * o.quantity

\* What a filled order adds to cash.
CashFlow(o) == IF o.side = "BUY" THEN - Amount(o) - Fee(Amount(o))
               ELSE Amount(o) - Fee(Amount(o)) - Tax(Amount(o))

-----------------------------------------------------------------------------
(* Lots.                                                                    *)

NoLots == [i \in {} |-> 0]
NoLot == 0
LotTotal(lots) == SumFunction([i \in DOMAIN lots |-> lots[i].quantity])
WithLot(lots, i, lot) == [j \in DOMAIN lots \cup {i} |-> IF j = i THEN lot ELSE lots[j]]

\* The number the next lot of a list that uses the numbers used gets.
IsNextLot(i, used) == (\A j \in used : j < i) /\ (i = 1 \/ i - 1 \in used)

\* The shares taken from each of the lots in from when n shares are sold:
\* first lot first, until n shares are taken or the lots are exhausted.
Takings(lots, from, n) ==
  {t \in [from -> 0..n] :
     /\ \A i \in from : t[i] <= lots[i].quantity
     /\ \A i, j \in from : i < j /\ t[j] > 0 => t[i] = lots[i].quantity
     /\ \/ SumFunction(t) = n
        \/ SumFunction(t) < n /\ \A i \in from : t[i] = lots[i].quantity}

Left(lots, taken, i) == lots[i].quantity - (IF i \in DOMAIN taken THEN taken[i] ELSE 0)
Deduct(lots, taken) ==
  [i \in {j \in DOMAIN lots : Left(lots, taken, j) > 0} |->
     [lots[i] EXCEPT !.quantity = Left(lots, taken, i)]]

AutoQuantity(a, s) == LotTotal(a.auto[s])
StrategyQuantity(a, s) == LotTotal(a.managed[s])

-----------------------------------------------------------------------------
(* Orders.                                                                  *)

\* Variant: the fee is forgotten when the cash is compared.
AcceptableIgnoringFee(a, o, lot, blocked) ==
  IF o.side = "BUY" THEN ~blocked /\ Amount(o) <= a.cash
  ELSE o.quantity <= a.positions[o.symbol] - StrategyQuantity(a, o.symbol)

\* Variant: a manual sale may take the shares the strategy looks after.
AcceptableFromAnyone(a, o, lot, blocked) ==
  IF o.side = "BUY" THEN ~blocked /\ Amount(o) + Fee(Amount(o)) <= a.cash
  ELSE o.quantity <= a.positions[o.symbol]

\* PaperBroker.submit: the checks, in any order since each one only rejects.
Acceptable(a, o, lot, blocked) ==
  LET held == a.positions[o.symbol]
      managed == StrategyQuantity(a, o.symbol)
  IN IF o.side = "BUY"
     THEN ~blocked /\ Amount(o) + Fee(Amount(o)) <= a.cash
     ELSE /\ o.quantity <= held
          /\ o.quantity <= IF o.source = "STRATEGY" THEN managed ELSE held - managed
          /\ lot # NoLot => /\ lot \in DOMAIN a.managed[o.symbol]
                            /\ o.quantity <= a.managed[o.symbol][lot].quantity

\* Variant: the request id is not registered.
LoggedWithoutRequest(a, o) == [a EXCEPT !.orders = Append(@, o)]

\* The order is logged under the next id, filled or not, with its request id.
Logged(a, o) ==
  [a EXCEPT !.orders = Append(@, o),
            !.requests = IF o.request = NoRequest THEN @
                         ELSE [@ EXCEPT ![o.request] = Len(a.orders) + 1]]

\* A manual purchase joins the managed lots while a strategy context is set.
AdoptsManual(a, s) == /\ a.context # NoStrategy
                      /\ a.scope = "ALL" \/ (a.scope = "CURRENT" /\ s \in a.symbols)

Bought(a, o, i) ==
  LET s == o.symbol
      lot == [quantity |-> o.quantity, context |-> a.context,
              origin |-> IF o.source = "STRATEGY" THEN "AUTO" ELSE "MANUAL"]
  IN [a EXCEPT !.cash = @ + CashFlow(o),
               !.positions[s] = @ + o.quantity,
               !.auto[s] = IF o.source = "STRATEGY" THEN WithLot(@, i, lot) ELSE @,
               !.managed[s] = IF o.source = "STRATEGY" \/ AdoptsManual(a, s)
                              THEN WithLot(@, i, lot) ELSE @]

\* The lots a sale may take from, and how many of its shares come from lots:
\* a manual sale takes lots that are not managed, after the shares in no auto lot.
Candidates(a, o, lot) ==
  IF o.source = "STRATEGY"
  THEN IF lot # NoLot THEN {lot} ELSE DOMAIN a.managed[o.symbol]
  ELSE DOMAIN a.auto[o.symbol] \ DOMAIN a.managed[o.symbol]

FromLots(a, o) ==
  IF o.source = "STRATEGY" THEN o.quantity
  ELSE LET manual == a.positions[o.symbol] - AutoQuantity(a, o.symbol)
       IN IF o.quantity <= manual THEN 0 ELSE o.quantity - manual

Sold(a, o, taken) ==
  [a EXCEPT !.cash = @ + CashFlow(o),
            !.positions[o.symbol] = @ - o.quantity,
            !.auto[o.symbol] = Deduct(@, taken),
            !.managed[o.symbol] = Deduct(@, taken)]

\* The account after order o; o.filled is TRUE on entry.
Executions(a, o, lot, blocked) ==
  LET s == o.symbol
      lots == IF o.source = "STRATEGY" THEN a.managed[s] ELSE a.auto[s]
  IN IF ~Acceptable(a, o, lot, blocked)
     THEN {Logged(a, [o EXCEPT !.filled = FALSE])}
     ELSE IF o.side = "BUY"
     THEN {Bought(Logged(a, o), o, i) :
             i \in {n \in 1..MaxLots : IsNextLot(n, DOMAIN a.auto[s] \cup DOMAIN a.managed[s])}}
     ELSE {Sold(Logged(a, o), o, t) : t \in Takings(lots, Candidates(a, o, lot), FromLots(a, o))}

-----------------------------------------------------------------------------
(* begin_strategy, reset, snapshot and restore.                             *)

\* Variant: all shares of the symbol are handed over, the auto lots included.
WholeHolding(a, s) == a.positions[s]

\* The shares outside every auto lot, which the scope may hand to the strategy.
\* (A negative difference would break SharesAreOwnedOnce.)
ManualQuantity(a, s) ==
  LET rest == a.positions[s] - AutoQuantity(a, s) IN IF rest \in Nat THEN rest ELSE 0

\* The managed lots are rebuilt: auto lots in scope as they are, and one new
\* MANUAL lot for the other shares of a symbol in scope.
ManagedLots(a, strategy, scope, s, i) ==
  LET inScope == scope # "CURRENT" \/ s \in Targets[strategy]
      autos == IF inScope THEN a.auto[s] ELSE NoLots
  IN IF inScope /\ scope # "AUTO" /\ ManualQuantity(a, s) > 0
     THEN WithLot(autos, i, [quantity |-> ManualQuantity(a, s), context |-> strategy,
                             origin |-> "MANUAL"])
     ELSE autos

Begun(a, strategy, scope) ==
  {[a EXCEPT !.scope = scope, !.context = strategy, !.symbols = Targets[strategy],
             !.managed = [s \in Symbols |-> ManagedLots(a, strategy, scope, s, ids[s])]] :
     ids \in {f \in [Symbols -> 1..MaxLots] : \A s \in Symbols : IsNextLot(f[s], DOMAIN a.auto[s])}}

\* Variant: the order log survives the reset.
ReseededKeepsLog(a, seed) ==
  [a EXCEPT !.seed = seed, !.cash = seed.cash, !.positions = seed.positions,
            !.auto = [s \in Symbols |-> NoLots], !.managed = [s \in Symbols |-> NoLots]]

\* _reset_memory: back to the seed; scope, context and selection stay.
Reseeded(a, seed) ==
  [a EXCEPT !.seed = seed, !.cash = seed.cash, !.positions = seed.positions,
            !.orders = <<>>, !.requests = [r \in RequestIds |-> 0],
            !.auto = [s \in Symbols |-> NoLots], !.managed = [s \in Symbols |-> NoLots]]

\* _state: what reaches the database.
Durable(a) ==
  [cash |-> a.cash, positions |-> a.positions, orders |-> a.orders, requests |-> a.requests,
   auto |-> a.auto, scope |-> a.scope, selection |-> a.selection, seed |-> a.seed]

\* _restore_state in a new process.
Restored(d) ==
  [cash |-> d.cash, positions |-> d.positions, orders |-> d.orders, requests |-> d.requests,
   auto |-> d.auto, scope |-> d.scope, selection |-> d.selection, seed |-> d.seed,
   managed |-> [s \in Symbols |-> NoLots], symbols |-> {},
   context |-> IF WarmUp THEN Default ELSE NoStrategy]

-----------------------------------------------------------------------------
(* @persisted.                                                              *)

\* Variant: the change stays in memory.
SavedInMemory(next) == acct' = next /\ UNCHANGED disk

Saved(next) == acct' = next /\ disk' = Durable(next)
\* A failed save, and a save whose acknowledgement is lost.
RolledBack(next) ==
  acct' = acct /\ (UNCHANGED disk \/ (LostAcks /\ disk' = Durable(next)))

NoAnswers == [r \in {} |-> 0]
Answer(r, o) == IF r = NoRequest THEN answered
                ELSE [q \in DOMAIN answered \cup {r} |-> IF q = r THEN o ELSE answered[q]]

Init ==
  /\ \E seed \in Seeds :
       acct = [cash |-> seed.cash, positions |-> seed.positions, orders |-> <<>>,
               requests |-> [r \in RequestIds |-> 0], auto |-> [s \in Symbols |-> NoLots],
               managed |-> [s \in Symbols |-> NoLots], scope |-> "AUTO", symbols |-> {},
               context |-> IF WarmUp THEN Default ELSE NoStrategy,
               selection |-> NoStrategy, seed |-> seed]
  /\ disk = Durable(acct)
  /\ engine = Default /\ running = FALSE /\ selected = NoStrategy
  /\ lockedBy = "none" /\ answered = NoAnswers

Order(r, s, side, q, source, p) ==
  [request |-> r, symbol |-> s, side |-> side, quantity |-> q, source |-> source,
   price |-> p, filled |-> TRUE]

\* POST /orders: a manual order, with a new request id or none.
ManualOrder(r, s, side, q, p, blocked) ==
  /\ Len(acct.orders) < MaxOrders
  /\ r # NoRequest => acct.requests[r] = 0
  /\ \E next \in Executions(acct, Order(r, s, side, q, "MANUAL", p), NoLot, blocked) :
       \/ Saved(next) /\ answered' = Answer(r, next.orders[Len(next.orders)])
       \/ RolledBack(next) /\ UNCHANGED answered
  /\ UNCHANGED <<engine, running, selected, lockedBy>>

\* POST /orders again with an id the broker knows: the first order is the
\* answer; nothing is executed, but the account is saved again.
RepeatedOrder(r) ==
  /\ acct.requests[r] # 0
  /\ \/ Saved(acct) /\ answered' = Answer(r, acct.orders[acct.requests[r]])
     \/ RolledBack(acct) /\ UNCHANGED answered
  /\ UNCHANGED <<engine, running, selected, lockedBy>>

\* An order of the worker.  A failed save stops the worker: _run catches it.
WorkerOrder(o, lot, blocked) ==
  /\ running
  /\ Len(acct.orders) < MaxOrders
  /\ \E next \in Executions(acct, o, lot, blocked) :
       \/ Saved(next) /\ UNCHANGED running
       \/ RolledBack(next) /\ running' = FALSE
  /\ UNCHANGED <<engine, selected, lockedBy, answered>>

\* A strategy buys its targets; without targets, any stock of the market.
StrategyBuy(s, q, p, blocked) ==
  /\ Targets[engine] # {} => s \in Targets[engine]
  /\ WorkerOrder(Order(NoRequest, s, "BUY", q, "STRATEGY", p), NoLot, blocked)

\* An exit rule sells one lot, a crossing all managed shares, Chunk at a time.
StrategySell(s, lot, p) ==
  LET owned == IF lot = NoLot THEN StrategyQuantity(acct, s) ELSE acct.managed[s][lot].quantity
  IN /\ lot # NoLot => lot \in DOMAIN acct.managed[s]
     /\ \E q \in 1..Chunk :
          /\ q = owned \/ (q = Chunk /\ owned > Chunk)
          /\ WorkerOrder(Order(NoRequest, s, "SELL", q, "STRATEGY", p), lot, FALSE)

\* POST /paper/strategies/{id}/select stops the worker and stores the choice ...
RememberStrategy(st) ==
  LET next == [acct EXCEPT !.selection = st]
  IN /\ lockedBy = "none"
     /\ running' = FALSE
     /\ \/ Saved(next) /\ lockedBy' = st
        \/ RolledBack(next) /\ UNCHANGED lockedBy
     /\ UNCHANGED <<engine, selected, answered>>

\* ... then configures the engine, which changes before the broker does.
ApplyStrategy(st) ==
  /\ lockedBy = st
  /\ engine' = st
  /\ \E next \in Begun(acct, st, acct.scope) :
       \/ Saved(next) /\ selected' = st
       \/ RolledBack(next) /\ UNCHANGED selected
  /\ lockedBy' = "none"
  /\ UNCHANGED <<running, answered>>

\* PUT /strategy/settings, which takes no workspace lock.
ConfigureSettings ==
  /\ ~running
  /\ engine' = Default
  /\ \E next \in Begun(acct, Default, acct.scope) : Saved(next) \/ RolledBack(next)
  /\ UNCHANGED <<running, selected, lockedBy, answered>>

\* PUT /paper/management.
ChangeScope(scope) ==
  /\ lockedBy = "none" /\ ~running
  /\ \E next \in Begun(acct, engine, scope) : Saved(next) \/ RolledBack(next)
  /\ UNCHANGED <<engine, running, selected, lockedBy, answered>>

\* DELETE /paper/reset keeps the seed, POST /paper/snapshot/live copies a new
\* one; both then take a new baseline.  Earlier answers end when it is written,
\* heard of or not.
ReplaceAssets(seed) ==
  /\ lockedBy = "none"
  /\ running' = FALSE
  /\ \/ Saved(Reseeded(acct, seed)) /\ lockedBy' = "baseline" /\ answered' = NoAnswers
     \/ /\ RolledBack(Reseeded(acct, seed)) /\ UNCHANGED lockedBy
        /\ answered' = IF disk' = disk THEN answered ELSE NoAnswers
  /\ UNCHANGED <<engine, selected>>
ResetPractice == ReplaceAssets(acct.seed)
LoadSnapshot == \E seed \in Seeds : ReplaceAssets(seed)

TakeBaseline ==
  /\ lockedBy = "baseline"
  /\ \E next \in Begun(acct, engine, acct.scope) : Saved(next) \/ RolledBack(next)
  /\ lockedBy' = "none"
  /\ UNCHANGED <<engine, running, selected, answered>>

StartEngine ==
  /\ lockedBy = "none" /\ ~running /\ selected # NoStrategy
  /\ running' = TRUE
  /\ UNCHANGED <<acct, disk, engine, selected, lockedBy, answered>>

\* Pause, emergency stop and logout.
StopEngine ==
  /\ running
  /\ running' = FALSE
  /\ UNCHANGED <<acct, disk, engine, selected, lockedBy, answered>>

\* The process ends, at any moment, and a new one restores the account.  The
\* remembered strategy is configured again if it is still there (found).
Restart(found) ==
  LET st == disk.selection
  IN /\ IF st # NoStrategy /\ found
        THEN /\ \E next \in Begun(Restored(disk), st, disk.scope) : Saved(next)
             /\ engine' = st /\ selected' = st
        ELSE /\ acct' = Restored(disk) /\ UNCHANGED disk
             /\ engine' = Default /\ selected' = NoStrategy
     /\ running' = FALSE /\ lockedBy' = "none"
     /\ UNCHANGED answered

Sides == {"BUY", "SELL"}

Next ==
  \/ \E r \in RequestIds \cup {NoRequest}, s \in Symbols, side \in Sides, q \in Quantities,
        p \in Prices : \E blocked \in (IF side = "BUY" THEN RiskAnswers ELSE {FALSE}) :
       ManualOrder(r, s, side, q, p, blocked)
  \/ \E r \in RequestIds : RepeatedOrder(r)
  \/ \E s \in Symbols, q \in Quantities, p \in Prices, blocked \in RiskAnswers :
       StrategyBuy(s, q, p, blocked)
  \/ \E s \in Symbols, p \in Prices : \E lot \in DOMAIN acct.managed[s] \cup {NoLot} :
       StrategySell(s, lot, p)
  \/ \E st \in Strategies : RememberStrategy(st) \/ ApplyStrategy(st)
  \/ ConfigureSettings
  \/ \E scope \in Scopes : ChangeScope(scope)
  \/ ResetPractice
  \/ LoadSnapshot
  \/ TakeBaseline
  \/ StartEngine
  \/ StopEngine
  \/ \E found \in BOOLEAN : Restart(found)

Spec == Init /\ [][Next]_vars

-----------------------------------------------------------------------------
(* Properties.                                                              *)

Lot == [quantity : Nat \ {0}, context : Contexts, origin : {"AUTO", "MANUAL"}]
LotsOK(lots) == /\ lots = [i \in DOMAIN lots |-> lots[i]]
                /\ DOMAIN lots \subseteq 1..MaxLots
                /\ \A i \in DOMAIN lots : lots[i] \in Lot
OrderRecord == [request : RequestIds \cup {NoRequest}, symbol : Symbols, side : Sides,
                quantity : Nat \ {0}, source : {"MANUAL", "STRATEGY"}, price : Prices,
                filled : BOOLEAN]
DurableOK(a) ==
  /\ a.cash \in Int
  /\ a.positions \in [Symbols -> Nat]
  /\ a.orders \in Seq(OrderRecord)
  /\ a.requests \in [RequestIds -> Nat]
  /\ DOMAIN a.auto = Symbols /\ \A s \in Symbols : LotsOK(a.auto[s])
  /\ a.scope \in Scopes
  /\ a.selection \in Strategies \cup {NoStrategy}
  /\ a.seed \in [cash : Nat, positions : [Symbols -> Nat]]

\* Types of the account in memory and of its saved form.
TypeOK ==
  /\ DurableOK(acct) /\ DurableOK(disk)
  /\ DOMAIN acct.managed = Symbols /\ \A s \in Symbols : LotsOK(acct.managed[s])
  /\ acct.context \in Contexts /\ acct.symbols \in SUBSET Symbols
  /\ engine \in Strategies \cup {Default}
  /\ running \in BOOLEAN
  /\ selected \in Strategies \cup {NoStrategy}
  /\ lockedBy \in Strategies \cup {"none", "baseline"}
  /\ DOMAIN answered \subseteq RequestIds
  /\ \A r \in DOMAIN answered : answered[r] \in OrderRecord

\* Cash never goes negative: a purchase that costs more than the cash is
\* rejected, and a sale never costs more than it brings in.
CashNeverNegative == acct.cash >= 0 /\ disk.cash >= 0

\* Every share is owned once: the auto lots and the managed manual lots of a
\* symbol never add up to more than the shares held, whatever sequence of
\* purchases, sales, scope changes and restarts led here.
SharesAreOwnedOnce ==
  \A s \in Symbols :
    LET manual == {i \in DOMAIN acct.managed[s] : acct.managed[s][i].origin = "MANUAL"}
    IN AutoQuantity(acct, s) + LotTotal([i \in manual |-> acct.managed[s][i]])
         <= acct.positions[s]

\* The two lists agree on the lots they share: a managed auto lot has the same
\* quantity and exit rules in both, even after a rollback has copied each list
\* by itself; a managed manual lot is in the managed list only.
SharedLotsAgree ==
  \A s \in Symbols : \A i \in DOMAIN acct.managed[s] :
    IF acct.managed[s][i].origin = "AUTO"
    THEN i \in DOMAIN acct.auto[s] /\ acct.auto[s][i] = acct.managed[s][i]
    ELSE i \notin DOMAIN acct.auto[s]

\* A symbol never has managed manual shares next to an auto lot that nobody
\* manages: otherwise a manual sale could take shares of both for its own.
NoMixedOwnership ==
  \A s \in Symbols :
    (\E i \in DOMAIN acct.managed[s] : acct.managed[s][i].origin = "MANUAL")
      => DOMAIN acct.auto[s] \subseteq DOMAIN acct.managed[s]

\* The order log explains the account: cash and holdings are the seed plus
\* what the filled orders of the log did, in memory and in the database, across
\* rollbacks, resets and restarts.
Explained(a) ==
  LET filled == {i \in DOMAIN a.orders : a.orders[i].filled}
      Shares(s) == [i \in {j \in filled : a.orders[j].symbol = s} |->
                      IF a.orders[i].side = "BUY" THEN a.orders[i].quantity
                      ELSE - a.orders[i].quantity]
  IN /\ a.cash = a.seed.cash + SumFunction([i \in filled |-> CashFlow(a.orders[i])])
     /\ \A s \in Symbols : a.positions[s] = a.seed.positions[s] + SumFunction(Shares(s))
LogExplainsAccount == Explained(acct) /\ Explained(disk)

\* A request id is executed at most once, however often it is sent, also when
\* a save failed or was not acknowledged in between.
Once(a) ==
  \A i, j \in DOMAIN a.orders :
    a.orders[i].request = a.orders[j].request /\ a.orders[i].request # NoRequest => i = j
RequestsExecuteOnce == Once(acct) /\ Once(disk)

\* What a client was told stays true: the order answered to a request id is
\* in memory and in the database until the assets are replaced, also after
\* later failed saves and restarts.
Keeps(a, r) == a.requests[r] \in DOMAIN a.orders /\ a.orders[a.requests[r]] = answered[r]
AnsweredOrdersAreKept == \A r \in DOMAIN answered : Keeps(acct, r) /\ Keeps(disk, r)
=============================================================================
