------------------------- MODULE PaperAccountProofs -------------------------
(***************************************************************************)
(* Proofs about PaperAccount for every set of symbols, prices, strategies  *)
(* and requests and every bound.  Each operation of the broker maps a good *)
(* account to a good account (the lemmas on Executions, Begun, Reseeded    *)
(* and Restored); a step then either keeps and saves such an account or    *)
(* rolls back, so that both the memory and the database stay good.         *)
(***************************************************************************)
EXTENDS PaperOwnership, FoldLemmas, TLAPS

-----------------------------------------------------------------------------
(* The inductive invariant.                                                 *)

\* A logged request id points back at its order.
RequestsIndexed(d) ==
  /\ \A i \in DOMAIN d.orders :
       d.orders[i].request # NoRequest => d.requests[d.orders[i].request] = i
  /\ \A r \in RequestIds : d.requests[r] \in 0..Len(d.orders)

AutoOrigins(d) == \A s \in Symbols : \A i \in DOMAIN d.auto[s] : d.auto[s][i].origin = "AUTO"

GoodRecord(d) == DurableOK(d) /\ d.cash >= 0 /\ AutoOrigins(d) /\ RequestsIndexed(d)

Fields == {"cash", "positions", "orders", "requests", "auto", "managed", "scope", "context",
           "symbols", "selection", "seed"}
SharedLots(a) ==
  \A s \in Symbols : \A i \in DOMAIN a.managed[s] :
    IF a.managed[s][i].origin = "AUTO"
    THEN i \in DOMAIN a.auto[s] /\ a.auto[s][i] = a.managed[s][i]
    ELSE i \notin DOMAIN a.auto[s]
\* Where manual shares are or will be adopted, the strategy manages every auto
\* lot - unless startup set a context before the lots were restored.
Adopting(a, s) == AdoptsManual(a, s)
                  \/ \E i \in DOMAIN a.managed[s] : a.managed[s][i].origin = "MANUAL"
Together(a) ==
  WarmUp \/ \A s \in Symbols : Adopting(a, s) => DOMAIN a.auto[s] \subseteq DOMAIN a.managed[s]
GoodAccount(a) ==
  /\ GoodRecord(a)
  /\ DOMAIN a = Fields
  /\ DOMAIN a.managed = Symbols /\ \A s \in Symbols : LotsOK(a.managed[s])
  /\ a.context \in Contexts /\ a.symbols \in SUBSET Symbols
  /\ SharedLots(a)
  /\ Together(a)

ProcessOK ==
  /\ engine \in Strategies \cup {Default}
  /\ running \in BOOLEAN
  /\ selected \in Strategies \cup {NoStrategy}
  /\ lockedBy \in Strategies \cup {"none", "baseline"}
  /\ DOMAIN answered \subseteq RequestIds
  /\ \A r \in DOMAIN answered : answered[r] \in OrderRecord

\* In memory and in the database the account is good, and both keep the
\* answered orders.
PaperInvariant == /\ GoodAccount(acct) /\ GoodRecord(disk) /\ ProcessOK
                  /\ AnsweredOrdersAreKept

-----------------------------------------------------------------------------
(* Money.                                                                   *)

\* Fee and tax are natural numbers and together never exceed the amount.
LEMMA FeeAndTax ==
  ASSUME NEW x \in Nat
  PROVE  Fee(x) \in Nat /\ Tax(x) \in Nat /\ Fee(x) + Tax(x) <= x
<1> DEFINE f == x * FeePct  t == x * TaxPct
<1>1. f \in Nat /\ t \in Nat
  BY ConstantsAssumption
<1>2. f + t = x * (FeePct + TaxPct)
  BY ConstantsAssumption
<1>3. \A p \in Nat : p <= 100 => x * p <= x * 100
  OBVIOUS
<1>4. f + t <= 100 * x
  BY <1>2, <1>3, ConstantsAssumption
<1> HIDE DEF f, t
<1>5. (f \div 100) \in Nat /\ (t \div 100) \in Nat /\ (f \div 100) + (t \div 100) <= x
  BY <1>1, <1>4
<1> QED
  BY <1>5 DEF Fee, Tax, f, t

\* The amount of an order is a natural number.
LEMMA AmountNat ==
  ASSUME NEW o \in OrderRecord
  PROVE  Amount(o) \in Nat
<1>1. o.price \in Nat /\ o.quantity \in Nat
  BY ConstantsAssumption DEF OrderRecord
<1>2. \A x, y \in Nat : x * y \in Nat
  OBVIOUS
<1> QED
  BY <1>1, <1>2 DEF Amount

-----------------------------------------------------------------------------
(* Lots.                                                                    *)

\* A new lot under a number of the range keeps a list well formed.
LEMMA WithLotOK ==
  ASSUME NEW lots, LotsOK(lots), NEW i \in 1..MaxLots, NEW lot \in Lot
  PROVE  LotsOK(WithLot(lots, i, lot))
BY DEF LotsOK, WithLot

\* A deduction keeps a list well formed, whatever natural numbers are taken.
LEMMA DeductOK ==
  ASSUME NEW lots, LotsOK(lots), NEW taken, \A i \in DOMAIN taken : taken[i] \in Nat
  PROVE  LotsOK(Deduct(lots, taken))
<1>1. \A i \in DOMAIN lots : Left(lots, taken, i) \in Int
  BY DEF LotsOK, Lot, Left
<1>2. \A i \in DOMAIN Deduct(lots, taken) :
        /\ i \in DOMAIN lots /\ Left(lots, taken, i) > 0
        /\ Deduct(lots, taken)[i] = [lots[i] EXCEPT !.quantity = Left(lots, taken, i)]
  BY DEF Deduct
<1>3. \A i \in DOMAIN Deduct(lots, taken) : Deduct(lots, taken)[i] \in Lot
  BY <1>1, <1>2 DEF LotsOK, Lot
<1> QED
  BY <1>2, <1>3 DEF LotsOK, Deduct

-----------------------------------------------------------------------------
(* Orders.                                                                  *)

\* What is known of an order that reaches the broker: it is new.
NewOrder(a, o) == /\ o \in OrderRecord /\ o.filled = TRUE
                  /\ o.request # NoRequest => a.requests[o.request] = 0

\* Logging an order keeps the account good; only log and requests change.
LEMMA LoggedGood ==
  ASSUME NEW a, GoodAccount(a), NEW o \in OrderRecord,
         o.request # NoRequest => a.requests[o.request] = 0
  PROVE  /\ GoodAccount(Logged(a, o))
         /\ \A f \in Fields \ {"orders", "requests"} : Logged(a, o)[f] = a[f]
<1> DEFINE b == Logged(a, o)
           n == Len(a.orders) + 1
<1>1. /\ DOMAIN b = Fields
      /\ \A f \in Fields \ {"orders", "requests"} : b[f] = a[f]
      /\ b.orders = Append(a.orders, o)
      /\ b.requests = IF o.request = NoRequest THEN a.requests
                      ELSE [a.requests EXCEPT ![o.request] = n]
  BY DEF GoodAccount, Fields, Logged
<1>2. a.orders \in Seq(OrderRecord) /\ a.requests \in [RequestIds -> Nat]
  BY DEF GoodAccount, GoodRecord, DurableOK
<1>3. /\ b.orders \in Seq(OrderRecord) /\ Len(b.orders) = n /\ DOMAIN b.orders = 1..n
      /\ \A i \in 1..Len(a.orders) : b.orders[i] = a.orders[i]
      /\ b.orders[n] = o /\ DOMAIN a.orders = 1..Len(a.orders) /\ Len(a.orders) \in Nat
  BY <1>1, <1>2
<1>4. o.request \in RequestIds \cup {NoRequest}
  BY DEF OrderRecord
<1>5. b.requests \in [RequestIds -> Nat]
  BY <1>1, <1>2, <1>3, <1>4
<1>6. RequestsIndexed(b)
  <2>1. ASSUME NEW i \in DOMAIN b.orders, b.orders[i].request # NoRequest
        PROVE  b.requests[b.orders[i].request] = i
    <3>1. CASE i = n
      BY <3>1, <2>1, <1>1, <1>2, <1>3, <1>4
    <3>2. CASE i # n
      <4>1. i \in DOMAIN a.orders /\ b.orders[i] = a.orders[i] /\ i # 0
        BY <3>2, <1>3
      <4>2. a.requests[a.orders[i].request] = i
        BY <4>1, <2>1 DEF GoodAccount, GoodRecord, RequestsIndexed
      <4>3. o.request # NoRequest => a.orders[i].request # o.request
        BY <4>1, <4>2
      <4> QED
        BY <4>1, <4>2, <4>3, <1>1, <1>2
    <3> QED
      BY <3>1, <3>2
  <2>2. ASSUME NEW r \in RequestIds
        PROVE  b.requests[r] \in 0..n
    <3>1. a.requests[r] \in 0..Len(a.orders)
      BY DEF GoodAccount, GoodRecord, RequestsIndexed
    <3> QED
      BY <3>1, <1>1, <1>2, <1>3
  <2> QED
    BY <2>1, <2>2, <1>3 DEF RequestsIndexed
<1>7. GoodAccount(b)
  <2>1. /\ b.cash = a.cash /\ b.positions = a.positions /\ b.auto = a.auto
        /\ b.managed = a.managed /\ b.scope = a.scope /\ b.context = a.context
        /\ b.symbols = a.symbols /\ b.selection = a.selection /\ b.seed = a.seed
    BY <1>1 DEF Fields
  <2> HIDE DEF b
  <2> QED
    BY <2>1, <1>1, <1>3, <1>5, <1>6
    DEF GoodAccount, GoodRecord, DurableOK, AutoOrigins, SharedLots, Together, Adopting,
        AdoptsManual
<1> QED
  BY <1>1, <1>7

\* A purchase that the cash covers keeps a good account good.
LEMMA BoughtGood ==
  ASSUME NEW a, GoodAccount(a), NEW o \in OrderRecord, o.side = "BUY",
         Amount(o) + Fee(Amount(o)) <= a.cash,
         NEW i \in 1..MaxLots,
         i \notin DOMAIN a.auto[o.symbol] \cup DOMAIN a.managed[o.symbol]
  PROVE  /\ GoodAccount(Bought(a, o, i))
         /\ \A f \in Fields \ {"cash", "positions", "auto", "managed"} : Bought(a, o, i)[f] = a[f]
<1> DEFINE b == Bought(a, o, i)
           s == o.symbol
           lot == [quantity |-> o.quantity, context |-> a.context,
                   origin |-> IF o.source = "STRATEGY" THEN "AUTO" ELSE "MANUAL"]
           strategy == o.source = "STRATEGY"
           adopted == strategy \/ AdoptsManual(a, s)
<1>1. /\ DOMAIN b = Fields
      /\ \A f \in Fields \ {"cash", "positions", "auto", "managed"} : b[f] = a[f]
      /\ b.cash = a.cash + CashFlow(o)
      /\ b.positions = [a.positions EXCEPT ![s] = @ + o.quantity]
      /\ b.auto = [a.auto EXCEPT ![s] = IF strategy THEN WithLot(@, i, lot) ELSE @]
      /\ b.managed = [a.managed EXCEPT ![s] = IF adopted THEN WithLot(@, i, lot) ELSE @]
  BY DEF GoodAccount, Fields, Bought
<1>2. s \in Symbols /\ o.quantity \in Nat \ {0} /\ lot \in Lot
  BY DEF GoodAccount, OrderRecord, Lot
<1>3. b.cash \in Int /\ b.cash >= 0
  <2>1. Amount(o) \in Nat
    BY AmountNat
  <2>2. a.cash \in Int
    BY DEF GoodAccount, GoodRecord, DurableOK
  <2> QED
    BY <2>1, <2>2, <1>1, FeeAndTax DEF CashFlow
<1>4. b.positions \in [Symbols -> Nat]
  BY <1>1, <1>2 DEF GoodAccount, GoodRecord, DurableOK
<1>5. /\ DOMAIN b.auto = Symbols /\ DOMAIN b.managed = Symbols
      /\ \A z \in Symbols \ {s} : b.auto[z] = a.auto[z] /\ b.managed[z] = a.managed[z]
      /\ b.auto[s] = IF strategy THEN WithLot(a.auto[s], i, lot) ELSE a.auto[s]
      /\ b.managed[s] = IF adopted THEN WithLot(a.managed[s], i, lot) ELSE a.managed[s]
  BY <1>1, <1>2 DEF GoodAccount, GoodRecord, DurableOK
<1>6. \A z \in Symbols : LotsOK(b.auto[z]) /\ LotsOK(b.managed[z])
  <2>1. \A z \in Symbols : LotsOK(a.auto[z]) /\ LotsOK(a.managed[z])
    BY DEF GoodAccount, GoodRecord, DurableOK
  <2> HIDE DEF b, lot, strategy, adopted
  <2>2. LotsOK(WithLot(a.auto[s], i, lot)) /\ LotsOK(WithLot(a.managed[s], i, lot))
    BY <2>1, <1>2, WithLotOK
  <2> QED
    BY <2>1, <2>2, <1>5
<1>7. AutoOrigins(b)
  BY <1>5, <1>2 DEF GoodAccount, GoodRecord, AutoOrigins, WithLot
<1>8. SharedLots(b)
  <2>1. ASSUME NEW z \in Symbols \ {s}, NEW j \in DOMAIN b.managed[z]
        PROVE  IF b.managed[z][j].origin = "AUTO"
               THEN j \in DOMAIN b.auto[z] /\ b.auto[z][j] = b.managed[z][j]
               ELSE j \notin DOMAIN b.auto[z]
    BY <1>5 DEF GoodAccount, SharedLots
  <2>2. ASSUME NEW j \in DOMAIN b.managed[s]
        PROVE  IF b.managed[s][j].origin = "AUTO"
               THEN j \in DOMAIN b.auto[s] /\ b.auto[s][j] = b.managed[s][j]
               ELSE j \notin DOMAIN b.auto[s]
    BY <1>5, <1>2 DEF GoodAccount, SharedLots, WithLot
  <2> QED
    BY <2>1, <2>2 DEF SharedLots
<1>9. Together(b)
  <2>1. /\ b.context = a.context /\ b.scope = a.scope /\ b.symbols = a.symbols
    BY <1>1 DEF Fields
  <2>2. \A z \in Symbols : AdoptsManual(b, z) = AdoptsManual(a, z)
    BY <2>1 DEF AdoptsManual
  <2>3. ~strategy => lot.origin = "MANUAL"
    OBVIOUS
  <2>4. strategy => lot.origin = "AUTO"
    OBVIOUS
  <2> HIDE DEF b, lot
  <2>5. ASSUME NEW z \in Symbols, Adopting(b, z)
        PROVE  Adopting(a, z)
    BY <2>2, <2>4, <2>5, <1>2, <1>5 DEF Adopting, WithLot
  <2>6. ASSUME NEW z \in Symbols, DOMAIN a.auto[z] \subseteq DOMAIN a.managed[z]
        PROVE  DOMAIN b.auto[z] \subseteq DOMAIN b.managed[z]
    BY <2>6, <1>5 DEF WithLot
  <2> QED
    BY <2>5, <2>6 DEF GoodAccount, Together
<1>10. GoodAccount(b)
  <2>1. /\ b.orders = a.orders /\ b.requests = a.requests /\ b.scope = a.scope
        /\ b.context = a.context /\ b.symbols = a.symbols /\ b.selection = a.selection
        /\ b.seed = a.seed
    BY <1>1 DEF Fields
  <2> HIDE DEF b
  <2> QED
    BY <2>1, <1>1, <1>3, <1>4, <1>5, <1>6, <1>7, <1>8, <1>9
    DEF GoodAccount, GoodRecord, DurableOK, RequestsIndexed
<1> QED
  BY <1>1, <1>10

\* A sale of shares that the account holds keeps a good account good, whatever
\* numbers are taken from whatever lots.
LEMMA SoldGood ==
  ASSUME NEW a, GoodAccount(a), NEW o \in OrderRecord, o.side = "SELL",
         o.quantity <= a.positions[o.symbol],
         NEW taken, \A i \in DOMAIN taken : taken[i] \in Nat
  PROVE  /\ GoodAccount(Sold(a, o, taken))
         /\ \A f \in Fields \ {"cash", "positions", "auto", "managed"} : Sold(a, o, taken)[f] = a[f]
<1> DEFINE b == Sold(a, o, taken)
           s == o.symbol
<1>1. /\ DOMAIN b = Fields
      /\ \A f \in Fields \ {"cash", "positions", "auto", "managed"} : b[f] = a[f]
      /\ b.cash = a.cash + CashFlow(o)
      /\ b.positions = [a.positions EXCEPT ![s] = @ - o.quantity]
      /\ b.auto = [a.auto EXCEPT ![s] = Deduct(@, taken)]
      /\ b.managed = [a.managed EXCEPT ![s] = Deduct(@, taken)]
  BY DEF GoodAccount, Fields, Sold
<1>2. s \in Symbols /\ o.quantity \in Nat \ {0}
  BY DEF OrderRecord
<1>3. b.cash \in Int /\ b.cash >= 0
  <2>1. Amount(o) \in Nat
    BY AmountNat
  <2>2. a.cash \in Int /\ a.cash >= 0
    BY DEF GoodAccount, GoodRecord, DurableOK
  <2> QED
    BY <2>1, <2>2, <1>1, FeeAndTax DEF CashFlow
<1>4. b.positions \in [Symbols -> Nat]
  BY <1>1, <1>2 DEF GoodAccount, GoodRecord, DurableOK
<1>5. /\ DOMAIN b.auto = Symbols /\ DOMAIN b.managed = Symbols
      /\ \A z \in Symbols \ {s} : b.auto[z] = a.auto[z] /\ b.managed[z] = a.managed[z]
      /\ b.auto[s] = Deduct(a.auto[s], taken)
      /\ b.managed[s] = Deduct(a.managed[s], taken)
  BY <1>1, <1>2 DEF GoodAccount, GoodRecord, DurableOK
<1>6. \A z \in Symbols : LotsOK(b.auto[z]) /\ LotsOK(b.managed[z])
  BY <1>5, <1>2, DeductOK DEF GoodAccount, GoodRecord, DurableOK
<1>7. \A lots, j : j \in DOMAIN Deduct(lots, taken) =>
        j \in DOMAIN lots /\ Deduct(lots, taken)[j] = [lots[j] EXCEPT !.quantity = Left(lots, taken, j)]
  BY DEF Deduct
<1>8. AutoOrigins(b)
  <2>1. ASSUME NEW j \in DOMAIN b.auto[s]
        PROVE  b.auto[s][j].origin = "AUTO"
    <3>1. j \in DOMAIN a.auto[s] /\ a.auto[s][j] \in Lot /\ a.auto[s][j].origin = "AUTO"
      <4>1. j \in DOMAIN a.auto[s]
        BY <1>2, <1>5, <1>7
      <4>2. a.auto[s][j].origin = "AUTO"
        BY <4>1, <1>2 DEF GoodAccount, GoodRecord, AutoOrigins
      <4>3. LotsOK(a.auto[s])
        BY <1>2 DEF GoodAccount, GoodRecord, DurableOK
      <4> QED
        BY <4>1, <4>2, <4>3 DEF LotsOK
    <3> QED
      BY <3>1, <1>5, <1>7 DEF Lot
  <2> QED
    BY <2>1, <1>5 DEF GoodAccount, GoodRecord, AutoOrigins
<1>9. SharedLots(b)
  <2>1. ASSUME NEW z \in Symbols \ {s}, NEW j \in DOMAIN b.managed[z]
        PROVE  IF b.managed[z][j].origin = "AUTO"
               THEN j \in DOMAIN b.auto[z] /\ b.auto[z][j] = b.managed[z][j]
               ELSE j \notin DOMAIN b.auto[z]
    BY <1>5 DEF GoodAccount, SharedLots
  <2>2. ASSUME NEW j \in DOMAIN b.managed[s]
        PROVE  IF b.managed[s][j].origin = "AUTO"
               THEN j \in DOMAIN b.auto[s] /\ b.auto[s][j] = b.managed[s][j]
               ELSE j \notin DOMAIN b.auto[s]
    <3> DEFINE m == a.managed[s][j]  u == a.auto[s][j]
    <3>1. j \in DOMAIN a.managed[s] /\ m \in Lot /\ b.managed[s][j].origin = m.origin
      <4>1. j \in DOMAIN a.managed[s] /\ m \in Lot
        BY <1>2, <1>5, <1>7 DEF GoodAccount, LotsOK
      <4> QED
        BY <4>1, <1>5, <1>7 DEF Lot
    <3>2. CASE m.origin = "AUTO"
      <4>1. j \in DOMAIN a.auto[s] /\ u = m
        BY <3>1, <3>2, <1>2 DEF GoodAccount, SharedLots
      <4>2. Left(a.auto[s], taken, j) = Left(a.managed[s], taken, j)
        BY <4>1 DEF Left
      <4>3. j \in DOMAIN b.auto[s] /\ b.auto[s][j] = b.managed[s][j]
        BY <4>1, <4>2, <1>5 DEF Deduct
      <4> QED
        BY <4>3, <3>1, <3>2
    <3>3. CASE m.origin # "AUTO"
      BY <3>1, <3>3, <1>2, <1>5, <1>7 DEF GoodAccount, SharedLots
    <3> QED
      BY <3>2, <3>3
  <2> QED
    BY <2>1, <2>2 DEF SharedLots
<1>10. Together(b)
  <2>1. /\ b.context = a.context /\ b.scope = a.scope /\ b.symbols = a.symbols
    BY <1>1 DEF Fields
  <2>2. \A z \in Symbols : AdoptsManual(b, z) = AdoptsManual(a, z)
    BY <2>1 DEF AdoptsManual
  <2>3. \A j \in DOMAIN b.managed[s] : j \in DOMAIN a.managed[s]
                                       /\ b.managed[s][j].origin = a.managed[s][j].origin
    <3>1. \A j \in DOMAIN a.managed[s] : a.managed[s][j] \in Lot
      BY <1>2 DEF GoodAccount, LotsOK
    <3> QED
      BY <3>1, <1>5, <1>7 DEF Lot
  <2>4. ASSUME NEW z \in Symbols, Adopting(b, z)
        PROVE  Adopting(a, z)
    BY <2>2, <2>3, <2>4, <1>2, <1>5 DEF Adopting
  <2>5. ASSUME NEW z \in Symbols, DOMAIN a.auto[z] \subseteq DOMAIN a.managed[z],
               NEW j \in DOMAIN b.auto[z]
        PROVE  j \in DOMAIN b.managed[z]
    <3>1. CASE z # s
      BY <3>1, <2>5, <1>5
    <3>2. CASE z = s
      <4>1. j \in DOMAIN a.auto[s] /\ j \in DOMAIN a.managed[s] /\ Left(a.auto[s], taken, j) > 0
        BY <3>2, <2>5, <1>5 DEF Deduct
      <4>2. a.auto[s][j] = a.managed[s][j]
        BY <4>1, <1>2 DEF GoodAccount, SharedLots
      <4>3. Left(a.managed[s], taken, j) > 0
        BY <4>1, <4>2 DEF Left
      <4> QED
        BY <4>1, <4>3, <3>2, <1>5 DEF Deduct
    <3> QED
      BY <3>1, <3>2
  <2> QED
    BY <2>4, <2>5 DEF GoodAccount, Together
<1>11. GoodAccount(b)
  <2>1. /\ b.orders = a.orders /\ b.requests = a.requests /\ b.scope = a.scope
        /\ b.context = a.context /\ b.symbols = a.symbols /\ b.selection = a.selection
        /\ b.seed = a.seed
    BY <1>1 DEF Fields
  <2> HIDE DEF b
  <2> QED
    BY <2>1, <1>1, <1>3, <1>4, <1>5, <1>6, <1>8, <1>9, <1>10
    DEF GoodAccount, GoodRecord, DurableOK, RequestsIndexed
<1> QED
  BY <1>1, <1>11

\* How an order changes the log and the index of request ids.
Extends(a, o, next) ==
  /\ Len(next.orders) = Len(a.orders) + 1
  /\ \A i \in DOMAIN a.orders : i \in DOMAIN next.orders /\ next.orders[i] = a.orders[i]
  /\ \A r \in RequestIds :
       next.requests[r] = IF r = o.request THEN Len(next.orders) ELSE a.requests[r]

\* Whatever becomes of a new order, the account stays good and logs it.
LEMMA ExecutionsGood ==
  ASSUME NEW a, GoodAccount(a), NEW o, NewOrder(a, o), NEW lot, NEW blocked,
         NEW next \in Executions(a, o, lot, blocked)
  PROVE  GoodAccount(next) /\ Extends(a, o, next)
<1>1. \A p \in OrderRecord : p.request = o.request =>
        /\ GoodAccount(Logged(a, p)) /\ Extends(a, o, Logged(a, p))
        /\ \A f \in Fields \ {"orders", "requests"} : Logged(a, p)[f] = a[f]
  <2> SUFFICES ASSUME NEW p \in OrderRecord, p.request = o.request
               PROVE  /\ GoodAccount(Logged(a, p)) /\ Extends(a, o, Logged(a, p))
                      /\ \A f \in Fields \ {"orders", "requests"} : Logged(a, p)[f] = a[f]
    OBVIOUS
  <2>1. /\ GoodAccount(Logged(a, p))
        /\ \A f \in Fields \ {"orders", "requests"} : Logged(a, p)[f] = a[f]
    BY LoggedGood DEF NewOrder
  <2>2. /\ Logged(a, p).orders = Append(a.orders, p)
        /\ Logged(a, p).requests = IF p.request = NoRequest THEN a.requests
                                   ELSE [a.requests EXCEPT ![p.request] = Len(a.orders) + 1]
    BY DEF GoodAccount, Fields, Logged
  <2>3. a.orders \in Seq(OrderRecord) /\ a.requests \in [RequestIds -> Nat]
    BY DEF GoodAccount, GoodRecord, DurableOK
  <2>4. NoRequest \notin RequestIds
    BY ConstantsAssumption
  <2>5. Extends(a, o, Logged(a, p))
    BY <2>2, <2>3, <2>4 DEF Extends
  <2> QED
    BY <2>1, <2>5
<1>2. o \in OrderRecord /\ [o EXCEPT !.filled = FALSE] \in OrderRecord
      /\ [o EXCEPT !.filled = FALSE].request = o.request
  BY DEF NewOrder, OrderRecord
<1>3. CASE ~Acceptable(a, o, lot, blocked)
  BY <1>1, <1>2, <1>3 DEF Executions
<1> DEFINE b == Logged(a, o)
<1>4. /\ GoodAccount(b) /\ Extends(a, o, b) /\ b.cash = a.cash /\ b.positions = a.positions
      /\ b.auto = a.auto /\ b.managed = a.managed
  BY <1>1, <1>2 DEF Fields
<1>5. CASE Acceptable(a, o, lot, blocked) /\ o.side = "BUY"
  <2>1. PICK i \in 1..MaxLots : /\ next = Bought(b, o, i)
                                /\ IsNextLot(i, DOMAIN a.auto[o.symbol] \cup DOMAIN a.managed[o.symbol])
    BY <1>5 DEF Executions
  <2>2. i \notin DOMAIN b.auto[o.symbol] \cup DOMAIN b.managed[o.symbol]
    BY <2>1, <1>4 DEF IsNextLot
  <2>3. Amount(o) + Fee(Amount(o)) <= b.cash
    BY <1>4, <1>5 DEF Acceptable
  <2> HIDE DEF b
  <2>4. /\ GoodAccount(Bought(b, o, i))
        /\ \A f \in Fields \ {"cash", "positions", "auto", "managed"} : Bought(b, o, i)[f] = b[f]
    BY <2>2, <2>3, <1>2, <1>4, <1>5, BoughtGood
  <2>5. next.orders = b.orders /\ next.requests = b.requests
    BY <2>1, <2>4 DEF Fields
  <2> QED
    BY <2>1, <2>4, <2>5, <1>4 DEF Extends
<1>6. CASE Acceptable(a, o, lot, blocked) /\ o.side # "BUY"
  <2>1. PICK taken : /\ next = Sold(b, o, taken)
                     /\ \A i \in DOMAIN taken : taken[i] \in Nat
    BY <1>6 DEF Executions, Takings
  <2>2. o.side = "SELL" /\ o.quantity <= b.positions[o.symbol]
    BY <1>2, <1>4, <1>6 DEF Acceptable, OrderRecord, Sides
  <2> HIDE DEF b
  <2>3. /\ GoodAccount(Sold(b, o, taken))
        /\ \A f \in Fields \ {"cash", "positions", "auto", "managed"} : Sold(b, o, taken)[f] = b[f]
    BY <2>1, <2>2, <1>2, <1>4, SoldGood
  <2>4. next.orders = b.orders /\ next.requests = b.requests
    BY <2>1, <2>3 DEF Fields
  <2> QED
    BY <2>1, <2>3, <2>4, <1>4 DEF Extends
<1> QED
  BY <1>3, <1>5, <1>6

-----------------------------------------------------------------------------
(* The other operations.                                                    *)

\* Taking up a strategy or a scope keeps the account good and its log as it is.
LEMMA BegunGood ==
  ASSUME NEW a, GoodAccount(a), NEW strategy \in Strategies \cup {Default},
         NEW scope \in Scopes, NEW next \in Begun(a, strategy, scope)
  PROVE  GoodAccount(next) /\ next.orders = a.orders /\ next.requests = a.requests
<1>1. PICK ids \in [Symbols -> 1..MaxLots] :
        /\ \A s \in Symbols : IsNextLot(ids[s], DOMAIN a.auto[s])
        /\ next = [a EXCEPT !.scope = scope, !.context = strategy,
                            !.symbols = Targets[strategy],
                            !.managed = [s \in Symbols |-> ManagedLots(a, strategy, scope, s, ids[s])]]
  BY DEF Begun
<1>2. /\ DOMAIN next = Fields /\ next.scope = scope /\ next.context = strategy
      /\ next.symbols = Targets[strategy]
      /\ next.managed = [s \in Symbols |-> ManagedLots(a, strategy, scope, s, ids[s])]
      /\ next.cash = a.cash /\ next.positions = a.positions /\ next.orders = a.orders
      /\ next.requests = a.requests /\ next.auto = a.auto /\ next.selection = a.selection
      /\ next.seed = a.seed
  BY <1>1 DEF GoodAccount, Fields
<1>3. strategy \in Contexts /\ Targets[strategy] \in SUBSET Symbols
  BY ConstantsAssumption DEF Contexts
<1>4. ASSUME NEW s \in Symbols
      PROVE  /\ LotsOK(next.managed[s])
             /\ \A i \in DOMAIN next.managed[s] :
                  IF next.managed[s][i].origin = "AUTO"
                  THEN i \in DOMAIN a.auto[s] /\ a.auto[s][i] = next.managed[s][i]
                  ELSE i \notin DOMAIN a.auto[s]
  <2> DEFINE lot == [quantity |-> ManualQuantity(a, s), context |-> strategy, origin |-> "MANUAL"]
             full == WithLot(a.auto[s], ids[s], lot)
             added == WithLot(NoLots, ids[s], lot)
  <2>1. next.managed[s] = NoLots \/ next.managed[s] = a.auto[s]
        \/ (next.managed[s] = full /\ ManualQuantity(a, s) > 0)
    BY <1>2 DEF ManagedLots
  <2>2. LotsOK(a.auto[s]) /\ \A i \in DOMAIN a.auto[s] : a.auto[s][i].origin = "AUTO"
    BY DEF GoodAccount, GoodRecord, DurableOK, AutoOrigins
  <2>3. CASE next.managed[s] = NoLots
    BY <2>3 DEF NoLots, LotsOK
  <2>4. CASE next.managed[s] = a.auto[s]
    BY <2>2, <2>4
  <2>5. CASE next.managed[s] = full /\ ManualQuantity(a, s) > 0
    <3>1. lot \in Lot
      BY <2>5, <1>3 DEF ManualQuantity, Lot
    <3>2. ids[s] \in 1..MaxLots /\ ids[s] \notin DOMAIN a.auto[s]
      BY <1>1 DEF IsNextLot
    <3>3. lot.origin = "MANUAL"
      OBVIOUS
    <3> HIDE DEF lot
    <3>4. LotsOK(full)
      BY <2>2, <3>1, <3>2, WithLotOK
    <3>5. \A i \in DOMAIN full : IF full[i].origin = "AUTO"
                                 THEN i \in DOMAIN a.auto[s] /\ a.auto[s][i] = full[i]
                                 ELSE i \notin DOMAIN a.auto[s]
      BY <2>2, <3>2, <3>3 DEF WithLot
    <3> QED
      BY <2>5, <3>4, <3>5
  <2> QED
    BY <2>1, <2>3, <2>4, <2>5
<1>5. SharedLots(next) /\ DOMAIN next.managed = Symbols
  BY <1>2, <1>4 DEF SharedLots
<1>6. Together(next)
  <2> SUFFICES ASSUME NEW s \in Symbols, Adopting(next, s)
               PROVE  DOMAIN next.auto[s] \subseteq DOMAIN next.managed[s]
    BY DEF Together
  <2> DEFINE inScope == scope # "CURRENT" \/ s \in Targets[strategy]
  <2>1. CASE inScope
    BY <2>1, <1>2 DEF ManagedLots, WithLot
  <2>2. CASE ~inScope
    <3>1. next.managed[s] = NoLots
      BY <2>2, <1>2 DEF ManagedLots
    <3>2. ~Adopting(next, s)
      BY <2>2, <3>1, <1>2 DEF Adopting, AdoptsManual, NoLots
    <3> QED
      BY <3>2
  <2> QED
    BY <2>1, <2>2
<1> QED
  BY <1>2, <1>3, <1>4, <1>5, <1>6
  DEF GoodAccount, GoodRecord, DurableOK, AutoOrigins, RequestsIndexed

\* A reset or a copied snapshot gives a good account with an empty log.
LEMMA ReseededGood ==
  ASSUME NEW a, GoodAccount(a), NEW seed \in [cash : Nat, positions : [Symbols -> Nat]]
  PROVE  GoodAccount(Reseeded(a, seed))
<1> DEFINE b == Reseeded(a, seed)
<1>1. /\ DOMAIN b = Fields /\ b.seed = seed /\ b.cash = seed.cash
      /\ b.positions = seed.positions /\ b.orders = <<>>
      /\ b.requests = [r \in RequestIds |-> 0]
      /\ b.auto = [s \in Symbols |-> NoLots] /\ b.managed = [s \in Symbols |-> NoLots]
      /\ b.scope = a.scope /\ b.context = a.context /\ b.symbols = a.symbols
      /\ b.selection = a.selection
  BY DEF GoodAccount, Fields, Reseeded
<1>2. LotsOK(NoLots) /\ DOMAIN NoLots = {}
  BY DEF LotsOK, NoLots
<1> HIDE DEF b
<1>3. GoodAccount(b)
  BY <1>1, <1>2 DEF GoodAccount, GoodRecord, DurableOK, AutoOrigins, RequestsIndexed, SharedLots,
                    Together
<1> QED
  BY <1>3 DEF b

\* What is saved of a good account is a good record, with the same log.
LEMMA DurableGood ==
  ASSUME NEW a, GoodAccount(a)
  PROVE  /\ GoodRecord(Durable(a))
         /\ Durable(a).orders = a.orders /\ Durable(a).requests = a.requests
BY DEF GoodAccount, GoodRecord, DurableOK, AutoOrigins, RequestsIndexed, Durable

\* A restart makes a good account of a good record, with the same log.
LEMMA RestoredGood ==
  ASSUME NEW d, GoodRecord(d)
  PROVE  /\ GoodAccount(Restored(d))
         /\ Restored(d).orders = d.orders /\ Restored(d).requests = d.requests
         /\ Restored(d).scope = d.scope
<1>1. LotsOK(NoLots) /\ DOMAIN NoLots = {}
  BY DEF LotsOK, NoLots
<1>2. Together(Restored(d))
  <2>1. CASE ~WarmUp
    <3>1. \A s \in Symbols : ~Adopting(Restored(d), s)
      BY <1>1, <2>1 DEF Adopting, AdoptsManual, Restored
    <3> QED
      BY <3>1 DEF Together
  <2> QED
    BY <2>1 DEF Together
<1> QED
  BY <1>1, <1>2 DEF GoodAccount, GoodRecord, DurableOK, AutoOrigins, RequestsIndexed, SharedLots,
                    Restored, Fields, Contexts

-----------------------------------------------------------------------------
(* Steps.                                                                   *)

\* A change that leaves the log alone, saved or rolled back.
LEMMA SameLog ==
  ASSUME PaperInvariant, NEW next, GoodAccount(next),
         next.orders = acct.orders, next.requests = acct.requests,
         Saved(next) \/ RolledBack(next), UNCHANGED answered
  PROVE  GoodAccount(acct') /\ GoodRecord(disk') /\ AnsweredOrdersAreKept'
<1>1. acct' \in {acct, next} /\ disk' \in {disk, Durable(next)}
  BY DEF Saved, RolledBack
<1>2. /\ GoodRecord(Durable(next))
      /\ Durable(next).orders = next.orders /\ Durable(next).requests = next.requests
  BY DurableGood
<1> QED
  BY <1>1, <1>2 DEF PaperInvariant, AnsweredOrdersAreKept, Keeps

\* A new order, saved or rolled back, that is answered only when saved.
LEMMA OrderStep ==
  ASSUME PaperInvariant, NEW o, NewOrder(acct, o),
         NEW next, GoodAccount(next), Extends(acct, o, next),
         \/ Saved(next) /\ (UNCHANGED answered
                            \/ answered' = Answer(o.request, next.orders[Len(next.orders)]))
         \/ RolledBack(next) /\ UNCHANGED answered,
         UNCHANGED <<engine, selected, lockedBy>>, running' \in BOOLEAN
  PROVE  PaperInvariant'
<1> DEFINE r == o.request  last == next.orders[Len(next.orders)]
<1>1. acct' \in {acct, next} /\ disk' \in {disk, Durable(next)}
  BY DEF Saved, RolledBack
<1>2. /\ GoodRecord(Durable(next))
      /\ Durable(next).orders = next.orders /\ Durable(next).requests = next.requests
  BY DurableGood
<1>3. GoodAccount(acct') /\ GoodRecord(disk')
  BY <1>1, <1>2 DEF PaperInvariant
<1>4. /\ next.orders \in Seq(OrderRecord) /\ acct.orders \in Seq(OrderRecord)
      /\ Len(next.orders) = Len(acct.orders) + 1
      /\ Len(next.orders) \in DOMAIN next.orders /\ last \in OrderRecord
  <2>1. next.orders \in Seq(OrderRecord) /\ acct.orders \in Seq(OrderRecord)
    BY DEF PaperInvariant, GoodAccount, GoodRecord, DurableOK
  <2>2. Len(next.orders) = Len(acct.orders) + 1
    BY DEF Extends
  <2> QED
    BY <2>1, <2>2
<1>5. \A q \in DOMAIN answered : q # r /\ Keeps(next, q)
  <2> TAKE q \in DOMAIN answered
  <2>1. q \in RequestIds /\ Keeps(acct, q)
    BY DEF PaperInvariant, ProcessOK, AnsweredOrdersAreKept
  <2>2. q # NoRequest /\ acct.requests[q] # 0
    BY <2>1, <1>4, ConstantsAssumption DEF Keeps
  <2>3. q # r
    BY <2>2 DEF NewOrder
  <2> QED
    BY <2>1, <2>3 DEF Keeps, Extends
<1>6. CASE UNCHANGED answered
  BY <1>1, <1>2, <1>3, <1>5, <1>6 DEF PaperInvariant, ProcessOK, AnsweredOrdersAreKept, Keeps
<1>7. CASE Saved(next) /\ answered' = Answer(r, last) /\ r # NoRequest
  <2>1. r \in RequestIds
    BY <1>7 DEF NewOrder, OrderRecord
  <2>2. /\ DOMAIN answered' = DOMAIN answered \cup {r}
        /\ \A q \in DOMAIN answered' : answered'[q] = IF q = r THEN last ELSE answered[q]
    BY <1>7 DEF Answer
  <2>3. next.requests[r] = Len(next.orders)
    BY <2>1 DEF Extends
  <2>4. acct' = next /\ disk'.orders = next.orders /\ disk'.requests = next.requests
    BY <1>2, <1>7 DEF Saved
  <2> HIDE DEF last
  <2>5. next.orders[next.requests[r]] = last /\ next.requests[r] \in DOMAIN next.orders
    BY <2>3, <1>4 DEF last
  <2>6. AnsweredOrdersAreKept'
    BY <2>2, <2>4, <2>5, <1>5 DEF AnsweredOrdersAreKept, Keeps
  <2>7. ProcessOK'
    BY <2>1, <2>2, <1>4 DEF PaperInvariant, ProcessOK
  <2> QED
    BY <1>3, <2>6, <2>7 DEF PaperInvariant
<1>8. CASE answered' = Answer(r, last) /\ r = NoRequest
  BY <1>6, <1>8 DEF Answer
<1> QED
  BY <1>6, <1>7, <1>8

\* The invariant holds in the beginning.
LEMMA InitGood == Init => PaperInvariant
<1> SUFFICES ASSUME Init PROVE PaperInvariant
  OBVIOUS
<1>1. PICK seed \in Seeds :
        acct = [cash |-> seed.cash, positions |-> seed.positions, orders |-> <<>>,
                requests |-> [r \in RequestIds |-> 0], auto |-> [s \in Symbols |-> NoLots],
                managed |-> [s \in Symbols |-> NoLots], scope |-> "AUTO", symbols |-> {},
                context |-> IF WarmUp THEN Default ELSE NoStrategy,
                selection |-> NoStrategy, seed |-> seed]
  BY DEF Init
<1>2. seed \in [cash : Nat, positions : [Symbols -> Nat]]
  BY ConstantsAssumption
<1>3. LotsOK(NoLots) /\ DOMAIN NoLots = {}
  BY DEF LotsOK, NoLots
<1>4. GoodAccount(acct)
  <2>1. Together(acct)
    <3>1. \A s \in Symbols : DOMAIN acct.auto[s] = {}
      BY <1>1, <1>3
    <3> QED
      BY <3>1 DEF Together
  <2>2. SharedLots(acct) /\ AutoOrigins(acct)
    BY <1>1, <1>3 DEF SharedLots, AutoOrigins
  <2> QED
    BY <1>1, <1>2, <1>3, <2>1, <2>2
    DEF GoodAccount, GoodRecord, DurableOK, RequestsIndexed, Fields, Scopes, Contexts
<1>5. GoodRecord(disk)
  BY <1>4, DurableGood DEF Init
<1>6. ProcessOK /\ AnsweredOrdersAreKept
  BY DEF Init, ProcessOK, AnsweredOrdersAreKept, NoAnswers
<1> QED
  BY <1>4, <1>5, <1>6 DEF PaperInvariant

\* Every step keeps it.
LEMMA StepGood == PaperInvariant /\ [Next]_vars => PaperInvariant'
<1> SUFFICES ASSUME PaperInvariant, [Next]_vars PROVE PaperInvariant'
  OBVIOUS
<1>0. /\ GoodAccount(acct) /\ GoodRecord(disk) /\ ProcessOK
      /\ acct.scope \in Scopes /\ disk.scope \in Scopes /\ acct.seed \in [cash : Nat, positions : [Symbols -> Nat]]
      /\ disk.selection \in Strategies \cup {NoStrategy}
  BY DEF PaperInvariant, GoodAccount, GoodRecord, DurableOK
<1>1. ASSUME NEW r \in RequestIds \cup {NoRequest}, NEW s \in Symbols, NEW side \in Sides,
             NEW q \in Quantities, NEW p \in Prices, NEW blocked,
             ManualOrder(r, s, side, q, p, blocked)
      PROVE  PaperInvariant'
  <2> DEFINE o == Order(r, s, side, q, "MANUAL", p)
  <2>1. PICK next \in Executions(acct, o, NoLot, blocked) :
          \/ Saved(next) /\ answered' = Answer(r, next.orders[Len(next.orders)])
          \/ RolledBack(next) /\ UNCHANGED answered
    BY <1>1 DEF ManualOrder
  <2>2. NewOrder(acct, o) /\ o.request = r
    BY <1>1, ConstantsAssumption DEF ManualOrder, NewOrder, Order, OrderRecord
  <2> HIDE DEF o
  <2>3. GoodAccount(next) /\ Extends(acct, o, next)
    BY <1>0, <2>1, <2>2, ExecutionsGood
  <2>4. UNCHANGED <<engine, selected, lockedBy>> /\ running' \in BOOLEAN
    BY <1>0, <1>1 DEF ManualOrder, ProcessOK
  <2> QED
    BY <2>1, <2>2, <2>3, <2>4, OrderStep
<1>2. ASSUME NEW r \in RequestIds, RepeatedOrder(r)
      PROVE  PaperInvariant'
  <2> DEFINE known == acct.orders[acct.requests[r]]
  <2>1. acct.requests[r] \in DOMAIN acct.orders /\ known \in OrderRecord
    <3>1. acct.orders \in Seq(OrderRecord) /\ acct.requests[r] \in 0..Len(acct.orders)
      BY <1>0 DEF GoodAccount, GoodRecord, DurableOK, RequestsIndexed
    <3> QED
      BY <3>1, <1>2 DEF RepeatedOrder
  <2>2. acct' = acct /\ disk' \in {disk, Durable(acct)}
    BY <1>2 DEF RepeatedOrder, Saved, RolledBack
  <2>3. /\ GoodRecord(Durable(acct)) /\ Durable(acct).orders = acct.orders
        /\ Durable(acct).requests = acct.requests
    BY <1>0, DurableGood
  <2>4. CASE UNCHANGED answered
    BY <2>2, <2>3, <2>4, <1>0, <1>2
    DEF RepeatedOrder, PaperInvariant, ProcessOK, AnsweredOrdersAreKept, Keeps
  <2>5. CASE Saved(acct) /\ answered' = Answer(r, known)
    <3>1. r # NoRequest
      BY ConstantsAssumption
    <3>2. /\ DOMAIN answered' = DOMAIN answered \cup {r}
          /\ \A q \in DOMAIN answered' : answered'[q] = IF q = r THEN known ELSE answered[q]
      BY <2>5, <3>1 DEF Answer
    <3>3. disk'.orders = acct.orders /\ disk'.requests = acct.requests /\ GoodRecord(disk')
      BY <2>3, <2>5 DEF Saved
    <3>4. AnsweredOrdersAreKept'
      BY <3>2, <3>3, <2>1, <2>2 DEF PaperInvariant, AnsweredOrdersAreKept, Keeps
    <3>5. ProcessOK'
      BY <3>2, <2>1, <1>0, <1>2 DEF RepeatedOrder, ProcessOK
    <3> QED
      BY <3>3, <3>4, <3>5, <2>2, <1>0 DEF PaperInvariant
  <2> QED
    BY <2>4, <2>5, <1>2 DEF RepeatedOrder
<1>3. ASSUME NEW s \in Symbols, NEW side \in Sides, NEW q \in Nat \ {0}, NEW p \in Prices,
             NEW lot, NEW blocked,
             WorkerOrder(Order(NoRequest, s, side, q, "STRATEGY", p), lot, blocked)
      PROVE  PaperInvariant'
  <2> DEFINE o == Order(NoRequest, s, side, q, "STRATEGY", p)
  <2>1. PICK next \in Executions(acct, o, lot, blocked) : Saved(next) \/ RolledBack(next)
    BY <1>3 DEF WorkerOrder
  <2>2. NewOrder(acct, o)
    BY DEF NewOrder, Order, OrderRecord
  <2>3. UNCHANGED <<engine, selected, lockedBy, answered>> /\ running' \in BOOLEAN
    BY <1>0, <1>3 DEF WorkerOrder, ProcessOK
  <2> HIDE DEF o
  <2>4. GoodAccount(next) /\ Extends(acct, o, next)
    BY <1>0, <2>1, <2>2, ExecutionsGood
  <2> QED
    BY <2>1, <2>2, <2>3, <2>4, OrderStep
<1>4. ASSUME NEW s \in Symbols, NEW q \in Quantities, NEW p \in Prices, NEW blocked,
             StrategyBuy(s, q, p, blocked)
      PROVE  PaperInvariant'
  BY <1>3, <1>4, ConstantsAssumption DEF StrategyBuy, Sides
<1>5. ASSUME NEW s \in Symbols, NEW p \in Prices, NEW lot, StrategySell(s, lot, p)
      PROVE  PaperInvariant'
  <2>1. PICK q \in 1..Chunk : WorkerOrder(Order(NoRequest, s, "SELL", q, "STRATEGY", p), lot, FALSE)
    BY <1>5 DEF StrategySell
  <2>2. q \in Nat \ {0} /\ "SELL" \in Sides
    BY ConstantsAssumption DEF Sides
  <2> QED
    BY <2>1, <2>2, <1>3
<1>6. ASSUME NEW st \in Strategies, RememberStrategy(st)
      PROVE  PaperInvariant'
  <2> DEFINE next == [acct EXCEPT !.selection = st]
  <2>1. GoodAccount(next) /\ next.orders = acct.orders /\ next.requests = acct.requests
    <3>1. /\ DOMAIN next = Fields /\ next.selection = st
          /\ \A f \in Fields \ {"selection"} : next[f] = acct[f]
      BY <1>0 DEF GoodAccount, Fields
    <3>2. /\ next.cash = acct.cash /\ next.positions = acct.positions
          /\ next.orders = acct.orders /\ next.requests = acct.requests
          /\ next.auto = acct.auto /\ next.managed = acct.managed /\ next.scope = acct.scope
          /\ next.context = acct.context /\ next.symbols = acct.symbols /\ next.seed = acct.seed
      BY <3>1 DEF Fields
    <3> HIDE DEF next
    <3> QED
      BY <1>0, <3>1, <3>2
      DEF GoodAccount, GoodRecord, DurableOK, AutoOrigins, RequestsIndexed, SharedLots,
          Together, Adopting, AdoptsManual
  <2>2. Saved(next) \/ RolledBack(next)
    BY <1>6 DEF RememberStrategy
  <2> HIDE DEF next
  <2>3. GoodAccount(acct') /\ GoodRecord(disk') /\ AnsweredOrdersAreKept'
    BY <1>6, <2>1, <2>2, SameLog DEF RememberStrategy
  <2> QED
    BY <1>0, <1>6, <2>3 DEF RememberStrategy, PaperInvariant, ProcessOK
<1>7. ASSUME NEW st \in Strategies \cup {Default}, NEW scope \in Scopes,
             NEW next \in Begun(acct, st, scope), Saved(next) \/ RolledBack(next),
             UNCHANGED answered
      PROVE  GoodAccount(acct') /\ GoodRecord(disk') /\ AnsweredOrdersAreKept'
  <2>1. GoodAccount(next) /\ next.orders = acct.orders /\ next.requests = acct.requests
    BY <1>0, BegunGood
  <2> QED
    BY <1>7, <2>1, SameLog
<1>8. ASSUME NEW st \in Strategies, ApplyStrategy(st)
      PROVE  PaperInvariant'
  <2>1. GoodAccount(acct') /\ GoodRecord(disk') /\ AnsweredOrdersAreKept'
    BY <1>0, <1>7, <1>8 DEF ApplyStrategy
  <2> QED
    BY <1>0, <1>8, <2>1 DEF ApplyStrategy, PaperInvariant, ProcessOK
<1>9. CASE ConfigureSettings
  <2>1. GoodAccount(acct') /\ GoodRecord(disk') /\ AnsweredOrdersAreKept'
    BY <1>0, <1>7, <1>9 DEF ConfigureSettings
  <2> QED
    BY <1>0, <1>9, <2>1 DEF ConfigureSettings, PaperInvariant, ProcessOK
<1>10. ASSUME NEW scope \in Scopes, ChangeScope(scope)
       PROVE  PaperInvariant'
  <2>1. GoodAccount(acct') /\ GoodRecord(disk') /\ AnsweredOrdersAreKept'
    BY <1>0, <1>7, <1>10 DEF ChangeScope, ProcessOK
  <2> QED
    BY <1>0, <1>10, <2>1 DEF ChangeScope, PaperInvariant, ProcessOK
<1>11. ASSUME NEW seed \in [cash : Nat, positions : [Symbols -> Nat]], ReplaceAssets(seed)
       PROVE  PaperInvariant'
  <2>1. GoodAccount(Reseeded(acct, seed))
    BY <1>0, ReseededGood
  <2>2. acct' \in {acct, Reseeded(acct, seed)} /\ disk' \in {disk, Durable(Reseeded(acct, seed))}
    BY <1>11 DEF ReplaceAssets, Saved, RolledBack
  <2>3. GoodAccount(acct') /\ GoodRecord(disk')
    BY <1>0, <2>1, <2>2, DurableGood
  <2>4. answered' = NoAnswers \/ UNCHANGED <<acct, disk, answered>>
    BY <1>11 DEF ReplaceAssets, RolledBack
  <2>5. AnsweredOrdersAreKept'
    BY <1>0, <2>4 DEF NoAnswers, PaperInvariant, AnsweredOrdersAreKept, Keeps
  <2>6. ProcessOK'
    BY <1>0, <1>11, <2>4 DEF ReplaceAssets, ProcessOK, NoAnswers
  <2> QED
    BY <2>3, <2>5, <2>6 DEF PaperInvariant
<1>12. CASE TakeBaseline
  <2>1. GoodAccount(acct') /\ GoodRecord(disk') /\ AnsweredOrdersAreKept'
    BY <1>0, <1>7, <1>12 DEF TakeBaseline, ProcessOK
  <2> QED
    BY <1>0, <1>12, <2>1 DEF TakeBaseline, PaperInvariant, ProcessOK
<1>13. CASE StartEngine \/ StopEngine \/ UNCHANGED vars
  BY <1>13, <1>0
  DEF StartEngine, StopEngine, vars, PaperInvariant, ProcessOK, AnsweredOrdersAreKept, Keeps
<1>14. ASSUME NEW found \in BOOLEAN, Restart(found)
       PROVE  PaperInvariant'
  <2> DEFINE a == Restored(disk)  st == disk.selection
  <2>1. GoodAccount(a) /\ a.orders = disk.orders /\ a.requests = disk.requests
    BY <1>0, RestoredGood
  <2>2. CASE st # NoStrategy /\ found
    <3>1. PICK next \in Begun(a, st, disk.scope) : Saved(next)
      BY <1>14, <2>2 DEF Restart
    <3>2. st \in Strategies
      BY <1>0, <2>2
    <3> HIDE DEF a, st
    <3>3. GoodAccount(next) /\ next.orders = disk.orders /\ next.requests = disk.requests
      BY <1>0, <2>1, <3>1, <3>2, BegunGood
    <3>4. GoodRecord(Durable(next)) /\ Durable(next).orders = next.orders
          /\ Durable(next).requests = next.requests
      BY <3>3, DurableGood
    <3>5. AnsweredOrdersAreKept' /\ GoodAccount(acct') /\ GoodRecord(disk')
      BY <3>1, <3>3, <3>4, <1>14 DEF Restart, Saved, PaperInvariant, AnsweredOrdersAreKept, Keeps
    <3>6. ProcessOK'
      BY <1>0, <1>14, <2>2, <3>2 DEF Restart, ProcessOK, st
    <3> QED
      BY <3>5, <3>6 DEF PaperInvariant
  <2>3. CASE ~(st # NoStrategy /\ found)
    <3>1. acct' = a /\ UNCHANGED <<disk, answered>> /\ engine' = Default /\ selected' = NoStrategy
          /\ running' = FALSE /\ lockedBy' = "none"
      BY <1>14, <2>3 DEF Restart
    <3> HIDE DEF a
    <3> QED
      BY <1>0, <2>1, <3>1 DEF PaperInvariant, ProcessOK, AnsweredOrdersAreKept, Keeps
  <2> QED
    BY <2>2, <2>3
<1>15. ResetPractice \/ LoadSnapshot => PaperInvariant'
  BY <1>0, <1>11, ConstantsAssumption DEF ResetPractice, LoadSnapshot
<1> QED
  BY <1>1, <1>2, <1>4, <1>5, <1>6, <1>8, <1>9, <1>10, <1>12, <1>13, <1>14, <1>15 DEF Next

\* The invariant gives the properties.
LEMMA InvariantSuffices ==
  PaperInvariant => TypeOK /\ CashNeverNegative /\ SharedLotsAgree /\ RequestsExecuteOnce
<1> SUFFICES ASSUME PaperInvariant
             PROVE  TypeOK /\ CashNeverNegative /\ SharedLotsAgree /\ RequestsExecuteOnce
  OBVIOUS
<1>1. TypeOK
  BY DEF PaperInvariant, GoodAccount, GoodRecord, ProcessOK, TypeOK
<1>2. CashNeverNegative
  BY DEF PaperInvariant, GoodAccount, GoodRecord, CashNeverNegative
<1>3. SharedLotsAgree
  BY DEF PaperInvariant, GoodAccount, SharedLots, SharedLotsAgree
<1>4. RequestsExecuteOnce
  <2>1. RequestsIndexed(acct) /\ RequestsIndexed(disk)
    BY DEF PaperInvariant, GoodAccount, GoodRecord
  <2> QED
    BY <2>1 DEF RequestsIndexed, RequestsExecuteOnce, Once
<1> QED
  BY <1>1, <1>2, <1>3, <1>4

-----------------------------------------------------------------------------
(* Theorems.                                                                *)

\* The inductive invariant always holds.
THEOREM InvariantHolds == Spec => []PaperInvariant
BY InitGood, StepGood, PTL DEF Spec

\* Memory and database always hold accounts of the right types: in particular
\* no holding ever becomes negative and no lot is ever kept with nothing in it.
THEOREM TypeCorrect == Spec => []TypeOK
BY InvariantHolds, InvariantSuffices, PTL

\* Cash never goes negative, for all fees and taxes that sum to at most 100%.
THEOREM CashStaysNonNegative == Spec => []CashNeverNegative
BY InvariantHolds, InvariantSuffices, PTL

\* The automatic lots and the managed lots never disagree on a lot they share.
THEOREM LotsAlwaysAgree == Spec => []SharedLotsAgree
BY InvariantHolds, InvariantSuffices, PTL

\* A request id is executed at most once, however often it is resent and
\* whatever saves fail or lose their acknowledgement.
THEOREM OrdersExecuteOnce == Spec => []RequestsExecuteOnce
BY InvariantHolds, InvariantSuffices, PTL

\* An order that a client was told about stays in memory and in the database.
THEOREM AnswersAreDurable == Spec => []AnsweredOrdersAreKept
<1>1. PaperInvariant => AnsweredOrdersAreKept
  BY DEF PaperInvariant
<1> QED
  BY <1>1, InvariantHolds, PTL

\* Unless startup configures the engine before it restores the account, manual
\* shares are adopted only where the strategy manages every automatic lot.
THEOREM OwnersNeverMix ==
  ASSUME ~WarmUp
  PROVE  Spec => []NoMixedOwnership
<1>1. PaperInvariant => NoMixedOwnership
  BY DEF PaperInvariant, GoodAccount, Together, Adopting, NoMixedOwnership
<1> QED
  BY <1>1, InvariantHolds, PTL

-----------------------------------------------------------------------------
(* The books: what the order log says of cash and holdings.                  *)

Filled(orders) == {i \in DOMAIN orders : orders[i].filled}
CashMoves(orders) == [i \in Filled(orders) |-> CashFlow(orders[i])]
FilledOf(orders, s) == {i \in Filled(orders) : orders[i].symbol = s}
ShareFlow(o) == IF o.side = "BUY" THEN o.quantity ELSE - o.quantity
ShareMoves(orders, s) == [i \in FilledOf(orders, s) |-> ShareFlow(orders[i])]
Books(cash, positions, orders, seed) ==
  /\ cash = seed.cash + SumFunction(CashMoves(orders))
  /\ \A s \in Symbols : positions[s] = seed.positions[s] + SumFunction(ShareMoves(orders, s))

\* The books are what LogExplainsAccount says of an account.
LEMMA ExplainedBooks ==
  ASSUME NEW a
  PROVE  Explained(a) <=> Books(a.cash, a.positions, a.orders, a.seed)
BY DEF Explained, Books, CashMoves, ShareMoves, Filled, FilledOf, ShareFlow

\* An order adds a whole number to cash and to holdings.
LEMMA FlowTypes ==
  ASSUME NEW o \in OrderRecord
  PROVE  CashFlow(o) \in Int /\ ShareFlow(o) \in Int
<1>1. Amount(o) \in Nat
  BY AmountNat
<1>2. Fee(Amount(o)) \in Nat /\ Tax(Amount(o)) \in Nat
  BY <1>1, FeeAndTax
<1>3. o.quantity \in Nat
  BY DEF OrderRecord
<1> QED BY <1>1, <1>2, <1>3 DEF CashFlow, ShareFlow

\* The orders of a log are finitely many.
LEMMA LogFinite ==
  ASSUME NEW orders \in Seq(OrderRecord), NEW s
  PROVE  /\ IsFiniteSet(Filled(orders)) /\ IsFiniteSet(FilledOf(orders, s))
         /\ \A i \in Filled(orders) : orders[i] \in OrderRecord
         /\ Filled(orders) \subseteq 1..Len(orders) /\ FilledOf(orders, s) \subseteq Filled(orders)
         /\ Len(orders) \in Nat
<1>1. DOMAIN orders = 1..Len(orders) /\ Len(orders) \in Nat
  OBVIOUS
<1>2. IsFiniteSet(1..Len(orders))
  BY <1>1, FS_Interval
<1>3. Filled(orders) \subseteq 1..Len(orders) /\ FilledOf(orders, s) \subseteq 1..Len(orders)
  BY <1>1 DEF Filled, FilledOf
<1>4. IsFiniteSet(Filled(orders)) /\ IsFiniteSet(FilledOf(orders, s))
  BY <1>2, <1>3, FS_Subset
<1>5. \A i \in Filled(orders) : orders[i] \in OrderRecord
  BY DEF Filled
<1> QED BY <1>1, <1>3, <1>4, <1>5 DEF FilledOf

\* A rejected order moves nothing; a filled one moves its cash and its shares.
LEMMA LogMoves ==
  ASSUME NEW orders \in Seq(OrderRecord), NEW o \in OrderRecord, NEW s \in Symbols
  PROVE  /\ SumFunction(CashMoves(Append(orders, o))) =
              SumFunction(CashMoves(orders)) + (IF o.filled THEN CashFlow(o) ELSE 0)
         /\ SumFunction(ShareMoves(Append(orders, o), s)) =
              SumFunction(ShareMoves(orders, s)) + (IF o.filled /\ o.symbol = s THEN ShareFlow(o) ELSE 0)
<1> DEFINE new == Append(orders, o)
           n == Len(orders) + 1
<1>1. /\ new \in Seq(OrderRecord) /\ DOMAIN new = 1..n /\ n \in Nat /\ new[n] = o
      /\ \A i \in 1..Len(orders) : new[i] = orders[i]
      /\ DOMAIN orders = 1..Len(orders) /\ n \notin 1..Len(orders) /\ 1..n = 1..Len(orders) \cup {n}
  OBVIOUS
<1> HIDE DEF new, n
<1>2. /\ Filled(new) = Filled(orders) \cup (IF o.filled THEN {n} ELSE {})
      /\ FilledOf(new, s) = FilledOf(orders, s) \cup (IF o.filled /\ o.symbol = s THEN {n} ELSE {})
      /\ n \notin Filled(orders) /\ n \notin FilledOf(orders, s)
  BY <1>1 DEF Filled, FilledOf
<1>3. /\ CashMoves(new) \in [Filled(new) -> Int]
      /\ ShareMoves(new, s) \in [FilledOf(new, s) -> Int]
      /\ CashMoves(orders) \in [Filled(orders) -> Int]
      /\ ShareMoves(orders, s) \in [FilledOf(orders, s) -> Int]
  <2>1. \A i \in Filled(new) : new[i] \in OrderRecord
    BY <1>1, LogFinite
  <2>2. \A i \in Filled(orders) : orders[i] \in OrderRecord
    BY LogFinite
  <2> QED BY <2>1, <2>2, FlowTypes DEF CashMoves, ShareMoves, FilledOf
<1>4. /\ [i \in Filled(orders) |-> CashMoves(new)[i]] = CashMoves(orders)
      /\ [i \in FilledOf(orders, s) |-> ShareMoves(new, s)[i]] = ShareMoves(orders, s)
  <2>1. /\ Filled(orders) \subseteq 1..Len(orders) /\ FilledOf(orders, s) \subseteq 1..Len(orders)
        /\ Filled(orders) \subseteq Filled(new) /\ FilledOf(orders, s) \subseteq FilledOf(new, s)
    BY <1>2, LogFinite
  <2>2. \A i \in Filled(orders) : CashMoves(new)[i] = CashMoves(orders)[i]
    BY <2>1, <1>1 DEF CashMoves
  <2>3. \A i \in FilledOf(orders, s) : ShareMoves(new, s)[i] = ShareMoves(orders, s)[i]
    BY <2>1, <1>1 DEF ShareMoves
  <2> QED BY <2>2, <2>3, <1>3
<1>5. IsFiniteSet(Filled(orders)) /\ IsFiniteSet(FilledOf(orders, s))
  BY LogFinite
<1>6. SumFunction(CashMoves(orders)) \in Int /\ SumFunction(ShareMoves(orders, s)) \in Int
  BY <1>3, <1>5, SumType
<1>7. SumFunction(CashMoves(new)) =
              SumFunction(CashMoves(orders)) + (IF o.filled THEN CashFlow(o) ELSE 0)
  <2>1. CASE o.filled
    <3>1. Filled(new) = Filled(orders) \cup {n} /\ CashMoves(new)[n] = CashFlow(o)
      BY <2>1, <1>1, <1>2 DEF CashMoves
    <3> DEFINE f == CashMoves(new)
    <3>2. SumFunction(f) = SumFunction([i \in Filled(orders) |-> f[i]]) + f[n]
      <4>1. f \in [Filled(orders) \cup {n} -> Int] /\ n \notin Filled(orders)
        BY <1>2, <1>3, <3>1
      <4> HIDE DEF f
      <4> QED BY <1>5, <4>1, SumWithElement
    <3>3. SumFunction(CashMoves(new)) = SumFunction(CashMoves(orders)) + CashFlow(o)
      BY <1>4, <3>1, <3>2, Zenon
    <3> QED BY <2>1, <3>3, Zenon
  <2>2. CASE ~o.filled
    <3>1. CashMoves(new) = CashMoves(orders)
      BY <2>2, <1>2, <1>3, <1>4
    <3>2. \A x \in Int : x = x + 0
      OBVIOUS
    <3> QED BY <2>2, <1>6, <3>1, <3>2, Zenon
  <2> QED BY <2>1, <2>2, Zenon
<1>8. SumFunction(ShareMoves(new, s)) =
              SumFunction(ShareMoves(orders, s)) + (IF o.filled /\ o.symbol = s THEN ShareFlow(o) ELSE 0)
  <2>1. CASE o.filled /\ o.symbol = s
    <3>1. FilledOf(new, s) = FilledOf(orders, s) \cup {n} /\ ShareMoves(new, s)[n] = ShareFlow(o)
      BY <2>1, <1>1, <1>2 DEF ShareMoves
    <3> DEFINE f == ShareMoves(new, s)
    <3>2. SumFunction(f) = SumFunction([i \in FilledOf(orders, s) |-> f[i]]) + f[n]
      <4>1. f \in [FilledOf(orders, s) \cup {n} -> Int] /\ n \notin FilledOf(orders, s)
        BY <1>2, <1>3, <3>1
      <4> HIDE DEF f
      <4> QED BY <1>5, <4>1, SumWithElement
    <3>3. SumFunction(ShareMoves(new, s)) = SumFunction(ShareMoves(orders, s)) + ShareFlow(o)
      BY <1>4, <3>1, <3>2, Zenon
    <3> QED BY <2>1, <3>3, Zenon
  <2>2. CASE ~(o.filled /\ o.symbol = s)
    <3>1. ShareMoves(new, s) = ShareMoves(orders, s)
      BY <2>2, <1>2, <1>3, <1>4
    <3>2. \A x \in Int : x = x + 0
      OBVIOUS
    <3> QED BY <2>2, <1>6, <3>1, <3>2, Zenon
  <2> QED BY <2>1, <2>2, Zenon
<1> QED BY <1>7, <1>8, Zenon DEF new

\* An account that the log explains is explained after an order too.
LEMMA ExecutionsExplained ==
  ASSUME NEW a, GoodAccount(a), Explained(a), NEW o, NewOrder(a, o), NEW lot, NEW blocked,
         NEW next \in Executions(a, o, lot, blocked)
  PROVE  Explained(next)
<1> DEFINE unfilled == [o EXCEPT !.filled = FALSE]
<1>1. /\ o \in OrderRecord /\ o.filled = TRUE /\ unfilled \in OrderRecord
      /\ unfilled.filled = FALSE /\ a.orders \in Seq(OrderRecord)
      /\ a.cash \in Int /\ a.positions \in [Symbols -> Nat] /\ o.symbol \in Symbols
      /\ a.seed \in [cash : Nat, positions : [Symbols -> Nat]] /\ o.quantity \in Nat
      /\ o.side \in Sides
  BY DEF NewOrder, OrderRecord, GoodAccount, GoodRecord, DurableOK
<1>2. Books(a.cash, a.positions, a.orders, a.seed)
  BY ExplainedBooks
<1>3. /\ SumFunction(CashMoves(a.orders)) \in Int
      /\ \A s \in Symbols : SumFunction(ShareMoves(a.orders, s)) \in Int
  <2>1. CashMoves(a.orders) \in [Filled(a.orders) -> Int]
    BY <1>1, LogFinite, FlowTypes DEF CashMoves
  <2>2. \A s \in Symbols : ShareMoves(a.orders, s) \in [FilledOf(a.orders, s) -> Int]
    BY <1>1, LogFinite, FlowTypes DEF ShareMoves, FilledOf
  <2>3. IsFiniteSet(Filled(a.orders)) /\ \A s \in Symbols : IsFiniteSet(FilledOf(a.orders, s))
    BY <1>1, LogFinite
  <2> QED BY <2>1, <2>2, <2>3, SumType
<1>4. CASE ~Acceptable(a, o, lot, blocked)
  <2>1. next = Logged(a, unfilled)
    BY <1>4 DEF Executions
  <2>2. /\ next.cash = a.cash /\ next.positions = a.positions /\ next.seed = a.seed
        /\ next.orders = Append(a.orders, unfilled)
    BY <2>1 DEF Logged, GoodAccount, Fields
  <2> HIDE DEF unfilled
  <2>3. SumFunction(CashMoves(next.orders)) = SumFunction(CashMoves(a.orders)) + 0
    BY <1>1, <2>2, LogMoves
  <2>4. ASSUME NEW s \in Symbols
        PROVE SumFunction(ShareMoves(next.orders, s)) = SumFunction(ShareMoves(a.orders, s)) + 0
    BY <1>1, <2>2, LogMoves
  <2>5. Books(next.cash, next.positions, next.orders, next.seed)
    BY <1>2, <1>3, <2>2, <2>3, <2>4 DEF Books
  <2> QED BY <2>5, ExplainedBooks
<1>5. CASE Acceptable(a, o, lot, blocked)
  <2> DEFINE b == Logged(a, o)
  <2>1. /\ DOMAIN b = Fields /\ b.cash = a.cash /\ b.positions = a.positions /\ b.seed = a.seed
        /\ b.orders = Append(a.orders, o)
    BY DEF Logged, GoodAccount, Fields
  <2>2. /\ next.cash = a.cash + CashFlow(o) /\ next.seed = a.seed
        /\ next.positions = [a.positions EXCEPT ![o.symbol] = @ + ShareFlow(o)]
        /\ next.orders = b.orders
    <3>1. CASE o.side = "BUY"
      <4>1. PICK i : next = Bought(b, o, i)
        BY <1>5, <3>1 DEF Executions
      <4> HIDE DEF b
      <4> QED BY <2>1, <3>1, <4>1 DEF Bought, Fields, ShareFlow
    <3>2. CASE o.side # "BUY"
      <4>1. PICK t : next = Sold(b, o, t)
        BY <1>5, <3>2 DEF Executions
      <4>2. \A k \in Nat : k - o.quantity = k + (- o.quantity)
        BY <1>1
      <4> HIDE DEF b
      <4>3. /\ next.cash = a.cash + CashFlow(o) /\ next.seed = a.seed /\ next.orders = b.orders
            /\ next.positions = [a.positions EXCEPT ![o.symbol] = @ - o.quantity]
        BY <2>1, <4>1 DEF Sold, Fields
      <4> QED BY <1>1, <3>2, <4>2, <4>3 DEF ShareFlow
    <3> QED BY <3>1, <3>2
  <2>3. SumFunction(CashMoves(next.orders)) = SumFunction(CashMoves(a.orders)) + CashFlow(o)
    BY <1>1, <2>1, <2>2, LogMoves
  <2>4. ASSUME NEW s \in Symbols
        PROVE SumFunction(ShareMoves(next.orders, s)) =
                SumFunction(ShareMoves(a.orders, s)) + (IF o.symbol = s THEN ShareFlow(o) ELSE 0)
    BY <1>1, <2>1, <2>2, LogMoves
  <2>5. CashFlow(o) \in Int /\ ShareFlow(o) \in Int
    BY <1>1, FlowTypes
  <2> HIDE DEF b
  <2>6. next.cash = next.seed.cash + SumFunction(CashMoves(next.orders))
    BY <1>1, <1>2, <1>3, <2>2, <2>3, <2>5 DEF Books
  <2>7. ASSUME NEW s \in Symbols
        PROVE next.positions[s] = next.seed.positions[s] + SumFunction(ShareMoves(next.orders, s))
    <3>1. next.positions[s] = a.positions[s] + (IF o.symbol = s THEN ShareFlow(o) ELSE 0)
      BY <1>1, <2>2, <2>5
    <3>2. a.positions[s] = a.seed.positions[s] + SumFunction(ShareMoves(a.orders, s))
      BY <1>2 DEF Books
    <3>3. a.seed.positions[s] \in Int /\ next.seed = a.seed
          /\ SumFunction(ShareMoves(a.orders, s)) \in Int
      BY <1>1, <1>3, <2>2
    <3> QED BY <3>1, <3>2, <3>3, <2>4, <2>5
  <2>8. Books(next.cash, next.positions, next.orders, next.seed)
    BY <2>6, <2>7 DEF Books
  <2> QED BY <2>8, ExplainedBooks
<1> QED BY <1>4, <1>5

\* An account with the same books is explained when the other is.
LEMMA SameBooks ==
  ASSUME NEW a, NEW b, Explained(a), b.cash = a.cash, b.positions = a.positions,
         b.orders = a.orders, b.seed = a.seed
  PROVE  Explained(b)
BY ExplainedBooks

\* The empty log explains a fresh account.
LEMMA FreshBooks ==
  ASSUME NEW a, a.seed \in [cash : Nat, positions : [Symbols -> Nat]],
         a.cash = a.seed.cash, a.positions = a.seed.positions, a.orders = <<>>
  PROVE  Explained(a)
<1>1. Filled(a.orders) = {} /\ \A s \in Symbols : FilledOf(a.orders, s) = {}
  BY DEF Filled, FilledOf
<1>2. SumFunction(CashMoves(a.orders)) = 0
  <2>1. DOMAIN CashMoves(a.orders) = {} /\ CashMoves(a.orders) = [i \in {} |-> CashMoves(a.orders)[i]]
    BY <1>1 DEF CashMoves
  <2> QED BY <2>1, SumOfNothing
<1>3. ASSUME NEW s \in Symbols PROVE SumFunction(ShareMoves(a.orders, s)) = 0
  <2>1. /\ DOMAIN ShareMoves(a.orders, s) = {}
        /\ ShareMoves(a.orders, s) = [i \in {} |-> ShareMoves(a.orders, s)[i]]
    BY <1>1 DEF ShareMoves
  <2> QED BY <2>1, SumOfNothing
<1>4. Books(a.cash, a.positions, a.orders, a.seed)
  BY <1>2, <1>3 DEF Books
<1> QED BY <1>4, ExplainedBooks

\* The log explains the account in the beginning ...
LEMMA InitExplained == Init => LogExplainsAccount
<1> SUFFICES ASSUME Init PROVE LogExplainsAccount
  OBVIOUS
<1>1. PICK seed \in Seeds :
        acct = [cash |-> seed.cash, positions |-> seed.positions, orders |-> <<>>,
                requests |-> [r \in RequestIds |-> 0], auto |-> [s \in Symbols |-> NoLots],
                managed |-> [s \in Symbols |-> NoLots], scope |-> "AUTO", symbols |-> {},
                context |-> IF WarmUp THEN Default ELSE NoStrategy,
                selection |-> NoStrategy, seed |-> seed]
  BY DEF Init
<1>2. seed \in [cash : Nat, positions : [Symbols -> Nat]]
  BY ConstantsAssumption
<1>3. acct.seed = seed /\ acct.cash = seed.cash /\ acct.positions = seed.positions /\ acct.orders = <<>>
  BY <1>1
<1>4. Explained(acct)
  BY <1>2, <1>3, FreshBooks
<1>5. disk.cash = acct.cash /\ disk.positions = acct.positions /\ disk.orders = acct.orders
      /\ disk.seed = acct.seed
  BY DEF Init, Durable
<1>6. Explained(disk)
  BY <1>4, <1>5, SameBooks
<1> QED BY <1>4, <1>6 DEF LogExplainsAccount

\* A change, saved or rolled back, that the log explains.
LEMMA ExplainedStep ==
  ASSUME LogExplainsAccount, NEW next, Explained(next), Saved(next) \/ RolledBack(next)
  PROVE  LogExplainsAccount'
<1>1. acct' \in {acct, next} /\ disk' \in {disk, Durable(next)}
  BY DEF Saved, RolledBack
<1>2. Durable(next).cash = next.cash /\ Durable(next).positions = next.positions
      /\ Durable(next).orders = next.orders /\ Durable(next).seed = next.seed
  BY DEF Durable
<1>3. Explained(Durable(next))
  BY <1>2, SameBooks
<1> QED BY <1>1, <1>3 DEF LogExplainsAccount

\* ... and after every step.
LEMMA StepExplained == PaperInvariant /\ LogExplainsAccount /\ [Next]_vars => LogExplainsAccount'
<1> SUFFICES ASSUME PaperInvariant, LogExplainsAccount, [Next]_vars PROVE LogExplainsAccount'
  OBVIOUS
<1>0. GoodAccount(acct) /\ GoodRecord(disk) /\ Explained(acct) /\ Explained(disk)
      /\ acct.seed \in [cash : Nat, positions : [Symbols -> Nat]]
  BY DEF PaperInvariant, LogExplainsAccount, GoodAccount, GoodRecord, DurableOK
<1>1. ASSUME NEW r \in RequestIds \cup {NoRequest}, NEW s \in Symbols, NEW side \in Sides,
             NEW q \in Quantities, NEW p \in Prices, NEW blocked,
             ManualOrder(r, s, side, q, p, blocked)
      PROVE  LogExplainsAccount'
  <2> DEFINE o == Order(r, s, side, q, "MANUAL", p)
  <2>1. PICK next \in Executions(acct, o, NoLot, blocked) : Saved(next) \/ RolledBack(next)
    BY <1>1 DEF ManualOrder
  <2>2. NewOrder(acct, o)
    BY <1>1, ConstantsAssumption DEF ManualOrder, NewOrder, Order, OrderRecord
  <2> HIDE DEF o
  <2> QED BY <1>0, <2>1, <2>2, ExecutionsExplained, ExplainedStep
<1>2. ASSUME NEW r \in RequestIds, RepeatedOrder(r)
      PROVE  LogExplainsAccount'
  BY <1>0, <1>2, ExplainedStep DEF RepeatedOrder
<1>3. ASSUME NEW s \in Symbols, NEW side \in Sides, NEW q \in Nat \ {0}, NEW p \in Prices,
             NEW lot, NEW blocked,
             WorkerOrder(Order(NoRequest, s, side, q, "STRATEGY", p), lot, blocked)
      PROVE  LogExplainsAccount'
  <2> DEFINE o == Order(NoRequest, s, side, q, "STRATEGY", p)
  <2>1. PICK next \in Executions(acct, o, lot, blocked) : Saved(next) \/ RolledBack(next)
    BY <1>3 DEF WorkerOrder
  <2>2. NewOrder(acct, o)
    BY DEF NewOrder, Order, OrderRecord
  <2> HIDE DEF o
  <2> QED BY <1>0, <2>1, <2>2, ExecutionsExplained, ExplainedStep
<1>4. ASSUME NEW s \in Symbols, NEW q \in Quantities, NEW p \in Prices, NEW blocked,
             StrategyBuy(s, q, p, blocked)
      PROVE  LogExplainsAccount'
  BY <1>3, <1>4, ConstantsAssumption DEF StrategyBuy, Sides
<1>5. ASSUME NEW s \in Symbols, NEW p \in Prices, NEW lot, StrategySell(s, lot, p)
      PROVE  LogExplainsAccount'
  <2>1. PICK q \in 1..Chunk : WorkerOrder(Order(NoRequest, s, "SELL", q, "STRATEGY", p), lot, FALSE)
    BY <1>5 DEF StrategySell
  <2>2. q \in Nat \ {0} /\ "SELL" \in Sides
    BY ConstantsAssumption DEF Sides
  <2> QED BY <2>1, <2>2, <1>3
<1>6. ASSUME NEW next, Saved(next) \/ RolledBack(next), next.cash = acct.cash,
             next.positions = acct.positions, next.orders = acct.orders, next.seed = acct.seed
      PROVE  LogExplainsAccount'
  BY <1>0, <1>6, SameBooks, ExplainedStep
<1>7. ASSUME NEW st \in Strategies, RememberStrategy(st)
      PROVE  LogExplainsAccount'
  <2> DEFINE next == [acct EXCEPT !.selection = st]
  <2>1. next.cash = acct.cash /\ next.positions = acct.positions /\ next.orders = acct.orders
        /\ next.seed = acct.seed
    BY <1>0 DEF GoodAccount, Fields
  <2>2. Saved(next) \/ RolledBack(next)
    BY <1>7 DEF RememberStrategy
  <2> QED BY <2>1, <2>2, <1>6
<1>8. ASSUME NEW a, GoodAccount(a), NEW st, NEW scope, NEW next \in Begun(a, st, scope)
      PROVE  next.cash = a.cash /\ next.positions = a.positions /\ next.orders = a.orders
             /\ next.seed = a.seed
  BY <1>8 DEF Begun, GoodAccount, Fields
<1>9. ASSUME NEW st \in Strategies, ApplyStrategy(st)
      PROVE  LogExplainsAccount'
  BY <1>0, <1>6, <1>8, <1>9 DEF ApplyStrategy
<1>10. CASE ConfigureSettings
  BY <1>0, <1>6, <1>8, <1>10 DEF ConfigureSettings
<1>11. ASSUME NEW scope \in Scopes, ChangeScope(scope)
       PROVE  LogExplainsAccount'
  BY <1>0, <1>6, <1>8, <1>11 DEF ChangeScope
<1>12. ASSUME NEW seed \in [cash : Nat, positions : [Symbols -> Nat]], ReplaceAssets(seed)
       PROVE  LogExplainsAccount'
  <2> DEFINE b == Reseeded(acct, seed)
  <2>1. b.cash = seed.cash /\ b.positions = seed.positions /\ b.orders = <<>> /\ b.seed = seed
    BY <1>0 DEF GoodAccount, Fields, Reseeded
  <2>2. Saved(b) \/ RolledBack(b)
    BY <1>12 DEF ReplaceAssets
  <2> HIDE DEF b
  <2> QED BY <2>1, <2>2, FreshBooks, ExplainedStep
<1>13. CASE TakeBaseline
  BY <1>0, <1>6, <1>8, <1>13 DEF TakeBaseline
<1>14. CASE StartEngine \/ StopEngine \/ UNCHANGED vars
  BY <1>14 DEF StartEngine, StopEngine, vars, LogExplainsAccount
<1>15. ASSUME NEW found \in BOOLEAN, Restart(found)
       PROVE  LogExplainsAccount'
  <2> DEFINE a == Restored(disk)
  <2>1. GoodAccount(a) /\ Explained(a)
    <3>1. a.cash = disk.cash /\ a.positions = disk.positions /\ a.orders = disk.orders
          /\ a.seed = disk.seed
      BY DEF Restored
    <3>2. GoodAccount(a)
      BY <1>0, RestoredGood
    <3> HIDE DEF a
    <3> QED BY <1>0, <3>1, <3>2, SameBooks
  <2>2. \/ \E next \in Begun(a, disk.selection, disk.scope) : Saved(next)
        \/ acct' = a /\ UNCHANGED disk
    BY <1>15 DEF Restart
  <2> HIDE DEF a
  <2>3. ASSUME NEW next \in Begun(a, disk.selection, disk.scope), Saved(next)
        PROVE  LogExplainsAccount'
    BY <1>8, <2>1, <2>3, SameBooks, ExplainedStep
  <2> QED BY <1>0, <2>1, <2>2, <2>3 DEF LogExplainsAccount
<1>16. ResetPractice \/ LoadSnapshot => LogExplainsAccount'
  BY <1>0, <1>12, ConstantsAssumption DEF ResetPractice, LoadSnapshot
<1> QED
  BY <1>1, <1>2, <1>4, <1>5, <1>7, <1>9, <1>10, <1>11, <1>13, <1>14, <1>15, <1>16 DEF Next

\* Cash and holdings are always the seed plus what the filled orders of the log
\* did, in memory and in the database.
THEOREM BooksBalance == Spec => []LogExplainsAccount
BY InvariantHolds, InitExplained, StepExplained, PTL DEF Spec

-----------------------------------------------------------------------------
(* Shares by owner, as sums over all lot numbers.                            *)

LotNumbers == 1..MaxLots
\* What the lots numbered D of a list hold.
SharesIn(lots, D) == [i \in LotNumbers |-> IF i \in D THEN lots[i].quantity ELSE 0]
Of(a, s, origin) == {i \in DOMAIN a.managed[s] : a.managed[s][i].origin = origin}
AutoIn(a, s) == SharesIn(a.auto[s], DOMAIN a.auto[s])
ManagedIn(a, s, origin) == SharesIn(a.managed[s], Of(a, s, origin))
AutoSum(a, s) == SumFunction(AutoIn(a, s))
ManagedSum(a, s, origin) == SumFunction(ManagedIn(a, s, origin))

\* There are finitely many lot numbers.
LEMMA LotNumbersFinite == IsFiniteSet(LotNumbers)
BY FS_Interval, ConstantsAssumption DEF LotNumbers

\* Numbers that hold nothing add nothing.
LEMMA WideSum ==
  ASSUME NEW D, D \subseteq LotNumbers, NEW f \in [D -> Int],
         NEW w, w = [i \in LotNumbers |-> IF i \in D THEN f[i] ELSE 0]
  PROVE  SumFunction(f) = SumFunction(w)
<1> DEFINE R == LotNumbers \ D
<1>1. w \in [LotNumbers -> Int] /\ LotNumbers = D \cup R /\ D \cap R = {}
  OBVIOUS
<1>2. SumFunction(w) = SumFunction([i \in D |-> w[i]]) + SumFunction([i \in R |-> w[i]])
  <2> HIDE DEF R
  <2> QED BY <1>1, LotNumbersFinite, SumOfParts
<1>3. [i \in D |-> w[i]] = f
  <2>1. \A i \in D : w[i] = f[i]
    OBVIOUS
  <2> QED BY <2>1
<1> DEFINE zero == [i \in R |-> w[i]]
<1>4. SumFunction(zero) = 0
  <2>1. zero \in [R -> Int] /\ \A i \in R : zero[i] = 0
    OBVIOUS
  <2>2. IsFiniteSet(R)
    BY LotNumbersFinite, FS_Subset
  <2> HIDE DEF zero, R
  <2> QED BY <2>1, <2>2, SumOfZeros
<1>5. SumFunction(f) \in Int
  BY LotNumbersFinite, FS_Subset, SumType
<1>6. SumFunction(w) = SumFunction(f) + 0
  BY <1>2, <1>3, <1>4, Zenon
<1> QED BY <1>5, <1>6

\* The total of some lots of a list.
LEMMA LotTotals ==
  ASSUME NEW lots, LotsOK(lots), NEW D, D \subseteq DOMAIN lots
  PROVE  /\ LotTotal([i \in D |-> lots[i]]) = SumFunction(SharesIn(lots, D))
         /\ SharesIn(lots, D) \in [LotNumbers -> Nat]
         /\ SumFunction(SharesIn(lots, D)) \in Nat
<1> DEFINE f == [i \in D |-> lots[i].quantity]
           w == SharesIn(lots, D)
<1>1. D \subseteq LotNumbers /\ \A i \in D : lots[i].quantity \in Nat
  BY DEF LotsOK, Lot, LotNumbers
<1>2. w \in [LotNumbers -> Nat] /\ f \in [D -> Int]
  BY <1>1 DEF SharesIn
<1>3. w = [i \in LotNumbers |-> IF i \in D THEN f[i] ELSE 0]
  BY <1>1 DEF SharesIn
<1>4. LotTotal([i \in D |-> lots[i]]) = SumFunction(f)
  <2>1. [i \in DOMAIN [j \in D |-> lots[j]] |-> [j \in D |-> lots[j]][i].quantity] = f
    OBVIOUS
  <2> QED BY <2>1 DEF LotTotal
<1> HIDE DEF f, w
<1>5. SumFunction(f) = SumFunction(w)
  BY <1>1, <1>2, <1>3, WideSum
<1>6. SumFunction(w) \in Nat
  BY <1>2, LotNumbersFinite, SumOfNaturals
<1> QED BY <1>2, <1>4, <1>5, <1>6 DEF w

\* Who owns the shares of a symbol.
LEMMA OwnersAre ==
  ASSUME NEW a, GoodAccount(a), NEW s \in Symbols
  PROVE  /\ AutoQuantity(a, s) = AutoSum(a, s) /\ AutoSum(a, s) \in Nat
         /\ Managed(a, s, "MANUAL") = ManagedSum(a, s, "MANUAL") /\ ManagedSum(a, s, "MANUAL") \in Nat
         /\ Managed(a, s, "AUTO") = ManagedSum(a, s, "AUTO") /\ ManagedSum(a, s, "AUTO") \in Nat
         /\ StrategyQuantity(a, s) = ManagedSum(a, s, "MANUAL") + ManagedSum(a, s, "AUTO")
         /\ ManagedSum(a, s, "AUTO") <= AutoSum(a, s)
         /\ AutoIn(a, s) \in [LotNumbers -> Nat]
         /\ \A origin : ManagedIn(a, s, origin) \in [LotNumbers -> Nat]
<1>1. LotsOK(a.auto[s]) /\ LotsOK(a.managed[s])
  BY DEF GoodAccount, GoodRecord, DurableOK
<1>2. a.auto[s] = [i \in DOMAIN a.auto[s] |-> a.auto[s][i]]
      /\ a.managed[s] = [i \in DOMAIN a.managed[s] |-> a.managed[s][i]]
  BY <1>1 DEF LotsOK
<1>3. AutoQuantity(a, s) = AutoSum(a, s) /\ AutoSum(a, s) \in Nat /\ AutoIn(a, s) \in [LotNumbers -> Nat]
  BY <1>1, <1>2, LotTotals DEF AutoQuantity, AutoSum, AutoIn
<1>4. ASSUME NEW origin
      PROVE  /\ Managed(a, s, origin) = ManagedSum(a, s, origin) /\ ManagedSum(a, s, origin) \in Nat
             /\ ManagedIn(a, s, origin) \in [LotNumbers -> Nat]
  <2>1. Of(a, s, origin) \subseteq DOMAIN a.managed[s]
    BY DEF Of
  <2>2. Managed(a, s, origin) = LotTotal([i \in Of(a, s, origin) |-> a.managed[s][i]])
    BY DEF Managed, Of
  <2> QED BY <1>1, <2>1, <2>2, LotTotals DEF ManagedSum, ManagedIn
<1>5. StrategyQuantity(a, s) = ManagedSum(a, s, "MANUAL") + ManagedSum(a, s, "AUTO")
  <2> DEFINE all == SharesIn(a.managed[s], DOMAIN a.managed[s])
  <2>1. StrategyQuantity(a, s) = SumFunction(all) /\ all \in [LotNumbers -> Nat]
    BY <1>1, <1>2, LotTotals DEF StrategyQuantity
  <2>2. \A i \in LotNumbers : all[i] = ManagedIn(a, s, "MANUAL")[i] + ManagedIn(a, s, "AUTO")[i]
    <3>1. \A i \in DOMAIN a.managed[s] : a.managed[s][i].origin \in {"AUTO", "MANUAL"}
                                         /\ a.managed[s][i].quantity \in Nat
      BY <1>1 DEF LotsOK, Lot
    <3> QED BY <3>1 DEF ManagedIn, SharesIn, Of
  <2>3. all \in [LotNumbers -> Int] /\ ManagedIn(a, s, "MANUAL") \in [LotNumbers -> Int]
        /\ ManagedIn(a, s, "AUTO") \in [LotNumbers -> Int]
    BY <1>4, <2>1
  <2> HIDE DEF all
  <2> QED BY <2>1, <2>2, <2>3, LotNumbersFinite, SumsAddUp DEF ManagedSum
<1>6. ManagedSum(a, s, "AUTO") <= AutoSum(a, s)
  <2>1. \A i \in LotNumbers : ManagedIn(a, s, "AUTO")[i] <= AutoIn(a, s)[i]
    <3>1. \A i \in Of(a, s, "AUTO") : i \in DOMAIN a.auto[s] /\ a.auto[s][i] = a.managed[s][i]
                                      /\ a.auto[s][i].quantity \in Nat
      BY <1>1 DEF GoodAccount, SharedLots, Of, LotsOK, Lot
    <3>2. \A i \in DOMAIN a.auto[s] : a.auto[s][i].quantity \in Nat
      BY <1>1 DEF LotsOK, Lot
    <3> QED BY <3>1, <3>2 DEF ManagedIn, AutoIn, SharesIn
  <2>2. AutoIn(a, s) \in [LotNumbers -> Int] /\ ManagedIn(a, s, "AUTO") \in [LotNumbers -> Int]
    BY <1>3, <1>4
  <2> QED BY <2>1, <2>2, LotNumbersFinite, SumsCompare DEF ManagedSum, AutoSum
<1> QED BY <1>3, <1>4, <1>5, <1>6

\* What an order may do to the owners.
Unmoved(a, b) == Owners(b) = Owners(a)
BuyMove(a, b, s, q) ==
  \E owner \in {"free", "adopted", "managed"} :
    Owners(b) = [Owners(a) EXCEPT ![s][owner] = @ + q]
StrategyMove(a, b, s, q) ==
  \E x \in 0..q :
    /\ x <= Owners(a)[s].adopted /\ q - x <= Owners(a)[s].managed
    /\ Owners(b) = [Owners(a) EXCEPT ![s].adopted = @ - x, ![s].managed = @ - (q - x)]
ManualMove(a, b, s, q) ==
  LET x == IF q <= Owners(a)[s].free THEN q ELSE Owners(a)[s].free IN
  /\ q - x <= Owners(a)[s].resting
  /\ Owners(b) = [Owners(a) EXCEPT ![s].free = @ - x, ![s].resting = @ - (q - x)]
Moves(a, b, s, q) == \/ Unmoved(a, b) \/ BuyMove(a, b, s, q)
                     \/ StrategyMove(a, b, s, q) \/ ManualMove(a, b, s, q)

\* The sum of one number.
LEMMA SumOfOne ==
  ASSUME NEW i, NEW n \in Int
  PROVE  SumFunction([j \in {i} |-> n]) = n
<1> DEFINE one == [j \in {i} |-> n]
           empty == [y \in {} |-> one[y]]
<1>1. one \in [{} \cup {i} -> Int] /\ one[i] = n /\ IsFiniteSet({}) /\ i \notin {}
  BY FS_EmptySet
<1>2. SumFunction(one) = SumFunction(empty) + one[i]
  <2> HIDE DEF one
  <2> QED BY <1>1, SumWithElement
<1>3. SumFunction(empty) = 0
  <2>1. DOMAIN empty = {} /\ empty = [y \in {} |-> empty[y]]
    OBVIOUS
  <2> HIDE DEF empty
  <2> QED BY <2>1, SumOfNothing
<1>4. SumFunction(one) = 0 + n
  BY <1>1, <1>2, <1>3, Zenon
<1> HIDE DEF one
<1>5. SumFunction(one) = n
  BY <1>4
<1> QED BY <1>5 DEF one

\* One number of lots that changes changes the total by as much.
LEMMA SumChange ==
  ASSUME NEW f \in [LotNumbers -> Int], NEW k \in [LotNumbers -> Int], NEW i \in LotNumbers,
         NEW n \in Int, k[i] = f[i] + n, \A j \in LotNumbers \ {i} : k[j] = f[j]
  PROVE  SumFunction(k) = SumFunction(f) + n
<1> DEFINE one == [j \in {i} |-> n]
           e == [j \in LotNumbers |-> IF j \in {i} THEN one[j] ELSE 0]
<1>1. SumFunction(one) = n
  BY SumOfOne
<1>2. SumFunction(one) = SumFunction(e)
  <2>1. one \in [{i} -> Int] /\ {i} \subseteq LotNumbers
    OBVIOUS
  <2> HIDE DEF one
  <2> QED BY <2>1, WideSum
<1>3. e \in [LotNumbers -> Int] /\ \A j \in LotNumbers : k[j] = f[j] + e[j]
  OBVIOUS
<1> HIDE DEF e, one
<1>4. SumFunction(k) = SumFunction(f) + SumFunction(e)
  BY <1>3, LotNumbersFinite, SumsAddUp
<1> QED BY <1>1, <1>2, <1>4

\* The owners of an account's shares, symbol by symbol.
Split(positions, auto, adopted, managed) ==
  [free |-> positions - auto - adopted, adopted |-> adopted, managed |-> managed,
   resting |-> auto - managed]
\* They are the sums over the lots of each origin.
LEMMA OwnersSplit ==
  ASSUME NEW a, GoodAccount(a)
  PROVE  Owners(a) = [s \in Symbols |-> Split(a.positions[s], AutoSum(a, s),
                                              ManagedSum(a, s, "MANUAL"), ManagedSum(a, s, "AUTO"))]
<1>1. \A s \in Symbols : /\ AutoQuantity(a, s) = AutoSum(a, s)
                         /\ Managed(a, s, "MANUAL") = ManagedSum(a, s, "MANUAL")
                         /\ Managed(a, s, "AUTO") = ManagedSum(a, s, "AUTO")
  BY OwnersAre
<1> QED BY <1>1 DEF Owners, Split

\* Accounts with the same lots of a symbol have the same totals.
LEMMA SameLots ==
  ASSUME NEW a, NEW b, NEW s, a.auto[s] = b.auto[s], a.managed[s] = b.managed[s]
  PROVE  AutoSum(a, s) = AutoSum(b, s) /\ \A origin : ManagedSum(a, s, origin) = ManagedSum(b, s, origin)
BY DEF AutoSum, ManagedSum, AutoIn, ManagedIn, Of

\* Only the owners of one symbol change.
LEMMA OwnersMove ==
  ASSUME NEW a, GoodAccount(a), NEW b, GoodAccount(b), NEW s \in Symbols,
         \A z \in Symbols \ {s} :
           /\ b.positions[z] = a.positions[z]
           /\ AutoSum(b, z) = AutoSum(a, z)
           /\ \A origin : ManagedSum(b, z, origin) = ManagedSum(a, z, origin)
  PROVE  /\ Owners(b) = [Owners(a) EXCEPT ![s] =
               Split(b.positions[s], AutoSum(b, s), ManagedSum(b, s, "MANUAL"), ManagedSum(b, s, "AUTO"))]
         /\ Owners(a)[s] =
               Split(a.positions[s], AutoSum(a, s), ManagedSum(a, s, "MANUAL"), ManagedSum(a, s, "AUTO"))
<1> DEFINE S(x, z) == Split(x.positions[z], AutoSum(x, z), ManagedSum(x, z, "MANUAL"), ManagedSum(x, z, "AUTO"))
<1>1. \A z \in Symbols \ {s} : S(b, z) = S(a, z)
  OBVIOUS
<1>2. Owners(b) = [z \in Symbols |-> S(b, z)] /\ Owners(a) = [z \in Symbols |-> S(a, z)]
  BY OwnersSplit
<1>3. Owners(b) = [Owners(a) EXCEPT ![s] = S(b, s)] /\ Owners(a)[s] = S(a, s)
  <2> HIDE DEF S
  <2> QED BY <1>1, <1>2
<1> QED BY <1>3

\* A purchase adds its shares to one owner.
LEMMA BoughtOwners ==
  ASSUME NEW a, GoodAccount(a), NEW o \in OrderRecord, NEW i \in 1..MaxLots,
         i \notin DOMAIN a.auto[o.symbol] \cup DOMAIN a.managed[o.symbol],
         GoodAccount(Bought(a, o, i))
  PROVE  BuyMove(a, Bought(a, o, i), o.symbol, o.quantity)
<1> DEFINE b == Bought(a, o, i)
           s == o.symbol
           q == o.quantity
           lot == [quantity |-> q, context |-> a.context,
                   origin |-> IF o.source = "STRATEGY" THEN "AUTO" ELSE "MANUAL"]
           strategy == o.source = "STRATEGY"
           adopted == strategy \/ AdoptsManual(a, s)
<1>1. /\ b.positions = [a.positions EXCEPT ![s] = @ + q]
      /\ b.auto = [a.auto EXCEPT ![s] = IF strategy THEN WithLot(@, i, lot) ELSE @]
      /\ b.managed = [a.managed EXCEPT ![s] = IF adopted THEN WithLot(@, i, lot) ELSE @]
  BY DEF GoodAccount, Fields, Bought
<1>2. s \in Symbols /\ q \in Nat \ {0} /\ a.positions \in [Symbols -> Nat] /\ i \in LotNumbers
      /\ DOMAIN a.auto = Symbols /\ DOMAIN a.managed = Symbols
  BY DEF OrderRecord, GoodAccount, GoodRecord, DurableOK, LotNumbers
<1>3. /\ b.positions[s] = a.positions[s] + q
      /\ b.auto[s] = IF strategy THEN WithLot(a.auto[s], i, lot) ELSE a.auto[s]
      /\ b.managed[s] = IF adopted THEN WithLot(a.managed[s], i, lot) ELSE a.managed[s]
      /\ lot.quantity = q /\ lot.origin = IF strategy THEN "AUTO" ELSE "MANUAL"
  BY <1>1, <1>2
<1>4. \A z \in Symbols \ {s} :
        /\ b.positions[z] = a.positions[z]
        /\ AutoSum(b, z) = AutoSum(a, z)
        /\ \A origin : ManagedSum(b, z, origin) = ManagedSum(a, z, origin)
  <2>1. \A z \in Symbols \ {s} : b.positions[z] = a.positions[z]
          /\ b.auto[z] = a.auto[z] /\ b.managed[z] = a.managed[z]
    BY <1>1, <1>2
  <2> HIDE DEF b, s
  <2> QED BY <2>1, SameLots
<1> HIDE DEF b, lot, s, q
<1>5. /\ AutoIn(a, s) \in [LotNumbers -> Int] /\ AutoIn(b, s) \in [LotNumbers -> Int]
      /\ \A origin : /\ ManagedIn(a, s, origin) \in [LotNumbers -> Int]
                     /\ ManagedIn(b, s, origin) \in [LotNumbers -> Int]
      /\ AutoSum(a, s) \in Nat /\ \A origin \in {"AUTO", "MANUAL"} : ManagedSum(a, s, origin) \in Nat
  <2>1. GoodAccount(b)
    BY DEF b
  <2> QED BY <1>2, <2>1, OwnersAre
<1>6. CASE strategy
  <2>1. AutoSum(b, s) = AutoSum(a, s) + q
    <3>1. AutoIn(b, s)[i] = AutoIn(a, s)[i] + q
          /\ \A j \in LotNumbers \ {i} : AutoIn(b, s)[j] = AutoIn(a, s)[j]
      BY <1>2, <1>3, <1>6 DEF AutoIn, SharesIn, WithLot, s
    <3> QED BY <1>2, <1>5, <3>1, SumChange DEF AutoSum
  <2>2. ManagedSum(b, s, "AUTO") = ManagedSum(a, s, "AUTO") + q
    <3>1. ManagedIn(b, s, "AUTO")[i] = ManagedIn(a, s, "AUTO")[i] + q
          /\ \A j \in LotNumbers \ {i} : ManagedIn(b, s, "AUTO")[j] = ManagedIn(a, s, "AUTO")[j]
      BY <1>2, <1>3, <1>6 DEF ManagedIn, SharesIn, WithLot, Of, s
    <3> QED BY <1>2, <1>5, <3>1, SumChange DEF ManagedSum
  <2>3. ManagedSum(b, s, "MANUAL") = ManagedSum(a, s, "MANUAL")
    <3>1. Of(b, s, "MANUAL") = Of(a, s, "MANUAL")
      BY <1>2, <1>3, <1>6 DEF WithLot, Of, s
    <3>2. ManagedIn(b, s, "MANUAL") = ManagedIn(a, s, "MANUAL")
      BY <3>1, <1>2, <1>3, <1>6 DEF ManagedIn, SharesIn, WithLot, Of, s
    <3> QED BY <3>2 DEF ManagedSum
  <2>4. Owners(b) = [Owners(a) EXCEPT ![s]["managed"] = @ + q]
    <3>1. GoodAccount(b)
      BY DEF b
    <3>2. /\ Owners(b) = [Owners(a) EXCEPT ![s] = Split(b.positions[s], AutoSum(b, s),
                              ManagedSum(b, s, "MANUAL"), ManagedSum(b, s, "AUTO"))]
          /\ Owners(a)[s] = Split(a.positions[s], AutoSum(a, s), ManagedSum(a, s, "MANUAL"),
                                 ManagedSum(a, s, "AUTO"))
      BY <1>2, <1>4, <3>1, OwnersMove
    <3>3. Split(b.positions[s], AutoSum(b, s), ManagedSum(b, s, "MANUAL"), ManagedSum(b, s, "AUTO"))
          = [Owners(a)[s] EXCEPT !["managed"] = @ + q]
      <4>1. a.positions[s] \in Nat
        BY <1>2
      <4> QED BY <1>2, <1>3, <1>5, <2>1, <2>2, <2>3, <3>2, <4>1 DEF Split
    <3> QED BY <3>2, <3>3
  <2>5. BuyMove(a, b, s, q)
    BY <2>4 DEF BuyMove
  <2> QED BY <2>5 DEF b, s, q
<1>7. CASE ~strategy
  <2>1. AutoSum(b, s) = AutoSum(a, s)
    BY <1>3, <1>7 DEF AutoSum, AutoIn
  <2>2. ManagedSum(b, s, "AUTO") = ManagedSum(a, s, "AUTO")
    <3>1. Of(b, s, "AUTO") = Of(a, s, "AUTO")
      BY <1>2, <1>3, <1>7 DEF WithLot, Of, s
    <3>2. ManagedIn(b, s, "AUTO") = ManagedIn(a, s, "AUTO")
      BY <3>1, <1>2, <1>3, <1>7 DEF ManagedIn, SharesIn, WithLot, Of, s
    <3> QED BY <3>2 DEF ManagedSum
  <2>3. GoodAccount(b)
    BY DEF b
  <2>4. /\ Owners(b) = [Owners(a) EXCEPT ![s] = Split(b.positions[s], AutoSum(b, s),
                              ManagedSum(b, s, "MANUAL"), ManagedSum(b, s, "AUTO"))]
        /\ Owners(a)[s] = Split(a.positions[s], AutoSum(a, s), ManagedSum(a, s, "MANUAL"),
                               ManagedSum(a, s, "AUTO"))
        /\ a.positions[s] \in Nat
    BY <1>2, <1>4, <2>3, OwnersMove
  <2>5. CASE adopted
    <3>1. ManagedIn(b, s, "MANUAL")[i] = ManagedIn(a, s, "MANUAL")[i] + q
          /\ \A j \in LotNumbers \ {i} : ManagedIn(b, s, "MANUAL")[j] = ManagedIn(a, s, "MANUAL")[j]
      BY <1>2, <1>3, <1>7, <2>5 DEF ManagedIn, SharesIn, WithLot, Of, s
    <3>2. ManagedSum(b, s, "MANUAL") = ManagedSum(a, s, "MANUAL") + q
      BY <1>2, <1>5, <3>1, SumChange DEF ManagedSum
    <3>3. Split(b.positions[s], AutoSum(b, s), ManagedSum(b, s, "MANUAL"), ManagedSum(b, s, "AUTO"))
          = [Owners(a)[s] EXCEPT !["adopted"] = @ + q]
      BY <1>2, <1>3, <1>5, <2>1, <2>2, <2>4, <3>2 DEF Split
    <3>4. Owners(b) = [Owners(a) EXCEPT ![s]["adopted"] = @ + q]
      BY <2>4, <3>3
    <3>5. BuyMove(a, b, s, q)
      BY <3>4 DEF BuyMove
    <3> QED BY <3>5 DEF b, s, q
  <2>6. CASE ~adopted
    <3>1. ManagedSum(b, s, "MANUAL") = ManagedSum(a, s, "MANUAL")
      BY <1>3, <2>6 DEF ManagedSum, ManagedIn, Of
    <3>2. Split(b.positions[s], AutoSum(b, s), ManagedSum(b, s, "MANUAL"), ManagedSum(b, s, "AUTO"))
          = [Owners(a)[s] EXCEPT !["free"] = @ + q]
      BY <1>2, <1>3, <1>5, <2>1, <2>2, <2>4, <3>1 DEF Split
    <3>3. Owners(b) = [Owners(a) EXCEPT ![s]["free"] = @ + q]
      BY <2>4, <3>2
    <3>4. BuyMove(a, b, s, q)
      BY <3>3 DEF BuyMove
    <3> QED BY <3>4 DEF b, s, q
  <2> QED BY <2>5, <2>6
<1> QED BY <1>6, <1>7

\* A sale takes as many shares as it should when the lots hold as many.
LEMMA TakesAll ==
  ASSUME NEW lots, LotsOK(lots), NEW from, from \subseteq DOMAIN lots, NEW n \in Nat,
         NEW taken \in Takings(lots, from, n), n <= SumFunction(SharesIn(lots, from))
  PROVE  /\ DOMAIN taken = from /\ SumFunction(taken) = n
         /\ \A i \in from : taken[i] \in Nat /\ taken[i] <= lots[i].quantity
<1>1. /\ taken \in [from -> 0..n] /\ \A i \in from : taken[i] <= lots[i].quantity
      /\ \/ SumFunction(taken) = n
         \/ SumFunction(taken) < n /\ \A i \in from : taken[i] = lots[i].quantity
  BY DEF Takings
<1>2. SumFunction(taken) = n
  <2> SUFFICES ASSUME SumFunction(taken) < n, \A i \in from : taken[i] = lots[i].quantity
               PROVE  FALSE
    BY <1>1
  <2>1. SharesIn(lots, from) = [i \in LotNumbers |-> IF i \in from THEN taken[i] ELSE 0]
    BY DEF SharesIn
  <2>2. from \subseteq LotNumbers /\ taken \in [from -> Int]
    BY <1>1 DEF LotsOK, LotNumbers
  <2>3. SumFunction(taken) = SumFunction(SharesIn(lots, from))
    BY <2>1, <2>2, WideSum
  <2>4. SumFunction(taken) \in Int
    BY <2>2, LotNumbersFinite, FS_Subset, SumType
  <2>5. \A k \in Int : ~(k < n /\ n <= k)
    OBVIOUS
  <2> QED BY <2>3, <2>4, <2>5, Zenon
<1> QED BY <1>1, <1>2

\* What is taken of the lots numbered D.
TakenIn(taken, D) == [i \in LotNumbers |-> IF i \in D /\ i \in DOMAIN taken THEN taken[i] ELSE 0]

\* Nothing is taken that a list does not hold.
TakenFrom(taken, lots) ==
  /\ \A i \in DOMAIN taken : taken[i] \in Nat
  /\ \A i \in DOMAIN lots : i \in DOMAIN taken => taken[i] <= lots[i].quantity

\* A deduction leaves what was not taken.
LEMMA DeductShares ==
  ASSUME NEW lots, LotsOK(lots), NEW taken, TakenFrom(taken, lots),
         NEW D, D \subseteq DOMAIN lots, NEW E, E = D \cap DOMAIN Deduct(lots, taken)
  PROVE  SumFunction(SharesIn(lots, D)) =
           SumFunction(SharesIn(Deduct(lots, taken), E)) + SumFunction(TakenIn(taken, D))
<1>0. /\ \A i \in DOMAIN taken : taken[i] \in Nat
      /\ \A i \in DOMAIN lots : i \in DOMAIN taken => taken[i] <= lots[i].quantity
  BY DEF TakenFrom
<1>1. \A i \in DOMAIN lots : lots[i] \in Lot /\ lots[i].quantity \in Nat
  BY DEF LotsOK, Lot
<1>2. \A i \in DOMAIN lots : /\ Left(lots, taken, i) \in Nat
                             /\ lots[i].quantity = Left(lots, taken, i) +
                                  (IF i \in DOMAIN taken THEN taken[i] ELSE 0)
  BY <1>0, <1>1 DEF Left
<1>3. \A i \in DOMAIN lots : /\ i \in DOMAIN Deduct(lots, taken) <=> Left(lots, taken, i) > 0
                             /\ i \in DOMAIN Deduct(lots, taken) =>
                                  Deduct(lots, taken)[i].quantity = Left(lots, taken, i)
  BY <1>1 DEF Deduct, Lot
<1>4. \A i \in LotNumbers : /\ SharesIn(lots, D)[i] \in Int
                            /\ SharesIn(Deduct(lots, taken), E)[i] \in Int
                            /\ TakenIn(taken, D)[i] \in Int
                            /\ SharesIn(lots, D)[i] = SharesIn(Deduct(lots, taken), E)[i] + TakenIn(taken, D)[i]
  <2> SUFFICES ASSUME NEW i \in LotNumbers
               PROVE  /\ SharesIn(lots, D)[i] \in Int
                      /\ SharesIn(Deduct(lots, taken), E)[i] \in Int
                      /\ TakenIn(taken, D)[i] \in Int
                      /\ SharesIn(lots, D)[i] = SharesIn(Deduct(lots, taken), E)[i] + TakenIn(taken, D)[i]
    OBVIOUS
  <2>1. CASE i \notin D
    BY <2>1 DEF SharesIn, TakenIn
  <2>2. CASE i \in D
    <3>1. SharesIn(lots, D)[i] = lots[i].quantity
          /\ TakenIn(taken, D)[i] = (IF i \in DOMAIN taken THEN taken[i] ELSE 0)
      BY <2>2 DEF SharesIn, TakenIn
    <3>2. SharesIn(Deduct(lots, taken), E)[i] = Left(lots, taken, i)
      BY <2>2, <1>2, <1>3 DEF SharesIn
    <3> QED BY <2>2, <3>1, <3>2, <1>0, <1>1, <1>2
  <2> QED BY <2>1, <2>2
<1> DEFINE f == SharesIn(lots, D)
           k == SharesIn(Deduct(lots, taken), E)
           e == TakenIn(taken, D)
<1>5. f \in [LotNumbers -> Int] /\ k \in [LotNumbers -> Int] /\ e \in [LotNumbers -> Int]
  BY <1>4 DEF SharesIn, TakenIn
<1>6. \A i \in LotNumbers : f[i] = k[i] + e[i]
  BY <1>4
<1> HIDE DEF f, k, e
<1>7. SumFunction(f) = SumFunction(k) + SumFunction(e)
  BY <1>5, <1>6, LotNumbersFinite, SumsAddUp
<1> QED BY <1>7 DEF f, k, e

\* A sale takes from each owner what is taken of its lots.
LEMMA SoldSums ==
  ASSUME NEW a, GoodAccount(a), NEW o \in OrderRecord, NEW taken,
         TakenFrom(taken, a.auto[o.symbol]), TakenFrom(taken, a.managed[o.symbol])
  PROVE  LET b == Sold(a, o, taken)  s == o.symbol IN
         /\ b.positions[s] = a.positions[s] - o.quantity
         /\ AutoSum(a, s) = AutoSum(b, s) + SumFunction(TakenIn(taken, DOMAIN a.auto[s]))
         /\ \A origin \in {"AUTO", "MANUAL"} : ManagedSum(a, s, origin)
              = ManagedSum(b, s, origin) + SumFunction(TakenIn(taken, Of(a, s, origin)))
         /\ \A z \in Symbols \ {s} :
              /\ b.positions[z] = a.positions[z] /\ AutoSum(b, z) = AutoSum(a, z)
              /\ \A origin : ManagedSum(b, z, origin) = ManagedSum(a, z, origin)
<1> DEFINE b == Sold(a, o, taken)
           s == o.symbol
<1>1. /\ b.positions = [a.positions EXCEPT ![s] = @ - o.quantity]
      /\ b.auto = [a.auto EXCEPT ![s] = Deduct(@, taken)]
      /\ b.managed = [a.managed EXCEPT ![s] = Deduct(@, taken)]
  BY DEF GoodAccount, Fields, Sold
<1>2. /\ s \in Symbols /\ a.positions \in [Symbols -> Nat]
      /\ DOMAIN a.auto = Symbols /\ DOMAIN a.managed = Symbols
      /\ LotsOK(a.auto[s]) /\ LotsOK(a.managed[s])
  BY DEF OrderRecord, GoodAccount, GoodRecord, DurableOK
<1>3. \A z \in Symbols \ {s} : b.positions[z] = a.positions[z]
        /\ b.auto[z] = a.auto[z] /\ b.managed[z] = a.managed[z]
  BY <1>1, <1>2
<1>4. b.positions[s] = a.positions[s] - o.quantity /\ b.auto[s] = Deduct(a.auto[s], taken)
      /\ b.managed[s] = Deduct(a.managed[s], taken)
  BY <1>1, <1>2
<1> HIDE DEF b, s
<1>5. \A z \in Symbols \ {s} :
        /\ AutoSum(b, z) = AutoSum(a, z)
        /\ \A origin : ManagedSum(b, z, origin) = ManagedSum(a, z, origin)
  BY <1>3, SameLots
<1>6. AutoSum(a, s) = AutoSum(b, s) + SumFunction(TakenIn(taken, DOMAIN a.auto[s]))
  <2> DEFINE lots == a.auto[s]  D == DOMAIN a.auto[s]  E == DOMAIN b.auto[s]
  <2>1. LotsOK(lots) /\ D \subseteq DOMAIN lots /\ E = D \cap DOMAIN Deduct(lots, taken)
    BY <1>2, <1>4 DEF Deduct
  <2>2. AutoSum(a, s) = SumFunction(SharesIn(lots, D))
        /\ AutoSum(b, s) = SumFunction(SharesIn(Deduct(lots, taken), E))
    BY <1>4 DEF AutoSum, AutoIn
  <2>3. TakenFrom(taken, lots)
    BY DEF s
  <2> HIDE DEF lots, E, D
  <2>4. SumFunction(SharesIn(lots, D)) =
           SumFunction(SharesIn(Deduct(lots, taken), E)) + SumFunction(TakenIn(taken, D))
    BY <2>1, <2>3, DeductShares
  <2> QED BY <2>2, <2>4 DEF D
<1>7. ASSUME NEW origin \in {"AUTO", "MANUAL"}
      PROVE  ManagedSum(a, s, origin)
              = ManagedSum(b, s, origin) + SumFunction(TakenIn(taken, Of(a, s, origin)))
  <2> DEFINE lots == a.managed[s]  D == Of(a, s, origin)  E == Of(b, s, origin)
  <2>1. LotsOK(lots) /\ D \subseteq DOMAIN lots /\ E = D \cap DOMAIN Deduct(lots, taken)
    <3>1. \A i \in DOMAIN Deduct(lots, taken) :
            i \in DOMAIN lots /\ Deduct(lots, taken)[i].origin = lots[i].origin
      BY <1>2 DEF Deduct, LotsOK, Lot
    <3> QED BY <3>1, <1>2, <1>4 DEF Of
  <2>2. ManagedSum(a, s, origin) = SumFunction(SharesIn(lots, D))
        /\ ManagedSum(b, s, origin) = SumFunction(SharesIn(Deduct(lots, taken), E))
    BY <1>4 DEF ManagedSum, ManagedIn
  <2>3. TakenFrom(taken, lots)
    BY DEF s
  <2> HIDE DEF lots, E, D
  <2>4. SumFunction(SharesIn(lots, D)) =
           SumFunction(SharesIn(Deduct(lots, taken), E)) + SumFunction(TakenIn(taken, D))
    BY <2>1, <2>3, DeductShares
  <2> QED BY <2>2, <2>4 DEF D
<1> QED BY <1>3, <1>4, <1>5, <1>6, <1>7 DEF b, s

\* The parts of what is taken.
LEMMA TakenSums ==
  ASSUME NEW taken, NEW D, DOMAIN taken \subseteq D, taken \in [DOMAIN taken -> Nat],
         DOMAIN taken \subseteq LotNumbers
  PROVE  /\ SumFunction(TakenIn(taken, D)) = SumFunction(taken)
         /\ \A A, B : D = A \cup B /\ A \cap B = {} =>
              SumFunction(TakenIn(taken, D)) = SumFunction(TakenIn(taken, A)) + SumFunction(TakenIn(taken, B))
         /\ \A A : SumFunction(TakenIn(taken, A)) \in Nat
         /\ \A A : A \cap DOMAIN taken = {} => SumFunction(TakenIn(taken, A)) = 0
<1>1. SumFunction(TakenIn(taken, D)) = SumFunction(taken)
  <2>1. TakenIn(taken, D) = [i \in LotNumbers |-> IF i \in DOMAIN taken THEN taken[i] ELSE 0]
    BY DEF TakenIn
  <2>2. taken \in [DOMAIN taken -> Int]
    OBVIOUS
  <2> QED BY <2>1, <2>2, WideSum
<1>2. ASSUME NEW A PROVE TakenIn(taken, A) \in [LotNumbers -> Nat] /\ SumFunction(TakenIn(taken, A)) \in Nat
  <2>1. TakenIn(taken, A) \in [LotNumbers -> Nat]
    BY DEF TakenIn
  <2> QED BY <2>1, LotNumbersFinite, SumOfNaturals
<1>3. ASSUME NEW A, NEW B, D = A \cup B /\ A \cap B = {}
      PROVE  SumFunction(TakenIn(taken, D)) = SumFunction(TakenIn(taken, A)) + SumFunction(TakenIn(taken, B))
  <2> DEFINE f == TakenIn(taken, D)  k == TakenIn(taken, A)  e == TakenIn(taken, B)
  <2>1. \A i \in LotNumbers : f[i] = k[i] + e[i]
    BY <1>3 DEF TakenIn
  <2>2. f \in [LotNumbers -> Int] /\ k \in [LotNumbers -> Int] /\ e \in [LotNumbers -> Int]
    BY <1>2
  <2> HIDE DEF f, k, e
  <2>3. SumFunction(f) = SumFunction(k) + SumFunction(e)
    BY <2>1, <2>2, LotNumbersFinite, SumsAddUp
  <2> QED BY <2>3 DEF f, k, e
<1>4. ASSUME NEW A, A \cap DOMAIN taken = {} PROVE SumFunction(TakenIn(taken, A)) = 0
  <2>1. \A i \in LotNumbers : TakenIn(taken, A)[i] = 0
    BY <1>4 DEF TakenIn
  <2>2. TakenIn(taken, A) \in [LotNumbers -> Int]
    BY <1>2
  <2> QED BY <2>1, <2>2, LotNumbersFinite, SumOfZeros
<1> QED BY <1>1, <1>2, <1>3, <1>4

\* A sale takes shares from two owners.
ByStrategy(r, x, y) == [r EXCEPT !.adopted = @ - x, !.managed = @ - y]
ByHand(r, x, y) == [r EXCEPT !.free = @ - x, !.resting = @ - y]
\* What is left to each owner after a sale.
LEMMA SplitMoves ==
  ASSUME NEW f, NEW d, NEW m, NEW t, NEW x, NEW y, NEW r,
         r = [free |-> f, adopted |-> d, managed |-> m, resting |-> t]
  PROVE  /\ ByStrategy(r, x, y) = [free |-> f, adopted |-> d - x, managed |-> m - y, resting |-> t]
         /\ ByHand(r, x, y) = [free |-> f - x, adopted |-> d, managed |-> m, resting |-> t - y]
<1> DEFINE v == [r EXCEPT !.adopted = @ - x]
           w == [r EXCEPT !.free = @ - x]
<1>1. /\ v = [free |-> f, adopted |-> d - x, managed |-> m, resting |-> t]
      /\ w = [free |-> f - x, adopted |-> d, managed |-> m, resting |-> t]
  OBVIOUS
<1>2. /\ [r EXCEPT !.adopted = @ - x, !.managed = @ - y] = [v EXCEPT !.managed = @ - y]
      /\ [r EXCEPT !.free = @ - x, !.resting = @ - y] = [w EXCEPT !.resting = @ - y]
  OBVIOUS
<1> HIDE DEF v, w
<1>3. /\ [v EXCEPT !.managed = @ - y] = [free |-> f, adopted |-> d - x, managed |-> m - y, resting |-> t]
      /\ [w EXCEPT !.resting = @ - y] = [free |-> f - x, adopted |-> d, managed |-> m, resting |-> t - y]
  BY <1>1
<1> QED BY <1>2, <1>3, Zenon DEF ByStrategy, ByHand

\* A strategy sale takes adopted and managed shares.
LEMMA StrategySaleOwners ==
  ASSUME NEW a, GoodAccount(a), NEW o \in OrderRecord, NEW from,
         from \subseteq DOMAIN a.managed[o.symbol],
         o.quantity <= SumFunction(SharesIn(a.managed[o.symbol], from)),
         NEW taken \in Takings(a.managed[o.symbol], from, o.quantity),
         GoodAccount(Sold(a, o, taken))
  PROVE  StrategyMove(a, Sold(a, o, taken), o.symbol, o.quantity)
<1> DEFINE b == Sold(a, o, taken)
           s == o.symbol
           q == o.quantity
<1>1. /\ s \in Symbols /\ q \in Nat /\ LotsOK(a.auto[s]) /\ LotsOK(a.managed[s])
      /\ a.positions[s] \in Nat
  BY DEF OrderRecord, GoodAccount, GoodRecord, DurableOK
<1>2. /\ DOMAIN taken = from /\ SumFunction(taken) = q /\ from \subseteq DOMAIN a.managed[s]
      /\ \A i \in from : taken[i] \in Nat /\ taken[i] <= a.managed[s][i].quantity
  BY <1>1, TakesAll
<1>3. \A i \in DOMAIN a.managed[s] :
         IF a.managed[s][i].origin = "AUTO"
         THEN i \in DOMAIN a.auto[s] /\ a.auto[s][i] = a.managed[s][i]
         ELSE i \notin DOMAIN a.auto[s] /\ a.managed[s][i].origin = "MANUAL"
  BY <1>1 DEF GoodAccount, SharedLots, LotsOK, Lot
<1>4. TakenFrom(taken, a.auto[s]) /\ TakenFrom(taken, a.managed[s])
  BY <1>2, <1>3 DEF TakenFrom
<1> DEFINE ta == SumFunction(TakenIn(taken, Of(a, s, "AUTO")))
           tm == SumFunction(TakenIn(taken, Of(a, s, "MANUAL")))
<1>5. ta \in Nat /\ tm \in Nat /\ q = ta + tm
  <2> DEFINE A == Of(a, s, "AUTO")  B == Of(a, s, "MANUAL")  D == DOMAIN a.managed[s]
  <2>1. D = A \cup B /\ A \cap B = {} /\ D \subseteq LotNumbers
    BY <1>1, <1>3 DEF Of, LotsOK, LotNumbers
  <2>2. taken \in [DOMAIN taken -> Nat] /\ DOMAIN taken \subseteq D /\ DOMAIN taken \subseteq LotNumbers
    BY <1>2, <2>1 DEF Takings
  <2> HIDE DEF A, B, D
  <2>3. /\ SumFunction(TakenIn(taken, D)) = SumFunction(taken)
        /\ SumFunction(TakenIn(taken, D)) = SumFunction(TakenIn(taken, A)) + SumFunction(TakenIn(taken, B))
        /\ SumFunction(TakenIn(taken, A)) \in Nat /\ SumFunction(TakenIn(taken, B)) \in Nat
    BY <2>1, <2>2, TakenSums
  <2> QED BY <1>2, <2>3 DEF A, B
<1>6. TakenIn(taken, DOMAIN a.auto[s]) = TakenIn(taken, Of(a, s, "AUTO"))
  BY <1>2, <1>3 DEF TakenIn, Of
<1>7. /\ b.positions[s] = a.positions[s] - q
      /\ AutoSum(a, s) = AutoSum(b, s) + ta
      /\ ManagedSum(a, s, "AUTO") = ManagedSum(b, s, "AUTO") + ta
      /\ ManagedSum(a, s, "MANUAL") = ManagedSum(b, s, "MANUAL") + tm
      /\ \A z \in Symbols \ {s} :
              /\ b.positions[z] = a.positions[z] /\ AutoSum(b, z) = AutoSum(a, z)
              /\ \A origin : ManagedSum(b, z, origin) = ManagedSum(a, z, origin)
  BY <1>4, <1>6, SoldSums
<1> HIDE DEF b, s, q, ta, tm
<1>8. GoodAccount(b)
  BY DEF b
<1>9. /\ AutoSum(b, s) \in Nat /\ ManagedSum(b, s, "AUTO") \in Nat /\ ManagedSum(b, s, "MANUAL") \in Nat
      /\ AutoSum(a, s) \in Nat /\ ManagedSum(a, s, "AUTO") \in Nat /\ ManagedSum(a, s, "MANUAL") \in Nat
  BY <1>1, <1>8, OwnersAre
<1>10. /\ Owners(b) = [Owners(a) EXCEPT ![s] = Split(b.positions[s], AutoSum(b, s),
                              ManagedSum(b, s, "MANUAL"), ManagedSum(b, s, "AUTO"))]
       /\ Owners(a)[s] = Split(a.positions[s], AutoSum(a, s), ManagedSum(a, s, "MANUAL"),
                               ManagedSum(a, s, "AUTO"))
  BY <1>1, <1>7, <1>8, OwnersMove
<1>11. Split(b.positions[s], AutoSum(b, s), ManagedSum(b, s, "MANUAL"), ManagedSum(b, s, "AUTO"))
       = [Owners(a)[s] EXCEPT !.adopted = @ - tm, !.managed = @ - (q - tm)]
  <2>1. b.positions[s] - AutoSum(b, s) - ManagedSum(b, s, "MANUAL")
        = a.positions[s] - AutoSum(a, s) - ManagedSum(a, s, "MANUAL")
    BY <1>1, <1>5, <1>7, <1>9
  <2>2. ManagedSum(b, s, "MANUAL") = ManagedSum(a, s, "MANUAL") - tm
    BY <1>5, <1>7, <1>9
  <2>3. ManagedSum(b, s, "AUTO") = ManagedSum(a, s, "AUTO") - (q - tm)
    BY <1>5, <1>7, <1>9
  <2>4. AutoSum(b, s) - ManagedSum(b, s, "AUTO") = AutoSum(a, s) - ManagedSum(a, s, "AUTO")
    BY <1>5, <1>7, <1>9
  <2>5. [Owners(a)[s] EXCEPT !.adopted = @ - tm, !.managed = @ - (q - tm)]
        = [free |-> a.positions[s] - AutoSum(a, s) - ManagedSum(a, s, "MANUAL"),
           adopted |-> ManagedSum(a, s, "MANUAL") - tm, managed |-> ManagedSum(a, s, "AUTO") - (q - tm),
           resting |-> AutoSum(a, s) - ManagedSum(a, s, "AUTO")]
    <3> DEFINE r == Owners(a)[s]  f == a.positions[s] - AutoSum(a, s) - ManagedSum(a, s, "MANUAL")
               d == ManagedSum(a, s, "MANUAL")  m == ManagedSum(a, s, "AUTO")
               t == AutoSum(a, s) - ManagedSum(a, s, "AUTO")  y == q - tm
    <3>1. r = [free |-> f, adopted |-> d, managed |-> m, resting |-> t]
      BY <1>10 DEF Split
    <3> HIDE DEF r, f, d, m, t, y
    <3>2. ByStrategy(r, tm, y) = [free |-> f, adopted |-> d - tm, managed |-> m - y, resting |-> t]
      BY <3>1, SplitMoves
    <3> QED BY <3>2 DEF ByStrategy, r, f, d, m, t, y
  <2> QED BY <2>1, <2>2, <2>3, <2>4, <2>5, Zenon DEF Split
<1>12. tm \in 0..q /\ tm <= Owners(a)[s].adopted /\ q - tm <= Owners(a)[s].managed
  BY <1>1, <1>5, <1>7, <1>9, <1>10 DEF Split
<1>13. s \in DOMAIN Owners(a)
  BY <1>1 DEF Owners
<1>14. Owners(b) = [Owners(a) EXCEPT ![s].adopted = @ - tm, ![s].managed = @ - (q - tm)]
  <2> DEFINE O == Owners(a)  n == q - tm
  <2>1. O = [z \in Symbols |-> O[z]] /\ s \in Symbols
    BY <1>1 DEF Owners
  <2>2. O[s] = [free |-> O[s].free, adopted |-> O[s].adopted, managed |-> O[s].managed,
                resting |-> O[s].resting]
    BY <1>10 DEF Split
  <2> HIDE DEF O, n
  <2>3. [O EXCEPT ![s].adopted = @ - tm, ![s].managed = @ - n]
        = [O EXCEPT ![s] = [O[s] EXCEPT !.adopted = @ - tm, !.managed = @ - n]]
    BY <2>1, <2>2
  <2> QED BY <1>10, <1>11, <2>3 DEF O, n
<1>15. StrategyMove(a, b, s, q)
  BY <1>12, <1>14 DEF StrategyMove
<1> QED BY <1>15 DEF b, s, q

\* A manual sale takes free shares, then resting ones.
LEMMA ManualSaleOwners ==
  ASSUME ~WarmUp, NEW a, GoodAccount(a), NEW o \in OrderRecord,
         AutoSum(a, o.symbol) + ManagedSum(a, o.symbol, "MANUAL") <= a.positions[o.symbol],
         o.quantity <= a.positions[o.symbol] - StrategyQuantity(a, o.symbol),
         NEW manual, manual = a.positions[o.symbol] - AutoQuantity(a, o.symbol),
         NEW n, n = (IF o.quantity <= manual THEN 0 ELSE o.quantity - manual),
         NEW taken \in Takings(a.auto[o.symbol],
                               DOMAIN a.auto[o.symbol] \ DOMAIN a.managed[o.symbol], n),
         GoodAccount(Sold(a, o, taken))
  PROVE  ManualMove(a, Sold(a, o, taken), o.symbol, o.quantity)
<1> DEFINE b == Sold(a, o, taken)
           s == o.symbol
           q == o.quantity
           P == a.positions[s]
           A == AutoSum(a, s)
           M == ManagedSum(a, s, "AUTO")
           U == ManagedSum(a, s, "MANUAL")
           from == DOMAIN a.auto[s] \ DOMAIN a.managed[s]
           x == IF q <= Owners(a)[s].free THEN q ELSE Owners(a)[s].free
<1>1. /\ s \in Symbols /\ q \in Nat /\ LotsOK(a.auto[s]) /\ LotsOK(a.managed[s]) /\ P \in Nat
  BY DEF OrderRecord, GoodAccount, GoodRecord, DurableOK
<1>2. /\ A \in Nat /\ M \in Nat /\ U \in Nat /\ M <= A /\ A + U <= P /\ manual = P - A
      /\ q <= P - (U + M)
      /\ AutoIn(a, s) \in [LotNumbers -> Nat] /\ ManagedIn(a, s, "AUTO") \in [LotNumbers -> Nat]
      /\ ManagedIn(a, s, "MANUAL") \in [LotNumbers -> Nat]
  BY <1>1, OwnersAre
<1>3. \A i \in DOMAIN a.managed[s] :
         IF a.managed[s][i].origin = "AUTO"
         THEN i \in DOMAIN a.auto[s] /\ a.auto[s][i] = a.managed[s][i]
         ELSE i \notin DOMAIN a.auto[s] /\ a.managed[s][i].origin = "MANUAL"
  BY <1>1 DEF GoodAccount, SharedLots, LotsOK, Lot
<1> DEFINE R == SumFunction(SharesIn(a.auto[s], from))
<1>4. A = R + M /\ R \in Nat
  <2>1. \A i \in LotNumbers : AutoIn(a, s)[i] = SharesIn(a.auto[s], from)[i] + ManagedIn(a, s, "AUTO")[i]
    <3>1. \A i \in DOMAIN a.auto[s] : a.auto[s][i].quantity \in Nat
      BY <1>1 DEF LotsOK, Lot
    <3>2. \A i \in DOMAIN a.managed[s] : a.managed[s][i].quantity \in Nat
      BY <1>1 DEF LotsOK, Lot
    <3> QED BY <1>3, <3>1, <3>2 DEF AutoIn, ManagedIn, SharesIn, Of
  <2>2. SharesIn(a.auto[s], from) \in [LotNumbers -> Nat] /\ R \in Nat
    BY <1>1, LotTotals
  <2> DEFINE f == AutoIn(a, s)  k == SharesIn(a.auto[s], from)  e == ManagedIn(a, s, "AUTO")
  <2>3. f \in [LotNumbers -> Int] /\ k \in [LotNumbers -> Int] /\ e \in [LotNumbers -> Int]
        /\ \A i \in LotNumbers : f[i] = k[i] + e[i]
    <3>1. \A D, g : g \in [D -> Nat] => g \in [D -> Int]
      OBVIOUS
    <3>2. f \in [LotNumbers -> Nat] /\ k \in [LotNumbers -> Nat] /\ e \in [LotNumbers -> Nat]
      BY <1>2, <2>2, Zenon
    <3>3. \A i \in LotNumbers : f[i] = k[i] + e[i]
      BY <2>1
    <3> HIDE DEF f, k, e
    <3> QED BY <3>1, <3>2, <3>3, Zenon
  <2>4. A = SumFunction(f) /\ M = SumFunction(e) /\ R = SumFunction(k)
    BY DEF AutoSum, ManagedSum
  <2> HIDE DEF f, k, e, A, M, R
  <2>5. SumFunction(f) = SumFunction(k) + SumFunction(e)
    BY <2>3, LotNumbersFinite, SumsAddUp
  <2> QED BY <2>2, <2>4, <2>5
<1>5. U > 0 => R = 0
  <2>1. CASE Of(a, s, "MANUAL") = {}
    <3>1. \A i \in LotNumbers : ManagedIn(a, s, "MANUAL")[i] = 0
      BY <2>1 DEF ManagedIn, SharesIn
    <3>2. U = 0
      <4>1. ManagedIn(a, s, "MANUAL") \in [LotNumbers -> Int]
        BY <1>2
      <4> QED BY <3>1, <4>1, LotNumbersFinite, SumOfZeros DEF ManagedSum
    <3> QED BY <3>2
  <2>2. CASE Of(a, s, "MANUAL") # {}
    <3>1. DOMAIN a.auto[s] \subseteq DOMAIN a.managed[s]
      BY <1>1, <2>2 DEF GoodAccount, Together, Adopting, Of
    <3>2. from = {}
      BY <3>1
    <3>3. \A i \in LotNumbers : SharesIn(a.auto[s], from)[i] = 0
      BY <3>2 DEF SharesIn
    <3>4. SharesIn(a.auto[s], from) \in [LotNumbers -> Int]
      BY <3>2 DEF SharesIn
    <3> DEFINE k == SharesIn(a.auto[s], from)
    <3> HIDE DEF k
    <3>5. SumFunction(k) = 0
      BY <3>3, <3>4, LotNumbersFinite, SumOfZeros DEF k
    <3> QED BY <3>5 DEF k
  <2> QED BY <2>1, <2>2
<1>6. n \in Nat /\ n <= R
  <2> HIDE DEF P, A, M, U, R, q
  <2>1. n = (IF q <= manual THEN 0 ELSE q - manual)
    BY DEF q
  <2> QED BY <1>1, <1>2, <1>4, <1>5, <2>1
<1>7. /\ DOMAIN taken = from /\ SumFunction(taken) = n /\ from \subseteq DOMAIN a.auto[s]
      /\ \A i \in from : taken[i] \in Nat /\ taken[i] <= a.auto[s][i].quantity
  BY <1>1, <1>6, TakesAll
<1>8. TakenFrom(taken, a.auto[s]) /\ TakenFrom(taken, a.managed[s])
  BY <1>7 DEF TakenFrom
<1>9. /\ SumFunction(TakenIn(taken, DOMAIN a.auto[s])) = n
      /\ SumFunction(TakenIn(taken, Of(a, s, "AUTO"))) = 0
      /\ SumFunction(TakenIn(taken, Of(a, s, "MANUAL"))) = 0
  <2>1. taken \in [DOMAIN taken -> Nat] /\ DOMAIN taken \subseteq DOMAIN a.auto[s]
        /\ DOMAIN taken \subseteq LotNumbers
    BY <1>1, <1>7 DEF Takings, LotsOK, LotNumbers
  <2>2. \A origin : Of(a, s, origin) \cap DOMAIN taken = {}
    BY <1>7 DEF Of
  <2>3. SumFunction(TakenIn(taken, DOMAIN a.auto[s])) = SumFunction(taken)
    BY <2>1, TakenSums
  <2>4. ASSUME NEW origin PROVE SumFunction(TakenIn(taken, Of(a, s, origin))) = 0
    BY <2>1, <2>2, TakenSums
  <2> QED BY <1>7, <2>3, <2>4
<1>10. /\ b.positions[s] = P - q
       /\ A = AutoSum(b, s) + n
       /\ M = ManagedSum(b, s, "AUTO") + 0
       /\ U = ManagedSum(b, s, "MANUAL") + 0
       /\ \A z \in Symbols \ {s} :
              /\ b.positions[z] = a.positions[z] /\ AutoSum(b, z) = AutoSum(a, z)
              /\ \A origin : ManagedSum(b, z, origin) = ManagedSum(a, z, origin)
  BY <1>8, <1>9, SoldSums
<1> HIDE DEF b, s, q
<1>11. GoodAccount(b)
  BY DEF b
<1>12. AutoSum(b, s) \in Nat /\ ManagedSum(b, s, "AUTO") \in Nat /\ ManagedSum(b, s, "MANUAL") \in Nat
  BY <1>1, <1>11, OwnersAre
<1>13. /\ Owners(b) = [Owners(a) EXCEPT ![s] = Split(b.positions[s], AutoSum(b, s),
                              ManagedSum(b, s, "MANUAL"), ManagedSum(b, s, "AUTO"))]
       /\ Owners(a)[s] = Split(P, A, U, M)
  BY <1>1, <1>10, <1>11, OwnersMove
<1> HIDE DEF P, A, M, U, R
<1>14. /\ Owners(a)[s].free = P - A - U /\ Owners(a)[s].resting = A - M
       /\ x = (IF q <= P - A - U THEN q ELSE P - A - U)
  BY <1>13 DEF Split
<1>15. n = q - x /\ x \in Nat
  <2>1. n = (IF q <= manual THEN 0 ELSE q - manual)
    BY DEF q
  <2> HIDE DEF x
  <2>2. CASE U > 0
    BY <2>1, <2>2, <1>1, <1>2, <1>4, <1>5, <1>14
  <2>3. CASE U = 0
    BY <2>1, <2>3, <1>1, <1>2, <1>4, <1>5, <1>14
  <2> QED BY <2>2, <2>3, <1>2
<1>16. q - x <= Owners(a)[s].resting
  BY <1>2, <1>4, <1>6, <1>14, <1>15
<1> HIDE DEF x
<1>17. Split(b.positions[s], AutoSum(b, s), ManagedSum(b, s, "MANUAL"), ManagedSum(b, s, "AUTO"))
       = [Owners(a)[s] EXCEPT !.free = @ - x, !.resting = @ - (q - x)]
  <2>1. b.positions[s] - AutoSum(b, s) - ManagedSum(b, s, "MANUAL") = P - A - U - x
    BY <1>1, <1>2, <1>6, <1>10, <1>12, <1>15
  <2>2. ManagedSum(b, s, "MANUAL") = U /\ ManagedSum(b, s, "AUTO") = M
    BY <1>2, <1>10, <1>12
  <2>3. AutoSum(b, s) - ManagedSum(b, s, "AUTO") = A - M - (q - x)
    BY <1>1, <1>2, <1>6, <1>10, <1>12, <1>15
  <2>4. [Owners(a)[s] EXCEPT !.free = @ - x, !.resting = @ - (q - x)]
        = [free |-> P - A - U - x, adopted |-> U, managed |-> M, resting |-> A - M - (q - x)]
    <3> DEFINE r == Owners(a)[s]  f == P - A - U  t == A - M  y == q - x
    <3>1. r = [free |-> f, adopted |-> U, managed |-> M, resting |-> t]
      BY <1>13 DEF Split
    <3> HIDE DEF r, f, t, y
    <3>2. ByHand(r, x, y) = [free |-> f - x, adopted |-> U, managed |-> M, resting |-> t - y]
      BY <3>1, SplitMoves
    <3> QED BY <3>2 DEF ByHand, r, f, t, y
  <2> QED BY <2>1, <2>2, <2>3, <2>4, Zenon DEF Split
<1>18. Owners(b) = [Owners(a) EXCEPT ![s].free = @ - x, ![s].resting = @ - (q - x)]
  <2> DEFINE O == Owners(a)  k == q - x
  <2>1. O = [z \in Symbols |-> O[z]] /\ s \in Symbols
    BY <1>1 DEF Owners
  <2>2. O[s] = [free |-> O[s].free, adopted |-> O[s].adopted, managed |-> O[s].managed,
                resting |-> O[s].resting]
    BY <1>13 DEF Split
  <2> HIDE DEF O, k
  <2>3. [O EXCEPT ![s].free = @ - x, ![s].resting = @ - k]
        = [O EXCEPT ![s] = [O[s] EXCEPT !.free = @ - x, !.resting = @ - k]]
    BY <2>1, <2>2
  <2> QED BY <1>13, <1>17, <2>3 DEF O, k
<1>19. ManualMove(a, b, s, q)
  BY <1>16, <1>18 DEF ManualMove, x
<1> QED BY <1>19 DEF b, s, q

-----------------------------------------------------------------------------
(* The ledger.                                                               *)

\* Every share has one owner.
FreeOK(a) == \A s \in Symbols : Owners(a)[s] \in Ledger!Owned
Ownership == FreeOK(acct) /\ FreeOK(Restored(disk))

\* One lot.
LEMMA OneLot ==
  ASSUME NEW lots, LotsOK(lots), NEW i \in DOMAIN lots
  PROVE  SumFunction(SharesIn(lots, {i})) = lots[i].quantity
<1> DEFINE n == lots[i].quantity
           f == [j \in {i} |-> n]
           w == SharesIn(lots, {i})
<1>1. n \in Int /\ {i} \subseteq LotNumbers
  BY DEF LotsOK, Lot, LotNumbers
<1>2. w = [j \in LotNumbers |-> IF j \in {i} THEN f[j] ELSE 0] /\ f \in [{i} -> Int]
  BY <1>1 DEF SharesIn
<1>3. SumFunction(f) = n
  <2> HIDE DEF n
  <2> QED BY <1>1, SumOfOne
<1> HIDE DEF f, w
<1>4. SumFunction(f) = SumFunction(w)
  BY <1>1, <1>2, WideSum
<1> QED BY <1>3, <1>4 DEF w

\* The owners of a good account are counted in natural numbers, if the free
\* shares are.
LEMMA FreeShares ==
  ASSUME NEW a, GoodAccount(a), NEW s \in Symbols
  PROVE  /\ Owners(a)[s] = Split(a.positions[s], AutoSum(a, s), ManagedSum(a, s, "MANUAL"),
                                 ManagedSum(a, s, "AUTO"))
         /\ Owners(a)[s] \in Ledger!Owned <=>
              AutoSum(a, s) + ManagedSum(a, s, "MANUAL") <= a.positions[s]
<1>1. /\ AutoSum(a, s) \in Nat /\ ManagedSum(a, s, "MANUAL") \in Nat /\ ManagedSum(a, s, "AUTO") \in Nat
      /\ ManagedSum(a, s, "AUTO") <= AutoSum(a, s) /\ a.positions[s] \in Nat
  BY OwnersAre DEF GoodAccount, GoodRecord, DurableOK
<1>2. Owners(a)[s] = Split(a.positions[s], AutoSum(a, s), ManagedSum(a, s, "MANUAL"),
                                 ManagedSum(a, s, "AUTO"))
  BY OwnersSplit
<1>3. ASSUME NEW p \in Nat, NEW x \in Nat, NEW m \in Nat, NEW u \in Nat, m <= x
      PROVE  Split(p, x, u, m) \in Ledger!Owned <=> x + u <= p
  BY <1>3 DEF Split, Ledger!Owned
<1> QED BY <1>1, <1>2, <1>3

\* Without lots nothing is owned by a strategy.
LEMMA NoLotsSum ==
  ASSUME NEW a, NEW s
  PROVE  /\ a.managed[s] = NoLots => \A origin : ManagedSum(a, s, origin) = 0
         /\ a.auto[s] = NoLots => AutoSum(a, s) = 0
<1> DEFINE zero == [i \in LotNumbers |-> 0]
<1>1. SumFunction(zero) = 0
  <2>1. zero \in [LotNumbers -> Int] /\ \A i \in LotNumbers : zero[i] = 0
    OBVIOUS
  <2> HIDE DEF zero
  <2> QED BY <2>1, LotNumbersFinite, SumOfZeros
<1>2. ASSUME a.managed[s] = NoLots, NEW origin PROVE ManagedIn(a, s, origin) = zero
  <2>1. Of(a, s, origin) = {}
    BY <1>2 DEF Of, NoLots
  <2> QED BY <2>1 DEF ManagedIn, SharesIn
<1>3. ASSUME a.auto[s] = NoLots PROVE AutoIn(a, s) = zero
  <2>1. DOMAIN a.auto[s] = {}
    BY <1>3 DEF NoLots
  <2> QED BY <2>1 DEF AutoIn, SharesIn
<1> HIDE DEF zero
<1> QED BY <1>1, <1>2, <1>3 DEF ManagedSum, AutoSum

\* A restart releases the shares that a strategy looked after.
LEMMA RestoredOwners ==
  ASSUME NEW d, GoodRecord(d), NEW s \in Symbols
  PROVE  LET r == Restored(d) IN
         /\ GoodAccount(r)
         /\ Owners(r)[s] = [free |-> d.positions[s] - AutoSum(d, s), adopted |-> 0, managed |-> 0,
                            resting |-> AutoSum(d, s)]
         /\ AutoSum(d, s) \in Nat
<1> DEFINE r == Restored(d)
<1>1. GoodAccount(r)
  BY RestoredGood
<1>2. r.positions = d.positions /\ r.auto = d.auto /\ r.managed[s] = NoLots
  BY DEF Restored
<1> HIDE DEF r
<1>3. AutoSum(r, s) = AutoSum(d, s)
  BY <1>2 DEF AutoSum, AutoIn
<1>4. ManagedSum(r, s, "MANUAL") = 0 /\ ManagedSum(r, s, "AUTO") = 0
  BY <1>2, NoLotsSum
<1>5. AutoSum(r, s) \in Nat /\ d.positions[s] \in Nat
  BY <1>1, OwnersAre DEF GoodRecord, DurableOK
<1>6. Owners(r)[s] = Split(r.positions[s], AutoSum(r, s), 0, 0)
  BY <1>1, <1>4, FreeShares
<1>7. \A p, x \in Nat : Split(p, x, 0, 0) = [free |-> p - x, adopted |-> 0, managed |-> 0, resting |-> x]
  BY DEF Split
<1> QED BY <1>1, <1>2, <1>3, <1>5, <1>6, <1>7 DEF r

\* What a restart would bring back of a saved account is what the ledger releases.
LEMMA ReleasedOwners ==
  ASSUME NEW a, GoodAccount(a)
  PROVE  /\ Owners(Restored(Durable(a))) = Ledger!Released(Owners(a))
         /\ FreeOK(a) => FreeOK(Restored(Durable(a)))
<1> DEFINE d == Durable(a)
<1>1. GoodRecord(d)
  BY DurableGood
<1>2. d.positions = a.positions /\ d.auto = a.auto
  BY DEF Durable
<1> HIDE DEF d
<1>3. ASSUME NEW s \in Symbols
      PROVE  /\ Owners(Restored(d))[s] =
                  [free |-> Owners(a)[s].free + Owners(a)[s].adopted, adopted |-> 0,
                   managed |-> 0, resting |-> Owners(a)[s].managed + Owners(a)[s].resting]
             /\ Owners(a)[s] \in Ledger!Owned => Owners(Restored(d))[s] \in Ledger!Owned
  <2> DEFINE P == a.positions[s]  A == AutoSum(a, s)  U == ManagedSum(a, s, "MANUAL")
             M == ManagedSum(a, s, "AUTO")
  <2>1. A \in Nat /\ U \in Nat /\ M \in Nat /\ P \in Nat
    BY OwnersAre DEF GoodAccount, GoodRecord, DurableOK
  <2>2. Owners(a)[s] = Split(P, A, U, M)
    BY FreeShares
  <2>3. AutoSum(d, s) = A /\ d.positions[s] = P
    BY <1>2 DEF AutoSum, AutoIn
  <2>4. Owners(Restored(d))[s] = [free |-> P - A, adopted |-> 0, managed |-> 0, resting |-> A]
    BY <1>1, <2>3, RestoredOwners
  <2> HIDE DEF P, A, U, M
  <2>5. P - A = (P - A - U) + U /\ A = M + (A - M)
    BY <2>1
  <2>6. Owners(a)[s].free = P - A - U /\ Owners(a)[s].adopted = U /\ Owners(a)[s].managed = M
        /\ Owners(a)[s].resting = A - M
    BY <2>2 DEF Split
  <2>7. Owners(a)[s] \in Ledger!Owned => P - A \in Nat
    BY <2>1, <2>6 DEF Ledger!Owned
  <2> QED BY <2>1, <2>4, <2>5, <2>6, <2>7 DEF Ledger!Owned
<1>4. Owners(Restored(d)) = Ledger!Released(Owners(a))
  BY <1>3 DEF Owners, Ledger!Released
<1> QED BY <1>3, <1>4 DEF d, FreeOK

-----------------------------------------------------------------------------
(* Steps of the ledger.                                                      *)

\* A sale changes the owners of one symbol.
IsLedger(l) == l = [z \in Symbols |-> l[z]] /\ \A z \in Symbols : l[z] \in Ledger!Owned
SoldByStrategy(l, s, x, y) == [l EXCEPT ![s].adopted = @ - x, ![s].managed = @ - y]
SoldByHand(l, s, x, y) == [l EXCEPT ![s].free = @ - x, ![s].resting = @ - y]
\* It changes the record of owners of one symbol.
LEMMA TwoUpdates ==
  ASSUME NEW l, IsLedger(l), NEW s \in Symbols, NEW x, NEW y
  PROVE  /\ SoldByStrategy(l, s, x, y) = [l EXCEPT ![s] = ByStrategy(l[s], x, y)]
         /\ SoldByHand(l, s, x, y) = [l EXCEPT ![s] = ByHand(l[s], x, y)]
BY DEF ByStrategy, ByHand, Ledger!Owned, IsLedger, SoldByStrategy, SoldByHand

\* Whatever an order moves, no owner is left with less than nothing.
LEMMA MovesFree ==
  ASSUME NEW a, FreeOK(a), NEW b, NEW s \in Symbols, NEW q \in Nat, Moves(a, b, s, q)
  PROVE  FreeOK(b)
<1> DEFINE O == Owners(a)
<1>1. O = [z \in Symbols |-> O[z]] /\ \A z \in Symbols : O[z] \in Ledger!Owned
  BY DEF Owners, FreeOK
<1>2. O[s] = [free |-> O[s].free, adopted |-> O[s].adopted, managed |-> O[s].managed,
              resting |-> O[s].resting]
      /\ O[s].free \in Nat /\ O[s].adopted \in Nat /\ O[s].managed \in Nat /\ O[s].resting \in Nat
  BY <1>1 DEF Ledger!Owned
<1> HIDE DEF O
<1>3. CASE Unmoved(a, b)
  BY <1>3 DEF Unmoved, FreeOK
<1>4. CASE BuyMove(a, b, s, q)
  <2>1. PICK owner \in {"free", "adopted", "managed"} : Owners(b) = [O EXCEPT ![s][owner] = @ + q]
    BY <1>4 DEF BuyMove, O
  <2>2. [O[s] EXCEPT ![owner] = @ + q] \in Ledger!Owned
    BY <1>2 DEF Ledger!Owned
  <2>3. Owners(b) = [O EXCEPT ![s] = [O[s] EXCEPT ![owner] = @ + q]]
    BY <1>1, <2>1
  <2>4. \A z \in Symbols : Owners(b)[z] \in Ledger!Owned
    BY <1>1, <2>2, <2>3
  <2> QED BY <2>4 DEF FreeOK
<1>5. CASE StrategyMove(a, b, s, q)
  <2>1. PICK x \in 0..q :
          /\ x <= O[s].adopted /\ q - x <= O[s].managed
          /\ Owners(b) = [O EXCEPT ![s].adopted = @ - x, ![s].managed = @ - (q - x)]
    BY <1>5 DEF StrategyMove, O
  <2> DEFINE y == q - x  r == O[s]  n == ByStrategy(r, x, y)
  <2>2. y \in Nat /\ x \in Nat /\ y <= r.managed
    BY <2>1
  <2>3. Owners(b) = [O EXCEPT ![s] = n]
    <3> HIDE DEF y
    <3>1. Owners(b) = SoldByStrategy(O, s, x, y)
      BY <2>1 DEF y, SoldByStrategy
    <3>2. IsLedger(O)
      BY <1>1 DEF IsLedger
    <3> QED BY <3>1, <3>2, TwoUpdates
  <2>4. n \in Ledger!Owned
    <3> HIDE DEF y
    <3>1. n = [free |-> r.free, adopted |-> r.adopted - x, managed |-> r.managed - y, resting |-> r.resting]
      BY <1>2, SplitMoves
    <3> HIDE DEF n, r
    <3>2. r.free \in Nat /\ r.adopted - x \in Nat /\ r.managed - y \in Nat /\ r.resting \in Nat
      BY <1>2, <2>1, <2>2 DEF r
    <3> QED BY <3>1, <3>2 DEF Ledger!Owned
  <2> HIDE DEF n
  <2>5. \A z \in Symbols : Owners(b)[z] \in Ledger!Owned
    BY <1>1, <2>3, <2>4
  <2> QED BY <2>5 DEF FreeOK
<1>6. CASE ManualMove(a, b, s, q)
  <2> DEFINE x == IF q <= O[s].free THEN q ELSE O[s].free
             y == q - x  r == O[s]  n == ByHand(r, x, y)
  <2>1. /\ y <= r.resting
        /\ Owners(b) = [O EXCEPT ![s].free = @ - x, ![s].resting = @ - y]
    BY <1>6 DEF ManualMove, O
  <2>2. y \in Nat /\ x \in Nat /\ x <= r.free
    BY <1>2
  <2>3. Owners(b) = [O EXCEPT ![s] = n]
    <3> HIDE DEF x, y
    <3>1. Owners(b) = SoldByHand(O, s, x, y)
      BY <2>1 DEF SoldByHand
    <3>2. IsLedger(O)
      BY <1>1 DEF IsLedger
    <3> QED BY <3>1, <3>2, TwoUpdates
  <2>4. n \in Ledger!Owned
    <3> HIDE DEF y, x
    <3>1. n = [free |-> r.free - x, adopted |-> r.adopted, managed |-> r.managed, resting |-> r.resting - y]
      BY <1>2, SplitMoves
    <3> HIDE DEF n, r
    <3>2. r.free - x \in Nat /\ r.adopted \in Nat /\ r.managed \in Nat /\ r.resting - y \in Nat
      BY <1>2, <2>1, <2>2 DEF r
    <3> QED BY <3>1, <3>2 DEF Ledger!Owned
  <2> HIDE DEF n
  <2>5. \A z \in Symbols : Owners(b)[z] \in Ledger!Owned
    BY <1>1, <2>3, <2>4
  <2> QED BY <2>5 DEF FreeOK
<1> QED BY <1>3, <1>4, <1>5, <1>6 DEF Moves

\* Logging an order moves no share.
LEMMA LoggedOwners ==
  ASSUME NEW a, GoodAccount(a), NEW o \in OrderRecord
  PROVE  /\ Logged(a, o).positions = a.positions /\ Logged(a, o).auto = a.auto
         /\ Logged(a, o).managed = a.managed
         /\ Owners(Logged(a, o)) = Owners(a)
<1> DEFINE b == Logged(a, o)
<1>1. b.positions = a.positions /\ b.auto = a.auto /\ b.managed = a.managed
  BY DEF Logged, GoodAccount, Fields
<1> HIDE DEF b
<1>2. Owners(b) = Owners(a)
  BY <1>1 DEF Owners, Managed, AutoQuantity
<1> QED BY <1>1, <1>2 DEF b

\* An order moves shares of its own owner only.
LEMMA ExecutionsOwners ==
  ASSUME ~WarmUp, NEW a, GoodAccount(a), FreeOK(a), NEW o, NewOrder(a, o), NEW lot, NEW blocked,
         NEW next \in Executions(a, o, lot, blocked)
  PROVE  Moves(a, next, o.symbol, o.quantity)
<1> DEFINE s == o.symbol  q == o.quantity
<1>1. o \in OrderRecord /\ s \in Symbols /\ q \in Nat /\ GoodAccount(next)
      /\ [o EXCEPT !.filled = FALSE] \in OrderRecord
  BY ExecutionsGood DEF NewOrder, OrderRecord
<1>2. CASE ~Acceptable(a, o, lot, blocked)
  <2>1. next = Logged(a, [o EXCEPT !.filled = FALSE])
    BY <1>2 DEF Executions
  <2> QED BY <1>1, <2>1, LoggedOwners DEF Moves, Unmoved
<1> DEFINE b == Logged(a, o)
<1>3. /\ GoodAccount(b) /\ b.positions = a.positions /\ b.auto = a.auto /\ b.managed = a.managed
      /\ Owners(b) = Owners(a)
  BY <1>1, LoggedGood, LoggedOwners DEF NewOrder
<1>4. FreeOK(b)
  BY <1>3 DEF FreeOK
<1>5. AutoSum(b, s) + ManagedSum(b, s, "MANUAL") <= b.positions[s]
  BY <1>1, <1>3, <1>4, FreeShares DEF FreeOK
<1>6. LotsOK(b.managed[s])
  BY <1>1, <1>3 DEF GoodAccount
<1>7. \A n : (Unmoved(b, n) \/ BuyMove(b, n, s, q) \/ StrategyMove(b, n, s, q) \/ ManualMove(b, n, s, q))
         => Moves(a, n, s, q)
  BY <1>3 DEF Moves, Unmoved, BuyMove, StrategyMove, ManualMove
<1>8. CASE Acceptable(a, o, lot, blocked) /\ o.side = "BUY"
  <2>1. PICK i \in 1..MaxLots : /\ next = Bought(b, o, i)
                                /\ IsNextLot(i, DOMAIN a.auto[s] \cup DOMAIN a.managed[s])
    BY <1>8 DEF Executions
  <2>2. i \notin DOMAIN b.auto[s] \cup DOMAIN b.managed[s]
    BY <2>1, <1>3 DEF IsNextLot
  <2> HIDE DEF b
  <2>3. BuyMove(b, next, s, q)
    BY <1>1, <1>3, <2>1, <2>2, BoughtOwners
  <2> QED BY <2>3, <1>7
<1>9. CASE Acceptable(a, o, lot, blocked) /\ o.side # "BUY" /\ o.source = "STRATEGY"
  <2> DEFINE from == IF lot # NoLot THEN {lot} ELSE DOMAIN a.managed[s]
  <2>1. PICK taken \in Takings(b.managed[s], from, q) : next = Sold(b, o, taken)
    BY <1>3, <1>9 DEF Executions, Candidates, FromLots
  <2>2. from \subseteq DOMAIN b.managed[s] /\ q <= SumFunction(SharesIn(b.managed[s], from))
    <3>1. /\ q <= StrategyQuantity(b, s)
          /\ lot # NoLot => lot \in DOMAIN b.managed[s] /\ q <= b.managed[s][lot].quantity
      BY <1>3, <1>9 DEF Acceptable, StrategyQuantity
    <3> HIDE DEF b
    <3>2. CASE lot # NoLot
      <4>1. SumFunction(SharesIn(b.managed[s], {lot})) = b.managed[s][lot].quantity
        BY <1>6, <3>1, <3>2, OneLot
      <4>2. from = {lot}
        BY <3>2
      <4> HIDE DEF from, q, s
      <4> QED BY <3>1, <3>2, <4>1, <4>2
    <3>3. CASE lot = NoLot
      <4> DEFINE D == DOMAIN b.managed[s]
      <4>1. from = D
        BY <3>3, <1>3
      <4>2. LotTotal([i \in D |-> b.managed[s][i]]) = SumFunction(SharesIn(b.managed[s], D))
        BY <1>6, LotTotals
      <4>3. b.managed[s] = [i \in D |-> b.managed[s][i]]
        BY <1>6 DEF LotsOK
      <4>4. StrategyQuantity(b, s) = SumFunction(SharesIn(b.managed[s], D))
        BY <4>2, <4>3 DEF StrategyQuantity
      <4> HIDE DEF D, from, q, s
      <4>5. from \subseteq D
        BY <4>1
      <4> QED BY <3>1, <4>1, <4>4, <4>5 DEF D
    <3> QED BY <3>2, <3>3
  <2> HIDE DEF b, from
  <2>3. GoodAccount(Sold(b, o, taken))
    BY <1>1, <2>1
  <2>4. StrategyMove(b, next, s, q)
    BY <1>1, <1>3, <2>1, <2>2, <2>3, StrategySaleOwners
  <2> QED BY <2>4, <1>7
<1>10. CASE Acceptable(a, o, lot, blocked) /\ o.side # "BUY" /\ o.source # "STRATEGY"
  <2> DEFINE manual == b.positions[s] - AutoQuantity(b, s)
             n == IF q <= manual THEN 0 ELSE q - manual
  <2>0. AutoQuantity(b, s) = AutoQuantity(a, s) /\ StrategyQuantity(b, s) = StrategyQuantity(a, s)
    BY <1>3 DEF AutoQuantity, StrategyQuantity
  <2>1. PICK taken \in Takings(b.auto[s], DOMAIN b.auto[s] \ DOMAIN b.managed[s], n) :
          next = Sold(b, o, taken)
    BY <1>3, <1>10, <2>0 DEF Executions, Candidates, FromLots
  <2>2. q <= b.positions[s] - StrategyQuantity(b, s)
    BY <1>3, <1>10, <2>0 DEF Acceptable
  <2> HIDE DEF b, n, manual
  <2>3. GoodAccount(Sold(b, o, taken))
    BY <1>1, <2>1
  <2>4. manual = b.positions[s] - AutoQuantity(b, s) /\ n = (IF q <= manual THEN 0 ELSE q - manual)
    BY DEF manual, n
  <2>5. ManualMove(b, next, s, q)
    BY <1>1, <1>3, <1>5, <2>1, <2>2, <2>3, <2>4, ManualSaleOwners
  <2> QED BY <2>5, <1>7
<1> QED BY <1>2, <1>8, <1>9, <1>10

\* What a strategy looks after once it has begun.
LEMMA BegunSums ==
  ASSUME NEW a, GoodAccount(a), NEW strategy \in Strategies \cup {Default},
         NEW scope \in Scopes, NEW next \in Begun(a, strategy, scope), NEW s \in Symbols,
         AutoSum(a, s) <= a.positions[s]
  PROVE  /\ next.positions[s] = a.positions[s] /\ AutoSum(next, s) = AutoSum(a, s)
         /\ ManagedSum(next, s, "AUTO") \in {0, AutoSum(a, s)}
         /\ ManagedSum(next, s, "MANUAL") \in {0, a.positions[s] - AutoSum(a, s)}
<1>1. PICK ids \in [Symbols -> 1..MaxLots] :
        /\ \A z \in Symbols : IsNextLot(ids[z], DOMAIN a.auto[z])
        /\ next = [a EXCEPT !.scope = scope, !.context = strategy,
                            !.symbols = Targets[strategy],
                            !.managed = [z \in Symbols |-> ManagedLots(a, strategy, scope, z, ids[z])]]
  BY DEF Begun
<1> DEFINE i == ids[s]
           lot == [quantity |-> ManualQuantity(a, s), context |-> strategy, origin |-> "MANUAL"]
           full == WithLot(a.auto[s], i, lot)
<1>2. /\ next.managed[s] = ManagedLots(a, strategy, scope, s, i)
      /\ next.positions = a.positions /\ next.auto = a.auto
  BY <1>1 DEF GoodAccount, Fields
<1>3. GoodAccount(next)
  BY BegunGood
<1>4. AutoSum(next, s) = AutoSum(a, s)
  BY <1>2 DEF AutoSum, AutoIn
<1>5. LotsOK(a.auto[s]) /\ \A j \in DOMAIN a.auto[s] : a.auto[s][j].origin = "AUTO"
  BY DEF GoodAccount, GoodRecord, DurableOK, AutoOrigins
<1>6. i \in LotNumbers /\ i \notin DOMAIN a.auto[s]
  BY <1>1 DEF IsNextLot, LotNumbers
<1>7. ManualQuantity(a, s) = a.positions[s] - AutoSum(a, s)
  <2>1. a.positions[s] \in Nat /\ AutoQuantity(a, s) = AutoSum(a, s) /\ AutoSum(a, s) \in Nat
    BY OwnersAre DEF GoodAccount, GoodRecord, DurableOK
  <2> QED BY <2>1 DEF ManualQuantity
<1>8. \/ next.managed[s] = NoLots
      \/ next.managed[s] = a.auto[s]
      \/ next.managed[s] = full
      \/ next.managed[s] = WithLot(NoLots, i, lot)
  BY <1>2 DEF ManagedLots
<1>9. next.managed[s] # WithLot(NoLots, i, lot) \/ a.auto[s] = NoLots \/ next.managed[s] = full
  BY <1>2 DEF ManagedLots, WithLot, NoLots
<1>10. CASE next.managed[s] = NoLots
  <2>1. \A origin : ManagedSum(next, s, origin) = 0
    BY <1>10, NoLotsSum
  <2> QED BY <1>2, <1>4, <2>1
<1>11. CASE next.managed[s] = a.auto[s]
  <2>1. Of(next, s, "AUTO") = DOMAIN a.auto[s] /\ Of(next, s, "MANUAL") = {}
    BY <1>5, <1>11 DEF Of
  <2>2. ManagedIn(next, s, "AUTO") = AutoIn(a, s)
    BY <1>11, <2>1 DEF ManagedIn, AutoIn
  <2>3. ManagedSum(next, s, "MANUAL") = 0
    <3>1. \A j \in LotNumbers : ManagedIn(next, s, "MANUAL")[j] = 0
      BY <2>1 DEF ManagedIn, SharesIn
    <3>2. ManagedIn(next, s, "MANUAL") \in [LotNumbers -> Int]
      BY <2>1 DEF ManagedIn, SharesIn
    <3> QED BY <3>1, <3>2, LotNumbersFinite, SumOfZeros DEF ManagedSum
  <2> QED BY <1>2, <1>4, <2>2, <2>3 DEF ManagedSum, AutoSum
<1>12. CASE next.managed[s] = full
  <2>1. Of(next, s, "AUTO") = DOMAIN a.auto[s] /\ Of(next, s, "MANUAL") = {i}
    BY <1>5, <1>6, <1>12 DEF Of, WithLot
  <2>2. ManagedIn(next, s, "AUTO") = AutoIn(a, s)
    BY <1>5, <1>6, <1>12, <2>1 DEF ManagedIn, AutoIn, SharesIn, WithLot
  <2>3. LotsOK(next.managed[s]) /\ i \in DOMAIN next.managed[s]
        /\ next.managed[s][i].quantity = ManualQuantity(a, s)
    BY <1>3, <1>12 DEF GoodAccount, WithLot
  <2>4. ManagedSum(next, s, "MANUAL") = ManualQuantity(a, s)
    <3>1. SumFunction(SharesIn(next.managed[s], {i})) = next.managed[s][i].quantity
      <4> HIDE DEF i
      <4> QED BY <2>3, OneLot
    <3> QED BY <2>1, <2>3, <3>1 DEF ManagedSum, ManagedIn
  <2>5. ManagedSum(next, s, "AUTO") = AutoSum(a, s)
    BY <2>2 DEF ManagedSum, AutoSum
  <2> QED BY <1>2, <1>4, <1>7, <2>4, <2>5
<1> QED BY <1>8, <1>9, <1>10, <1>11, <1>12

\* Taking up a strategy or a scope redraws the two lines and turns no share
\* bought by hand into one bought by a strategy.
LEMMA BegunOwners ==
  ASSUME NEW a, GoodAccount(a), FreeOK(a), NEW strategy \in Strategies \cup {Default},
         NEW scope \in Scopes, NEW next \in Begun(a, strategy, scope)
  PROVE  /\ FreeOK(next) /\ Ledger!Redrawn(Owners(a), Owners(next))
         /\ Ledger!Released(Owners(next)) = Ledger!Released(Owners(a))
<1>1. GoodAccount(next)
  BY BegunGood
<1>2. ASSUME NEW s \in Symbols
      PROVE  /\ Owners(next)[s] \in Ledger!Owned
             /\ Owners(next)[s].free + Owners(next)[s].adopted = Owners(a)[s].free + Owners(a)[s].adopted
             /\ Owners(next)[s].managed + Owners(next)[s].resting
                  = Owners(a)[s].managed + Owners(a)[s].resting
  <2> DEFINE P == a.positions[s]  A == AutoSum(a, s)  U == ManagedSum(a, s, "MANUAL")
             M == ManagedSum(a, s, "AUTO")
             V == ManagedSum(next, s, "MANUAL")  N == ManagedSum(next, s, "AUTO")
  <2>1. A \in Nat /\ U \in Nat /\ M \in Nat /\ P \in Nat
    BY OwnersAre DEF GoodAccount, GoodRecord, DurableOK
  <2>2. Owners(a)[s] = Split(P, A, U, M) /\ A + U <= P
    BY FreeShares DEF FreeOK
  <2>3. A <= P
    <3> HIDE DEF A, P, U
    <3> QED BY <2>1, <2>2
  <2>4. /\ next.positions[s] = P /\ AutoSum(next, s) = A
        /\ N \in {0, A} /\ V \in {0, P - A}
    BY <2>3, BegunSums
  <2>5. Owners(next)[s] = Split(next.positions[s], AutoSum(next, s), V, N)
    BY <1>1, FreeShares
  <2> HIDE DEF P, A, U, M, V, N
  <2>6. Owners(next)[s] = Split(P, A, V, N)
    BY <2>4, <2>5
  <2>7. \A p, x, u, m, v, n \in Int :
          /\ Split(p, x, v, n).free + Split(p, x, v, n).adopted
               = Split(p, x, u, m).free + Split(p, x, u, m).adopted
          /\ Split(p, x, v, n).managed + Split(p, x, v, n).resting
               = Split(p, x, u, m).managed + Split(p, x, u, m).resting
    BY DEF Split
  <2>8. V \in Int /\ N \in Int
    BY <2>1, <2>4
  <2>9. Split(P, A, V, N) \in Ledger!Owned
    BY <2>1, <2>3, <2>4 DEF Split, Ledger!Owned
  <2> QED BY <2>1, <2>2, <2>6, <2>7, <2>8, <2>9
<1>3. FreeOK(next) /\ Ledger!Redrawn(Owners(a), Owners(next))
  BY <1>2 DEF FreeOK, Ledger!Redrawn
<1>4. Ledger!Released(Owners(next)) = Ledger!Released(Owners(a))
  BY <1>2 DEF Ledger!Released
<1> QED BY <1>3, <1>4

\* Nobody's strategy owns a share.
AllFree == [Symbols -> [free : Nat, adopted : {0}, managed : {0}, resting : {0}]]
\* New assets are free.
LEMMA ReseededOwners ==
  ASSUME NEW seed \in [cash : Nat, positions : [Symbols -> Nat]],
         NEW b, GoodAccount(b), b.positions = seed.positions,
         b.auto = [s \in Symbols |-> NoLots], b.managed = [s \in Symbols |-> NoLots]
  PROVE  FreeOK(b) /\ Owners(b) \in AllFree /\ Ledger!Released(Owners(b)) = Owners(b)
<1> DEFINE O == Owners(b)
           Free(n) == [free |-> n, adopted |-> 0, managed |-> 0, resting |-> 0]
<1>1. ASSUME NEW s \in Symbols
      PROVE  O[s] = Free(seed.positions[s]) /\ seed.positions[s] \in Nat
  <2>1. AutoSum(b, s) = 0 /\ ManagedSum(b, s, "MANUAL") = 0 /\ ManagedSum(b, s, "AUTO") = 0
    BY NoLotsSum
  <2>2. O[s] = Split(b.positions[s], 0, 0, 0)
    BY <2>1, FreeShares
  <2>3. \A p \in Nat : Split(p, 0, 0, 0) = Free(p)
    BY DEF Split
  <2> HIDE DEF Free, O
  <2> QED BY <2>2, <2>3
<1>2. O = [s \in Symbols |-> O[s]]
  BY DEF Owners
<1>3. \A n \in Nat : /\ Free(n) \in [free : Nat, adopted : {0}, managed : {0}, resting : {0}]
                     /\ Free(n) \in Ledger!Owned
                     /\ [free |-> Free(n).free + Free(n).adopted, adopted |-> 0, managed |-> 0,
                         resting |-> Free(n).managed + Free(n).resting] = Free(n)
  BY DEF Ledger!Owned
<1> HIDE DEF O, Free
<1>4. O \in AllFree
  BY <1>1, <1>2, <1>3 DEF AllFree
<1>5. \A s \in Symbols : O[s] \in Ledger!Owned
  BY <1>1, <1>3
<1>6. Ledger!Released(O) = O
  <2>1. \A s \in Symbols : [free |-> O[s].free + O[s].adopted, adopted |-> 0, managed |-> 0,
                            resting |-> O[s].managed + O[s].resting] = O[s]
    BY <1>1, <1>3
  <2>2. Ledger!Released(O) = [s \in Symbols |-> [free |-> O[s].free + O[s].adopted, adopted |-> 0,
                              managed |-> 0, resting |-> O[s].managed + O[s].resting]]
    BY DEF Ledger!Released
  <2> QED BY <1>2, <2>1, <2>2
<1> QED BY <1>4, <1>5, <1>6 DEF O, FreeOK

\* A restart adds nothing to what is released already.
LEMMA ReleasedTwice ==
  ASSUME NEW d, GoodRecord(d), FreeOK(Restored(d))
  PROVE  Ledger!Released(Owners(Restored(d))) = Owners(Restored(d))
<1>1. ASSUME NEW s \in Symbols
      PROVE  Owners(Restored(d))[s] =
               [free |-> Owners(Restored(d))[s].free + Owners(Restored(d))[s].adopted, adopted |-> 0,
                managed |-> 0, resting |-> Owners(Restored(d))[s].managed + Owners(Restored(d))[s].resting]
  <2> DEFINE r == Owners(Restored(d))[s]  p == d.positions[s] - AutoSum(d, s)  x == AutoSum(d, s)
  <2>1. r = [free |-> p, adopted |-> 0, managed |-> 0, resting |-> x] /\ x \in Nat
    BY RestoredOwners
  <2>2. r \in Ledger!Owned
    BY DEF FreeOK
  <2> HIDE DEF r, p, x
  <2>3. r.free + r.adopted = p /\ r.managed + r.resting = x
    BY <2>1, <2>2 DEF Ledger!Owned
  <2> QED BY <2>1, <2>3 DEF r
<1> DEFINE O == Owners(Restored(d))
<1>2. O = [s \in Symbols |-> O[s]]
  BY DEF Owners
<1> HIDE DEF O
<1>3. O = [s \in Symbols |-> [free |-> O[s].free + O[s].adopted, adopted |-> 0,
                               managed |-> 0, resting |-> O[s].managed + O[s].resting]]
  <2>1. \A s \in Symbols : O[s] = [free |-> O[s].free + O[s].adopted, adopted |-> 0,
                               managed |-> 0, resting |-> O[s].managed + O[s].resting]
    BY <1>1 DEF O
  <2> QED BY <1>2, <2>1
<1> QED BY <1>3 DEF O, Ledger!Released

\* A change of the account, saved or rolled back, is one of the ledger.
LEMMA LedgerStep ==
  ASSUME Ownership, NEW next, GoodAccount(next), FreeOK(next), Saved(next) \/ RolledBack(next)
  PROVE  Ledger!Persisted(Owners(next)) /\ Ownership'
<1>1. /\ Owners(Restored(Durable(next))) = Ledger!Released(Owners(next))
      /\ FreeOK(Restored(Durable(next)))
  BY ReleasedOwners
<1>2. CASE Saved(next)
  <2>1. acct' = next /\ disk' = Durable(next)
    BY <1>2 DEF Saved
  <2>2. Owners(acct') = Owners(next) /\ Owners(Restored(disk')) = Ledger!Released(Owners(next))
    BY <1>1, <2>1
  <2>3. FreeOK(acct') /\ FreeOK(Restored(disk'))
    BY <1>1, <2>1
  <2> QED BY <2>2, <2>3 DEF Ledger!Persisted, Ownership
<1>3. CASE RolledBack(next)
  <2>1. acct' = acct /\ (disk' = disk \/ disk' = Durable(next))
    BY <1>3 DEF RolledBack
  <2>2. /\ Owners(acct') = Owners(acct)
        /\ Owners(Restored(disk')) \in {Owners(Restored(disk)), Ledger!Released(Owners(next))}
    BY <1>1, <2>1
  <2>3. FreeOK(acct') /\ FreeOK(Restored(disk'))
    BY <1>1, <2>1 DEF Ownership
  <2> QED BY <2>2, <2>3 DEF Ledger!Persisted, Ownership
<1> QED BY <1>2, <1>3

\* A step that keeps the owners apart and is one of the ledger.
LedgerStepTaken == Ownership' /\ [Ledger!Next]_<<Owners(acct), Owners(Restored(disk))>>

\* What an order does is a purchase or a sale of the ledger.
LEMMA LedgerOrder ==
  ASSUME ~WarmUp, GoodAccount(acct), Ownership, NEW o, NewOrder(acct, o),
         o.quantity \in Quantities \cup 1..Chunk, NEW lot, NEW blocked,
         NEW next \in Executions(acct, o, lot, blocked), Saved(next) \/ RolledBack(next)
  PROVE  LedgerStepTaken
<1> DEFINE s == o.symbol  q == o.quantity
<1>1. s \in Symbols /\ q \in Nat /\ GoodAccount(next) /\ FreeOK(acct)
  BY ExecutionsGood DEF NewOrder, OrderRecord, Ownership
<1>2. Moves(acct, next, s, q)
  BY <1>1, ExecutionsOwners
<1> HIDE DEF s, q
<1>3. FreeOK(next)
  BY <1>1, <1>2, MovesFree
<1>4. Ledger!Persisted(Owners(next)) /\ Ownership'
  BY <1>1, <1>3, LedgerStep
<1>5. q \in Quantities \cup 1..Chunk
  BY DEF q
<1>6. CASE Unmoved(acct, next)
  <2>1. Ledger!Persisted(Owners(acct))
    BY <1>4, <1>6 DEF Unmoved
  <2>2. Ledger!Redraw
    BY <2>1 DEF Ledger!Persisted, Ledger!Redraw
  <2> QED BY <1>4, <2>2 DEF Ledger!Next, LedgerStepTaken
<1>7. CASE BuyMove(acct, next, s, q)
  <2>1. Ledger!Buy(s, q)
    BY <1>4, <1>7 DEF BuyMove, Ledger!Buy
  <2> QED BY <1>1, <1>4, <1>5, <2>1 DEF Ledger!Next, LedgerStepTaken
<1>8. CASE StrategyMove(acct, next, s, q)
  <2>1. Ledger!StrategySale(s, q)
    BY <1>4, <1>8 DEF StrategyMove, Ledger!StrategySale
  <2> QED BY <1>1, <1>4, <1>5, <2>1 DEF Ledger!Next, LedgerStepTaken
<1>9. CASE ManualMove(acct, next, s, q)
  <2>1. Ledger!ManualSale(s, q)
    BY <1>4, <1>9 DEF ManualMove, Ledger!ManualSale
  <2> QED BY <1>1, <1>4, <1>5, <2>1 DEF Ledger!Next, LedgerStepTaken
<1> QED BY <1>2, <1>6, <1>7, <1>8, <1>9 DEF Moves

\* A new strategy or scope, saved or rolled back, redraws the ledger.
LEMMA LedgerRedraw ==
  ASSUME GoodAccount(acct), Ownership, NEW next, GoodAccount(next), FreeOK(next),
         Ledger!Redrawn(Owners(acct), Owners(next)),
         Ledger!Released(Owners(next)) = Ledger!Released(Owners(acct)),
         Saved(next) \/ RolledBack(next)
  PROVE  LedgerStepTaken
<1>1. Ledger!Persisted(Owners(next)) /\ Ownership'
  BY LedgerStep
<1>2. Ledger!Redraw
  <2>1. CASE Owners(acct)' = Owners(next) /\ Owners(Restored(disk))' = Ledger!Released(Owners(next))
    <3>1. Ledger!Redrawn(Owners(acct), Owners(acct)')
      BY <2>1
    <3>2. Owners(Restored(disk))' = Ledger!Released(Owners(acct))
      BY <2>1
    <3> QED BY <3>1, <3>2 DEF Ledger!Redraw
  <2>2. CASE /\ Owners(acct)' = Owners(acct)
             /\ Owners(Restored(disk))' \in {Owners(Restored(disk)), Ledger!Released(Owners(next))}
    BY <2>2 DEF Ledger!Redraw
  <2> QED BY <1>1, <2>1, <2>2 DEF Ledger!Persisted
<1> QED BY <1>1, <1>2 DEF Ledger!Next, LedgerStepTaken

\* Every share has one owner in the beginning, and the ledger begins.
LEMMA InitOwnership == Init => Ownership /\ Ledger!Init
<1> SUFFICES ASSUME Init PROVE Ownership /\ Ledger!Init
  OBVIOUS
<1>1. PICK seed \in Seeds :
        acct = [cash |-> seed.cash, positions |-> seed.positions, orders |-> <<>>,
                requests |-> [r \in RequestIds |-> 0], auto |-> [s \in Symbols |-> NoLots],
                managed |-> [s \in Symbols |-> NoLots], scope |-> "AUTO", symbols |-> {},
                context |-> IF WarmUp THEN Default ELSE NoStrategy,
                selection |-> NoStrategy, seed |-> seed]
  BY DEF Init
<1>2. seed \in [cash : Nat, positions : [Symbols -> Nat]]
  BY ConstantsAssumption
<1>3. GoodAccount(acct)
  BY InitGood DEF PaperInvariant
<1>4. acct.positions = seed.positions /\ acct.auto = [s \in Symbols |-> NoLots]
      /\ acct.managed = [s \in Symbols |-> NoLots]
  BY <1>1
<1>5. FreeOK(acct) /\ Owners(acct) \in AllFree
  BY <1>2, <1>3, <1>4, ReseededOwners
<1>6. FreeOK(Restored(disk)) /\ Owners(Restored(disk)) = Ledger!Released(Owners(acct))
  BY <1>3, <1>5, ReleasedOwners DEF Init
<1> QED BY <1>5, <1>6 DEF Ownership, Ledger!Init, AllFree

\* Every step of the account is a step of the ledger, or leaves it alone.
LEMMA StepOwnership ==
  ASSUME ~WarmUp, PaperInvariant, Ownership, [Next]_vars
  PROVE  LedgerStepTaken
<1>0. /\ GoodAccount(acct) /\ GoodRecord(disk) /\ FreeOK(acct) /\ FreeOK(Restored(disk))
      /\ acct.seed \in [cash : Nat, positions : [Symbols -> Nat]]
      /\ acct.scope \in Scopes /\ disk.scope \in Scopes /\ disk.selection \in Strategies \cup {NoStrategy}
      /\ engine \in Strategies \cup {Default}
  BY DEF PaperInvariant, Ownership, GoodAccount, GoodRecord, DurableOK, ProcessOK
<1>1. ASSUME NEW r \in RequestIds \cup {NoRequest}, NEW s \in Symbols, NEW side \in Sides,
             NEW q \in Quantities, NEW p \in Prices, NEW blocked,
             ManualOrder(r, s, side, q, p, blocked)
      PROVE  LedgerStepTaken
  <2> DEFINE o == Order(r, s, side, q, "MANUAL", p)
  <2>1. PICK next \in Executions(acct, o, NoLot, blocked) : Saved(next) \/ RolledBack(next)
    BY <1>1 DEF ManualOrder
  <2>2. NewOrder(acct, o) /\ o.quantity \in Quantities \cup 1..Chunk
    BY <1>1, ConstantsAssumption DEF ManualOrder, NewOrder, Order, OrderRecord
  <2> HIDE DEF o
  <2> QED BY <1>0, <2>1, <2>2, LedgerOrder
<1>2. ASSUME NEW next, GoodAccount(next), Saved(next) \/ RolledBack(next), Owners(next) = Owners(acct)
      PROVE  LedgerStepTaken
  <2>1. FreeOK(next) /\ Ledger!Redrawn(Owners(acct), Owners(next))
    BY <1>0, <1>2 DEF FreeOK, Ledger!Redrawn
  <2> QED BY <1>0, <1>2, <2>1, LedgerRedraw
<1>3. ASSUME NEW s \in Symbols, NEW side \in Sides, NEW q \in Quantities \cup 1..Chunk, NEW p \in Prices,
             NEW lot, NEW blocked,
             WorkerOrder(Order(NoRequest, s, side, q, "STRATEGY", p), lot, blocked)
      PROVE  LedgerStepTaken
  <2> DEFINE o == Order(NoRequest, s, side, q, "STRATEGY", p)
  <2>1. PICK next \in Executions(acct, o, lot, blocked) : Saved(next) \/ RolledBack(next)
    BY <1>3 DEF WorkerOrder
  <2>2. NewOrder(acct, o) /\ o.quantity \in Quantities \cup 1..Chunk
    <3>1. q \in Nat \ {0}
      BY ConstantsAssumption
    <3> QED BY <3>1 DEF NewOrder, Order, OrderRecord
  <2> HIDE DEF o
  <2> QED BY <1>0, <2>1, <2>2, LedgerOrder
<1>4. ASSUME NEW s \in Symbols, NEW q \in Quantities, NEW p \in Prices, NEW blocked,
             StrategyBuy(s, q, p, blocked)
      PROVE  LedgerStepTaken
  BY <1>3, <1>4 DEF StrategyBuy, Sides
<1>5. ASSUME NEW s \in Symbols, NEW p \in Prices, NEW lot, StrategySell(s, lot, p)
      PROVE  LedgerStepTaken
  <2>1. PICK q \in 1..Chunk : WorkerOrder(Order(NoRequest, s, "SELL", q, "STRATEGY", p), lot, FALSE)
    BY <1>5 DEF StrategySell
  <2> QED BY <2>1, <1>3 DEF Sides
<1>6. ASSUME NEW r \in RequestIds, RepeatedOrder(r)
      PROVE  LedgerStepTaken
  BY <1>0, <1>2, <1>6 DEF RepeatedOrder
<1>7. ASSUME NEW st \in Strategies, RememberStrategy(st)
      PROVE  LedgerStepTaken
  <2> DEFINE next == [acct EXCEPT !.selection = st]
  <2>1. /\ DOMAIN next = Fields /\ next.selection = st
        /\ next.cash = acct.cash /\ next.positions = acct.positions
        /\ next.orders = acct.orders /\ next.requests = acct.requests
        /\ next.auto = acct.auto /\ next.managed = acct.managed /\ next.scope = acct.scope
        /\ next.context = acct.context /\ next.symbols = acct.symbols /\ next.seed = acct.seed
    BY <1>0 DEF GoodAccount, Fields
  <2>2. Saved(next) \/ RolledBack(next)
    BY <1>7 DEF RememberStrategy
  <2> HIDE DEF next
  <2>3. GoodAccount(next)
    BY <1>0, <2>1
    DEF GoodAccount, GoodRecord, DurableOK, AutoOrigins, RequestsIndexed, SharedLots,
        Together, Adopting, AdoptsManual
  <2>4. Owners(next) = Owners(acct)
    BY <2>1 DEF Owners, Managed, AutoQuantity
  <2> QED BY <2>2, <2>3, <2>4, <1>2
<1>8. ASSUME NEW st \in Strategies \cup {Default}, NEW scope \in Scopes,
             NEW next \in Begun(acct, st, scope), Saved(next) \/ RolledBack(next)
      PROVE  LedgerStepTaken
  <2>1. GoodAccount(next)
    BY <1>0, BegunGood
  <2>2. /\ FreeOK(next) /\ Ledger!Redrawn(Owners(acct), Owners(next))
        /\ Ledger!Released(Owners(next)) = Ledger!Released(Owners(acct))
    BY <1>0, BegunOwners
  <2> QED BY <1>0, <1>8, <2>1, <2>2, LedgerRedraw
<1>9. ASSUME NEW st \in Strategies, ApplyStrategy(st)
      PROVE  LedgerStepTaken
  BY <1>0, <1>8, <1>9 DEF ApplyStrategy
<1>10. CASE ConfigureSettings
  BY <1>0, <1>8, <1>10 DEF ConfigureSettings
<1>11. ASSUME NEW scope \in Scopes, ChangeScope(scope)
       PROVE  LedgerStepTaken
  BY <1>0, <1>8, <1>11 DEF ChangeScope
<1>12. ASSUME NEW seed \in [cash : Nat, positions : [Symbols -> Nat]], ReplaceAssets(seed)
       PROVE  LedgerStepTaken
  <2> DEFINE b == Reseeded(acct, seed)
  <2>1. b.positions = seed.positions /\ b.auto = [s \in Symbols |-> NoLots]
        /\ b.managed = [s \in Symbols |-> NoLots]
    BY <1>0 DEF GoodAccount, Fields, Reseeded
  <2>2. Saved(b) \/ RolledBack(b)
    BY <1>12 DEF ReplaceAssets
  <2>3. GoodAccount(b)
    BY <1>0, ReseededGood
  <2> HIDE DEF b
  <2>4. FreeOK(b) /\ Owners(b) \in AllFree /\ Ledger!Released(Owners(b)) = Owners(b)
    BY <2>1, <2>3, ReseededOwners
  <2>5. \A s \in Symbols : /\ Owners(b)[s] \in Ledger!Owned /\ Owners(b)[s].resting = 0
                           /\ Owners(b)[s].adopted + Owners(b)[s].managed = 0
    BY <2>4 DEF AllFree, Ledger!Owned
  <2>7. Ledger!Persisted(Owners(b)) /\ Ownership'
    BY <2>2, <2>3, <2>4, LedgerStep
  <2>8. CASE Owners(acct)' = Owners(b) /\ Owners(Restored(disk))' = Ledger!Released(Owners(b))
    <3>1. Ledger!Released(Owners(acct)') = Owners(acct)'
      BY <2>4, <2>8
    <3>2. \A s \in Symbols : Owners(acct)'[s] \in Ledger!Owned /\ Owners(acct)'[s].resting = 0
      BY <2>5, <2>8
    <3>3. Owners(Restored(disk))' = Ledger!Released(Owners(acct)')
      BY <2>8
    <3>4. Ledger!Replace
      BY <3>1, <3>2, <3>3 DEF Ledger!Replace
    <3> QED BY <2>7, <3>4 DEF Ledger!Next, LedgerStepTaken
  <2>9. CASE Owners(acct)' = Owners(acct) /\ Owners(Restored(disk))' = Owners(Restored(disk))
    BY <2>7, <2>9 DEF LedgerStepTaken
  <2>10. CASE Owners(acct)' = Owners(acct) /\ Owners(Restored(disk))' = Ledger!Released(Owners(b))
    <3>1. Owners(Restored(disk))' = Owners(b)
      BY <2>4, <2>10
    <3>2. Ledger!Replace
      BY <2>5, <2>10, <3>1 DEF Ledger!Replace
    <3> QED BY <2>7, <3>2 DEF Ledger!Next, LedgerStepTaken
  <2> QED BY <2>7, <2>8, <2>9, <2>10 DEF Ledger!Persisted
<1>13. CASE TakeBaseline
  BY <1>0, <1>8, <1>13 DEF TakeBaseline
<1>14. CASE StartEngine \/ StopEngine \/ UNCHANGED vars
  <2>1. acct' = acct /\ disk' = disk
    BY <1>14 DEF StartEngine, StopEngine, vars
  <2>2. Ownership'
    BY <2>1 DEF Ownership
  <2>3. Owners(acct)' = Owners(acct) /\ Owners(Restored(disk))' = Owners(Restored(disk))
    BY <2>1
  <2> QED BY <2>2, <2>3 DEF LedgerStepTaken
<1>15. ASSUME NEW found \in BOOLEAN, Restart(found)
       PROVE  LedgerStepTaken
  <2> DEFINE a == Restored(disk)  st == disk.selection
  <2>1. GoodAccount(a) /\ FreeOK(a)
    BY <1>0, RestoredGood
  <2>2. CASE st # NoStrategy /\ found
    <3>1. PICK next \in Begun(a, st, disk.scope) : Saved(next)
      BY <1>15, <2>2 DEF Restart
    <3>2. st \in Strategies \cup {Default}
      BY <1>0, <2>2
    <3> HIDE DEF st
    <3>3. GoodAccount(next)
      BY <1>0, <2>1, <3>1, <3>2, BegunGood
    <3>4. /\ FreeOK(next) /\ Ledger!Redrawn(Owners(a), Owners(next))
          /\ Ledger!Released(Owners(next)) = Ledger!Released(Owners(a))
      BY <1>0, <2>1, <3>1, <3>2, BegunOwners
    <3>5. Ledger!Released(Owners(a)) = Owners(a)
      BY <1>0, <2>1, ReleasedTwice
    <3>6. /\ Owners(Restored(Durable(next))) = Ledger!Released(Owners(next))
          /\ FreeOK(Restored(Durable(next)))
      BY <3>3, <3>4, ReleasedOwners
    <3>7. acct' = next /\ disk' = Durable(next)
      BY <3>1 DEF Saved
    <3>8. Ownership'
      BY <3>4, <3>6, <3>7 DEF Ownership
    <3>9. Owners(acct)' = Owners(next)
      BY <3>7
    <3>10. Owners(Restored(disk))' = Owners(Restored(disk))
      BY <3>4, <3>5, <3>6, <3>7
    <3>11. Ledger!Restart
      BY <3>4, <3>9, <3>10 DEF Ledger!Restart
    <3> QED BY <3>8, <3>11 DEF Ledger!Next, LedgerStepTaken
  <2>3. CASE ~(st # NoStrategy /\ found)
    <3>1. acct' = Restored(disk) /\ disk' = disk
      BY <1>15, <2>3 DEF Restart
    <3>2. Ownership'
      BY <1>0, <3>1 DEF Ownership
    <3>3. Owners(acct)' = Owners(Restored(disk)) /\ Owners(Restored(disk))' = Owners(Restored(disk))
      BY <3>1
    <3>4. Ledger!Redrawn(Owners(Restored(disk)), Owners(Restored(disk)))
      BY <1>0 DEF FreeOK, Ledger!Redrawn
    <3>5. Ledger!Restart
      BY <3>3, <3>4 DEF Ledger!Restart
    <3> QED BY <3>2, <3>5 DEF Ledger!Next, LedgerStepTaken
  <2> QED BY <2>2, <2>3
<1>16. ResetPractice \/ LoadSnapshot => LedgerStepTaken
  BY <1>0, <1>12, ConstantsAssumption DEF ResetPractice, LoadSnapshot
<1> QED
  BY <1>1, <1>4, <1>5, <1>6, <1>7, <1>9, <1>10, <1>11, <1>13, <1>14, <1>15, <1>16 DEF Next

\* Unless startup configures the engine before it restores the account, the
\* shares by owner are natural numbers that add up to the holdings ...
THEOREM OwnershipHolds ==
  ASSUME ~WarmUp
  PROVE  Spec => []Ownership
<1>1. Init => Ownership
  BY InitOwnership
<1>2. PaperInvariant /\ Ownership /\ [Next]_vars => Ownership'
  BY StepOwnership DEF LedgerStepTaken
<1> QED BY <1>1, <1>2, InvariantHolds, PTL DEF Spec

\* ... so that no share is owned twice ...
THEOREM NoShareIsOwnedTwice ==
  ASSUME ~WarmUp
  PROVE  Spec => []SharesAreOwnedOnce
<1>1. PaperInvariant /\ Ownership => SharesAreOwnedOnce
  <2> SUFFICES ASSUME PaperInvariant, Ownership, NEW s \in Symbols
               PROVE  AutoQuantity(acct, s) + Managed(acct, s, "MANUAL") <= acct.positions[s]
    BY DEF SharesAreOwnedOnce, Managed
  <2>1. GoodAccount(acct) /\ FreeOK(acct)
    BY DEF PaperInvariant, Ownership
  <2>2. AutoSum(acct, s) + ManagedSum(acct, s, "MANUAL") <= acct.positions[s]
    BY <2>1, FreeShares DEF FreeOK
  <2> QED BY <2>1, <2>2, OwnersAre
<1> QED BY <1>1, InvariantHolds, OwnershipHolds, PTL

\* ... and orders, scope changes, rollbacks and restarts move shares only as the
\* ledger allows.
THEOREM AccountImplementsLedger ==
  ASSUME ~WarmUp
  PROVE  Spec => ImplementsShareLedger
<1>1. Init => Ledger!Init
  BY InitOwnership
<1>2. PaperInvariant /\ Ownership /\ [Next]_vars
        => [Ledger!Next]_<<Owners(acct), Owners(Restored(disk))>>
  BY StepOwnership DEF LedgerStepTaken
<1>3. Spec => Ledger!Spec
  BY <1>1, <1>2, InvariantHolds, OwnershipHolds, PTL DEF Spec, Ledger!Spec, Ledger!ledgerVars
<1> QED BY <1>3 DEF ImplementsShareLedger
=============================================================================
