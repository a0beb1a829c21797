SPECIFICATION Spec
CONSTANTS
  A = A
  s1 = s1
  r1 = r1
  r2 = r2
  Default = Default
  NoStrategy = NoStrategy
  NoRequest = NoRequest
  Symbols = {A}
  Quantities = {1}
  Chunk = 2
  Prices = {1, 2}
  FeePct = 50
  TaxPct = 50
  RequestIds = {r1, r2}
  Strategies = {s1}
  Targets <- OneTarget
  Seeds <- LedgerSeeds
  RiskAnswers = {FALSE, TRUE}
  LostAcks = TRUE
  WarmUp = FALSE
  MaxOrders = 2
  MaxLots = 3
INVARIANTS CashNeverNegative LogExplainsAccount RequestsExecuteOnce AnsweredOrdersAreKept
