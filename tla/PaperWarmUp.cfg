SPECIFICATION Spec
CONSTANTS
  A = A
  s1 = s1
  r1 = r1
  r2 = r2
  Default = Default
  NoStrategy = NoStrategy
  NoRequest = NoRequest
  Symbols = {A}
  Quantities = {1, 2}
  Chunk = 2
  Prices = {1}
  FeePct = 0
  TaxPct = 0
  RequestIds = {}
  Strategies = {s1}
  Targets <- OneTarget
  Seeds <- OwnershipSeeds
  RiskAnswers = {FALSE}
  LostAcks = FALSE
  WarmUp = TRUE
  MaxOrders = 3
  MaxLots = 4
INVARIANT SharesAreOwnedOnce
