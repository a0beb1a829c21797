SPECIFICATION FairSpec
CONSTANTS
  c1 = c1
  c2 = c2
  Calls = {c1, c2}
  Nobody = Nobody
  Mixes <- SomeMixes
  Charts = {"CHART"}
  Interval = 1
  MaxInterval = 2
  RetryAfter = 2
  Backoff = 1
  Patience = 2
  Life = 2
  MaxFaults = 2
INVARIANTS OrdersGoOutOnce BudgetIsKept
PROPERTIES GroupsArePaced CallsEnd
CHECK_DEADLOCK FALSE
