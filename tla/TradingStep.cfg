SPECIFICATION Spec
CONSTANTS
  A = A
  s1 = s1
  Symbols = {A}
  Strategies = {s1}
  Targets <- SameTarget
  Windows <- Hours
  Cooldown = 6
  MaxHolding = 6
  DayLength = 10
  Sessions <- TwoDays
  LotIds = {1}
  MaxTime = 12
CHECK_DEADLOCK FALSE
PROPERTIES OrdersInSession OneEntryPerCross CooledDown
