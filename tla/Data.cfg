SPECIFICATION Spec
CONSTANTS
  Targets <- TwoTargets
  LastBar = 3
  Opening <- TwoOpenings
  Limit = 3
  Final = 5
  Report = 6
  Recent = 2
  MaxPages = 1
  Slow <- FirstBar
  MaxTroubles = 2
  BarCount = 2
  LastClock = 3
  MaxRechecks = 2
  MaxReports = 2
  Bars = 4
  Lookback = 2
  MaxDelay = 2
  Horizons = {1, 2}
  LastMinute = 5
  Observed = {0, 1}
  MaxMissing = 1
  MaxMacros = 2
  s1 = s1
  Stocks = {s1}
  LastEvent = 4
  LastBatch = 6
  MaxBars = 2
  DayMinutes = 3
  i1 = i1
  i2 = i2
  v1 = v1
  v2 = v2
  Single = {i1}
  Batched = {i2}
  Levels = {v1, v2}
  Slots = {1}
  LastTime = 3
  MaxLosses = 2
  x1 = x1
  x2 = x2
  Companies = {x1, x2}
  MaxCount = 1
  Attempts = 2
  MaxScans = 2
  MaxRefusals = 1
INVARIANTS RowsAreFinal ScanCoversTargets DayIsRecovered AbsenceIsProven
  OutcomesWereUnknown TradesAreCausal RequestsAreServed
PROPERTIES OneSlicePerInterval SamplesAreFrozen VersionsAreDated
CHECK_DEADLOCK FALSE
