SPECIFICATION FairSpec
CONSTANTS
  w1 = w1
  w2 = w2
  w3 = w3
  r1 = r1
  r2 = r2
  NoWorker = NoWorker
  NoRequest = NoRequest
  Workers = {w1, w2, w3}
  Requests = {r1, r2}
  Logouts = FALSE
  Settings = TRUE
INVARIANTS OneWorker StopMeansStopped
PROPERTY StopReturns
