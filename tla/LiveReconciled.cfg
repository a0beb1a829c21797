SPECIFICATION FairSpec
CONSTANTS
  c1 = c1
  c2 = c2
  p1 = p1
  p2 = p2
  p3 = p3
  NoClient = NoClient
  Clients = {c1}
  Requests = {p1, p2}
  Quantity = 1
  Crashes = FALSE
PROPERTY FinalIsFound
