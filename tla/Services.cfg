SPECIFICATION Spec
CONSTANTS
  Kinds <- BothKinds
  BatchSize = 2
  MaxQueue = 3
  MaxRows = 4
  MaxFaults = 2
  r1 = r1
  r2 = r2
  Readers = {r1, r2}
  Budgeted = {r2}
  NoReader = NoReader
  Mixes <- SomeMixes
  PageSize = 2
  v1 = v1
  v2 = v2
  a = a
  b = b
  c = c
  Viewers = {v1, v2}
  Codes = {a, b, c}
  Wishes <- SomeWishes
  Limit = 2
  Nobody = Nobody
  Streams <- TwoStreams
  MaxTroubles = 1
  owner = owner
  guest = guest
  A1 = A1
  B1 = B1
  C1 = C1
  A = A
  B = B
  C = C
  Users = {owner, guest}
  Owner = owner
  Keys = {A1, B1, C1}
  AccountOf <- SomeAccounts
  EnvKey = A1
  NoKey = NoKey
  NoAccount = NoAccount
  Legacy <- SomeLegacy
  MaxSaves = 3
  MaxCrashes = 1
INVARIANTS CleanStopSavesAll OneTaskPerStream ViewsAreHonest
  OneOwnerPerAccount CredentialsFit
PROPERTIES RowsSettle KeepsPromise FetchesAreShared ReadsEnd StocksAreAskedFor
CHECK_DEADLOCK FALSE
