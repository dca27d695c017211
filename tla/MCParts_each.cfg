SPECIFICATION Spec
CHECK_DEADLOCK FALSE
CONSTANTS
  Old = Old
  New = New
  T1 = T1
  T2 = T2
  T3 = T3
  Provider1 = Provider1
  Provider2 = Provider2
  A = A
  B = B
  H = H
  DbProc = {Old, New}
  DbModule = {m1}
  Framework = fw
  DbKnown <- MCDbKnown
  OpenMaxRetries = 1
  MaxCrashes = 2
  SinkCallers = {h1, h2}
  SinkClosers = {c1, c2}
  MaxBatchSize = 1
  SinkMaxErrors = 4
  MaxContainers = 2
  MaxExecs = 2
  SkipWait = FALSE
  HealthCheck = TRUE
  Subscribers = {s1, s2}
  LastMsg = 2
  MaxDeliver = 3
  StreamMaxMsgs = 1
  CrThreads = {T1, T2, T3}
  CrProviderOf <- MCCrProviderOf
  CrMaxCalls = 2
  RsProvider = Provider1
  RsChains <- MCRsChains
  SpCallers = {p1, p2}
  SpMaxRounds = 2
  CacheCallers = {k1, k2}
  MaxRows = 3
  TrieLetters = {A, B, H}
  HighBytes = {H}
  TrieInputs <- MCTrieInputs
  TrieValues = {v1, v2}
  UpMaxChunks = 2
  AcLetters = {"t", "n", "s", "e", "v", ":"}
  AcTenants <- MCAcTenants
  AcNamespaces <- MCAcNamespaces
  AcNames <- MCAcNames
  AcRoles = {"none", "write"}
  AcExpiries = {0, 3}
  AcMinExpiry = 1
  AcDefaultExpiry = 1
  AcMaxExpiry = 2
  AcMaxIssued = 2
  TlReplica = r1
  TlNoReplica = NoReplica
  TlEvents = {A, B}
  TlMaxRecords = 3
  TlMaxFaults = 3
INVARIANTS
  DbExactlyOnceInOrder
  SinkNothingStranded
  SbNothingLeftBehind
  NatsNothingLost
  NatsOneCallback
  CrNoLostUpdate
  CrSavedWhole
  RsResolvedWhole
  SpinQuiet
  TrieIsDictionary
  AcGrantsAsAsked
  UpCloseIsHonest
  TailNothingReadIsLost
PROPERTIES
  DbMigratesAsPromised
  CallsReturn
  CacheDeletesExpiredOnly
