SPECIFICATION ServicesSpec
CONSTANTS
  a = a
  b = b
  r = r
  o = o
  t = t
  d1 = d1
  d2 = d2
  d3 = d3
  Agents = {a, b}
  Master = Master
  MasterSlug = MasterSlug
  Unknown = Unknown
  NoOne = NoOne
  Escalators = {a}
  BuilderEnabled = TRUE
  UserMessages <- MCMessages
  Kits <- MCKits
  MaxAgents = 2
  MaxCalls = 3
  MaxHops = 2
  LimitedCalls = {c1, c2, c3}
  MaxAllowed <- MCMaxAllowed
  Window <- MCWindow
  Lag = 1
  LastTick = 5
  Threads = {p, q}
  TokenLife = 4
  Margin = 2
  FetchTime = 1
  CallTime = 1
  ListTTL = 2
  LastMoment = 8
  PoolCalls = {c1, c2, c3, c4, c5}
  PoolUnknown = {c5}
  Slots = 2
  Files = {r, o, t}
  RequiredFiles = {r}
  BaseFiles = {t}
  Conv = Conv
  DefaultDir = DefaultDir
  Packers = {p, q}
  MaxSaves = 1
  Saved <- MCSaved
  Uploads = {d1, d2, d3}
  FileOf <- MCFileOf
  TextOf <- MCTextOf
  ChunkSize = 4
  Overlap = 1
  ListCap = 3
  Pairs = 2
  Shipped <- MCShipped
  MaxStops = 2
  MaxMeddling = 2
  MaxVersions = 2
INVARIANTS
  HandoffArrives
  EquippedSoundly
  RunsBounded
  LimitIsExact
  NothingStale
  HeldUpByEarlier
  PackageComplete
  StoreMatchesRegistry
  StopDamageBounded
PROPERTIES
  SlugBlocksStart
CHECK_DEADLOCK FALSE
