SPECIFICATION Spec
CONSTANTS
  TableSize = 3
  IeeeAddrs = {1, 4}
  ShortAddrs = {5, 6}
  MaxLock = 1
  PoolSize = 6
  CbQSize = 5
  BufQSize = 2
  Funcs = {"f"}
  OutReserved = 2
  InReserved = 1
  BareCallbacks = FALSE
  HeaderSurvives = TRUE
  NElems = 4
  PanIds = {0, 1, 2}
  PanTableSize = 2
  MakerTableSize = 2
  ExtSize = 3
  MaxPanId = 1
  BlockSize = 3
  MicLen = 2
  HeaderLens = {1, 2, 4}
  PayloadLens = {0, 1, 3, 4}
  MaxSends = 2
  GroupTableSize = 1
  EndpointsInGroup = 2
  UpQSize = 1
  InLimits = {2, 3}
  GroupAddrs = {"g", "h"}
  Endpoints = {1, 2}
  MaxFrames = 3
  MaxAdds = 3
  Orphans = {a, b}
  OrphanBufs = {o1, o2}
  HighBytes = {0, 1}
  LowBytes = {1}
  Pans = {1, 2}
  ScanChannels = 2
  Nil = Nil
  MaxOps = 2
INVARIANTS TablesRight PoolRight CodecsRight GroupsRight OrphansRight
PROPERTY ImplementsQueues
CHECK_DEADLOCK FALSE
