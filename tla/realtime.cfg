SPECIFICATION MCSpec
CONSTANTS
  r1 = r1
  r2 = r2
  r3 = r3
  n1 = n1
  n2 = n2
  n3 = n3
  s1 = s1
  forkA = forkA
  forkB = forkB
  address = address
  alice = alice
  Request = {r1, r2, r3}
  Batches <- MCBatches
  MaxWriters = 1
  PageSize = 1
  SuppressFor = 1
  MaxStoreFaults = 1
  Conn = {n1, n2, n3}
  Identity <- MCIdentity
  IpKey = address
  Stream = {s1}
  MaxConnections = 1
  ReconnectLimit = 2
  AbuseThreshold = 1
  MaxSubscriptions = 1
  MaxMissed = 1
  MaxAsked = 1
  MaxWsFaults = 1
  Peer = {n1, n2}
  YieldBatch = 1
  BatchMaxSize = 3
  FrameFits = 2
  MaxQueue = 2
  MaxQueueBytes = 3
  DropAt = 1
  TerminateAt = 2
  ControlSize = 2
  DedupMax = 2
  MaxEvents = 3
  MaxMoves = 2
  Sse = {n1, n2}
  Poll = {n3}
  MaxSse = 1
  MaxPoll = 1
  MaxStored = 2
SYMMETRY Symmetric
CHECK_DEADLOCK FALSE
INVARIANTS
  EventsKept
  ConnectionsAccounted
  DeliveredInOrder
  ResourcesReturned
