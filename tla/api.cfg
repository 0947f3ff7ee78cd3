SPECIFICATION MCSpec
CONSTANTS
  a1 = a1
  a2 = a2
  p1 = p1
  p2 = p2
  e1 = e1
  e2 = e2
  e3 = e3
  r1 = r1
  r2 = r2
  k1 = k1
  b1 = b1
  b2 = b2
  c1 = c1
  c2 = c2
  c3 = c3
  Actor = {a1, a2}
  Server = {p1, p2}
  ServerOf <- MCServerOf
  Event = {e1, e2, e3}
  EventType <- MCType
  EventStatus <- MCStatus
  MaxDelivered = 2
  MaxRequests = 1
  MaxTrouble = 1
  MaxWal = 1
  Poster = {r1, r2}
  IdemKey = {k1}
  Timed = {b1}
  Untimed = {b2}
  MaxTime = 1
  MaxOutages = 1
  MaxEnds = 1
  Proc = {p1, p2}
  AdminCall = {c1, c2, c3}
  Home <- MCHome
  Flag = {"ingestion"}
  MaxAdminCalls = 3
  MaxFaults = 1
  MaxLapses = 1
  MaxKills = 1
  MaxHits = 3
  Limit = 1
  Window = 2
  Latency = 1
  MaxClock = 3
CHECK_DEADLOCK FALSE
INVARIANTS
  EventsTakeEffect
  BroadcastOnce
  KeyMeansOneStream
  AdminStateSafe
  LimitExact
PROPERTIES
  FollowsLifecycle
