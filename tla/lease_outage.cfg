SPECIFICATION Spec
CONSTANTS
  i1 = i1
  i2 = i2
  Inst = {i1, i2}
  None = None
  LeaseMs = 3
  RenewMs = 1
  MaxLatency = 0
  Timely = TRUE
  RedisErrors = {"acquire", "release", "renew"}
  Overlap = FALSE
  MaxFence = 2
SYMMETRY Symmetric
CHECK_DEADLOCK FALSE
INVARIANTS
  OutageRevokes
