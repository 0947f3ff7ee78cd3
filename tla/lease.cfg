SPECIFICATION MCSpec
CONSTANTS
  i1 = i1
  i2 = i2
  Inst = {i1, i2}
  None = None
  LeaseMs = 6
  RenewMs = 2
  MaxLatency = 1
  Timely = TRUE
  RedisErrors = {}
  Overlap = FALSE
  MaxFence = 2
  OutageLeaseMs = 1
  OutageRenewMs = 1
  OutageErrors = {"acquire", "release", "renew"}
  OutageFence = 1
CHECK_DEADLOCK FALSE
INVARIANTS
  LeaderHasHeartbeat
  LeaderHoldsTimelyLease
PROPERTIES
  StaleLeadersStepDown
