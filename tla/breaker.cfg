SPECIFICATION MCSpec
CONSTANTS
  c1 = c1
  c2 = c2
  c3 = c3
  Call = {c1, c2}
  Threshold = 2
  ResetMs = 2
  ProbeMs = 2
  RecordMs = 4
  MaxAge = 2
  RedisErrors = TRUE
  MaxFailures = 3
  MemoryCall = {c1, c2, c3}
  MemoryMs = 5
  MemoryFailures = 4
  Caller = {c1, c2}
  FailureThreshold = 2
  WindowMs = 2
  ResetTimeoutMs = 2
  TtlMs = 3
  MaxAgeMs = 1
  RedisMs = 1
CHECK_DEADLOCK FALSE
INVARIANTS
  PausedWasEarned
  MemoryAtMostOneProbe
  FallbackJustified
PROPERTIES
  CircuitsRecover
