SPECIFICATION Spec
CONSTANTS
  w1 = w1
  w2 = w2
  e1 = e1
  e2 = e2
  e3 = e3
  Worker = {w1, w2}
  Event = {e1, e2}
  BadUrl = {}
  Poison = {}
  Outcome = {"retryable"}
  Breaker = FALSE
  MaxAttempts = 2
  BatchSize = 1
  MaxFaults = 0
  MaxDefers = 0
  MaxPosts = 3
CHECK_DEADLOCK FALSE
INVARIANTS
  NoSilentLoss
