SPECIFICATION MCSpec
CONSTANTS
  w1 = w1
  w2 = w2
  e1 = e1
  e2 = e2
  e3 = e3
  Worker = {w1, w2}
  Event = {e1, e2, e3}
  BadUrl = {e3}
  Poison = {e2}
  Outcome = {"ok", "retryable", "rejected"}
  Breaker = FALSE
  MaxAttempts = 2
  BatchSize = 2
  MaxFaults = 1
  MaxDefers = 1
  MaxPosts = 4
  MaxLetters = 2
  MaxReplays = 3
  Threshold = 2
  PurgeSize = 2
  EnqueuedWith = 1
  MaxResumes = 1
  MaxDbErrors = 1
SYMMETRY Symmetric
CHECK_DEADLOCK FALSE
INVARIANTS
  EventAccounted
  NoConcurrentSend
  ReplaysAccounted
