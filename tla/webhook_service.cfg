SPECIFICATION MCSpec
CONSTANTS
  d1 = d1
  c1 = c1
  c2 = c2
  i1 = i1
  w1 = w1
  w2 = w2
  l1 = l1
  e1 = e1
  e2 = e2
  Delivery = {d1}
  Caller = {c1, c2}
  MaxAttempts = 3
  Outcome = {"ok", "retryable", "rejected", "error"}
  MaxDenials = 1
  Item = {i1}
  Worker = {w1}
  Letter = {l1}
  MaxIds = 3
  MaxCrashes = 1
  MaxWrites = 2
  BadUrl = {}
  Poison = {e2}
  OutboxOutcome = {"ok", "retryable", "timeout", "other"}
  OutboxAttempts = 2
  Breaker = TRUE
  BatchSize = 1
  MaxFaults = 1
  MaxDefers = 1
  MaxPosts = 5
CHECK_DEADLOCK FALSE
INVARIANTS
  DeliveriesAccounted
  MirrorLosesNothing
PROPERTIES
  EverythingSettles
