SPECIFICATION MCSpec
CONSTANTS
  w1 = w1
  w2 = w2
  q1 = q1
  q2 = q2
  j1 = j1
  j2 = j2
  t1 = t1
  t2 = t2
  t3 = t3
  t4 = t4
  c1 = c1
  c2 = c2
  c3 = c3
  Worker = {w1, w2}
  NumBatches = 3
  RetryLimit = 2
  MaxFlips = 2
  WaveBatches = 5
  WaveSize = 2
  MaxAttempts = 2
  NumRows = 4
  Purger = {w1, w2}
  PurgeBatch = 2
  MaxRowsPerRun = 3
  MaxHeld = 1
  MaxRuns = 2
  MaxAborts = 1
  QueueObj = {q1, q2}
  SentJob = {j1}
  CronJob = {j2}
  JobRetryLimit = 1
  MaxCrashes = 1
  MaxExpiries = 1
  Task = {t1, t2, t3, t4}
  MaxWorkers = 2
  MaxQueueSize = 1
  MaxDeaths = 2
  Conn = {c1, c2, c3}
  Streams = {c3}
  NumHooks = 3
  MaxSignals = 2
CHECK_DEADLOCK FALSE
INVARIANTS
  OneGate
  PurgeAccounted
  QueueAccounted
  PoolAccounted
  LifecycleSafe
PROPERTIES
  KeepsOrder
  WavesKeepOrder
  HeldRowsSurvive
  NoJobLost
  RunsEnd
