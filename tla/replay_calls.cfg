SPECIFICATION FairSpec
CONSTANTS
  p1 = p1
  p2 = p2
  s1 = s1
  s2 = s2
  Proc = {p1}
  Slot = {s1, s2}
  None = None
  NumRows = 2
  Request <- WholeOrEmpty
  BatchSize = 1
  Heartbeats = {FALSE}
  MaxCursors = 2
  MaxStarts = 2
  MaxFaults = 1
  MaxTimelyFaults = 0
  MaxHangs = 1
CHECK_DEADLOCK FALSE
INVARIANTS
  LockGuardsRun
  ShownNotAhead
PROPERTIES
  EveryCallEnds
