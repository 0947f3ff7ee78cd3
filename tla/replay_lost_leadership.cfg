SPECIFICATION Spec
CONSTANTS
  p1 = p1
  p2 = p2
  s1 = s1
  s2 = s2
  Proc = {p1, p2}
  Slot = {s1}
  None = None
  NumRows = 3
  Request <- OneRange
  BatchSize = 2
  Heartbeats = {FALSE}
  MaxCursors = 2
  MaxStarts = 2
  MaxFaults = 1
  MaxTimelyFaults = 0
  MaxHangs = 0
SYMMETRY Symmetric
CHECK_DEADLOCK FALSE
INVARIANTS
  CompletedMeansReplayed
