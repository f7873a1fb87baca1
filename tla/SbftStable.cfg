SPECIFICATION Spec
CONSTANTS
  F = 1
  C = 0
  Byz = {3}
  MaxView = 1
  MaxSeq = 1
  d1 = d1
  d2 = d2
  Requests = {d1}
  Null = Null
  None = None
  FirstPaths = {"OPTIMISTIC_FAST", "SLOW"}
  WorkWindow = 2
  CheckpointWindow = 1
  MaxConcurrentFastPaths = 2
  ConcurrencyLevel = 2
  TimeServiceEnabled = FALSE
SYMMETRY RequestSymmetry
INVARIANTS Agreement
CHECK_DEADLOCK FALSE
