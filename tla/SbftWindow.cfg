SPECIFICATION Spec
CONSTANTS
  F = 0
  C = 1
  Byz = {}
  MaxView = 1
  MaxSeq = 2
  d1 = d1
  d2 = d2
  Requests = {d1}
  Null = Null
  None = None
  FirstPaths = {"SLOW"}
  WorkWindow = 2
  CheckpointWindow = 1
  MaxConcurrentFastPaths = 2
  ConcurrencyLevel = 2
  TimeServiceEnabled = FALSE
INVARIANTS CommittedNeverReplaced PrimaryNeverBehindExecution
CHECK_DEADLOCK FALSE
