SPECIFICATION Spec
CONSTANTS
  F = 1
  C = 0
  Byz = {0}
  MaxView = 2
  MaxSeq = 1
  d1 = d1
  d2 = d2
  Requests = {d1, d2}
  Null = Null
  None = None
  FirstPaths = {"SLOW"}
  WorkWindow = 4
  CheckpointWindow = 2
  MaxConcurrentFastPaths = 2
  ConcurrencyLevel = 2
  TimeServiceEnabled = FALSE
SYMMETRY RequestSymmetry
INVARIANTS TypeOK Agreement SignaturesFollowLog CertificatesAgree CommittedIsReported
CHECK_DEADLOCK FALSE
