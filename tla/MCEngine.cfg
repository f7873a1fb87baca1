SPECIFICATION MCSpec
CONSTANTS
  W = 4
  C = 2
  Lag = 1
  QueueSize = 1
  Async = TRUE
  Kinds = {"checkpoint", "leave", "viewchange", "newview", "transfer", "read"}
  MaxSeq = 6
  MaxView = 1
  MaxMsgs = 2
  d1 = d1
  d2 = d2
  nullRequest = nullRequest
  noMsg = noMsg
  r1 = r1
  r2 = r2
  r3 = r3
  r4 = r4
SYMMETRY Symmetry
INVARIANTS
  CollectorSafe
  Agreement
  ExecutionIsSafe
  ExecutedAtMostOnce
  TableIsSound
  AgreedByQuorum
  BatchesRelease
PROPERTIES
  ImplementsMap
  Undisturbed
CHECK_DEADLOCK FALSE
