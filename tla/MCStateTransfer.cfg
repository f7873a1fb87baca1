SPECIFICATION MCSpec
CONSTANTS
  s1 = s1
  s2 = s2
  s3 = s3
  NoReplica = NoReplica
  Sources = {s1, s2, s3}
  Faulty = {s3}
  F = 1
  Silent = {}
  MaxRetransmissions = 1
  MinPrePrepares = 2
  FetchRange = 2
  RvtK = 2
  ChunksInBatch = 3
  Chunks = 1
  ResetCount = 0
  MaxCp = 2
  BlocksPerCp = 2
  MaxStored = 1
  PrimaryAware = FALSE
  MaxCrashes = 1
  MaxClears = 0
INVARIANTS
  FetchedIsRight
  BlocksBeforePages
  AssertsHold
CHECK_DEADLOCK FALSE
