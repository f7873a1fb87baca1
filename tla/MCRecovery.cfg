SPECIFICATION MCSpec
CONSTANTS
  W = 1
  C = 1
  Batch = 2
  MaxDelete = 3
  BadTimes = FALSE
  Digests = {"a", "b"}
  Mine = {0}
  Paths = {"slow"}
  SelfAdjusted = FALSE
  MaxView = 1
  MaxSeq = 2
  MaxCrashes = 1
  MaxTransfers = 0
INVARIANTS
  LoadSucceeds
  VotesSurvive
  AppliedOnce
  RestartIsSafe
  StorageFollowsChain
  StreamIsGapless
  GroupsInOrder
CHECK_DEADLOCK FALSE
