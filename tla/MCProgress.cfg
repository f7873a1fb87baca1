SPECIFICATION FairSpec
CONSTANTS
  s1 = s1
  s2 = s2
  s3 = s3
  NoReplica = NoReplica
PROPERTIES
  SharesAreCombined
  AllLeave
  SlotIsFreed
  TransferEnds
  CheckpointsGetThrough
CHECK_DEADLOCK FALSE
