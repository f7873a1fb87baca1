SPECIFICATION MCSpec
CONSTANTS
  N = 4
  F = 1
  Down = {3}
  Early = {1, 2}
  Gaps = {0}
  MaxView = 2
  MaxLosses = 0
  MaxRestarts = 0
  Reports = FALSE
INVARIANTS
  ViewChangeSafe
  HelpIsAvailable
  SourceServes
  CheckpointsAgree
  PagesSurvive
  RequiredIsMissing
  TreeIsCanonical
CHECK_DEADLOCK FALSE
