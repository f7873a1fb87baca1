SPECIFICATION Spec
CONSTANTS
  Replicas = {0, 1, 2, 3, 4}
  Self = 0
  Faulty = {3, 4}
  Required = 3
  MaxView = 1
  MaxTransfers = 1
INVARIANT AssertionsHold
CHECK_DEADLOCK FALSE
