SPECIFICATION Spec
CONSTANTS
  MaxGroups = 5
  Groups0 = 3
  Size = 2
  Hashes = FALSE
  Changes = "steady"
INVARIANT GroupsInOrder
CHECK_DEADLOCK FALSE
