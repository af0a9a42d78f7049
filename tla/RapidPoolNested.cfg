SPECIFICATION Spec
CONSTANTS
  SIZE = 2
  INDEX = 1
  MaxDepth = 2
CHECK_DEADLOCK FALSE
INVARIANTS
  ObjectsApart
