SPECIFICATION Spec
CONSTANTS
  c1 = c1
  c2 = c2
  b1 = b1
  b2 = b2
  b3 = b3
  NoBlock = NoBlock
  Garbage = Garbage
  Consumers <- TwoConsumers
  Blocks <- ThreeBlocks
  BLOCK_SIZE = 2
  IndexRange = 16
  INITIAL_INDEX_SIZE = 2
  MAX_SUBQUEUE_SIZE = 6
  NoexceptCtor = {TRUE,FALSE}
  Modes <- CanAlloc
  Counts = {3}
  Maxes = {2}
  Passed = 7
  MaxEnqueued = 5
SYMMETRY MCSymmetry
CHECK_DEADLOCK FALSE
INVARIANTS
  LookupSound
  BlocksOwned
  BlocksReturned
  DestructorExact
