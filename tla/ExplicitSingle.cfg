SPECIFICATION Spec
CONSTANTS
  c1 = c1
  c2 = c2
  b1 = b1
  b2 = b2
  b3 = b3
  NoBlock = NoBlock
  Consumers <- TwoConsumers
  Blocks <- ThreeBlocks
  BLOCK_SIZE = 2
  IndexRange = 16
  INITIAL_INDEX_SIZE = 2
  MAX_SUBQUEUE_SIZE = 4
  NoexceptCtor = {TRUE}
  Modes <- CanAlloc
  Counts = {}
  Maxes = {1,2}
  Passed = 7
  MaxEnqueued = 5
SYMMETRY MCSymmetry
CHECK_DEADLOCK FALSE
INVARIANTS
  HeadWithinTail
  ElementsFound
  CountsBalance
  BlocksReusable
  DestructorExact
