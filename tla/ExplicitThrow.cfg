SPECIFICATION Spec
CONSTANTS
  c1 = c1
  c2 = c2
  b1 = b1
  b2 = b2
  b3 = b3
  NoBlock = NoBlock
  Consumers <- OneConsumer
  Blocks <- TwoBlocks
  BLOCK_SIZE = 2
  IndexRange = 32
  INITIAL_INDEX_SIZE = 2
  MAX_SUBQUEUE_SIZE = 6
  NoexceptCtor = {FALSE}
  Modes <- CanAlloc
  Counts = {}
  Maxes = {1}
  Passed = 0
  MaxEnqueued = 3
SYMMETRY MCSymmetry
CHECK_DEADLOCK FALSE
INVARIANTS
  DestructorExact
