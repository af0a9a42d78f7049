SPECIFICATION Spec
CONSTANTS
  t1 = t1
  t2 = t2
  t3 = t3
  Threads <- MCThreads
  PoolSize = 1
  HeapSize = 1
SYMMETRY MCSymmetry
INVARIANTS
  ListSound
  NoBlockLost
