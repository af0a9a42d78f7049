SPECIFICATION MCSpec
CONSTANTS
  Containers = {"AtomicKFifo", "CAtomicQueue", "ThreadSafeQueue", "RapidPool"}
  None = None
  Values = {1}
  Capacity = 2
  IndexRange = 8
  Bytes = {0, 1}
  Requests = {3, 5}
  MaxLen = 2
  nullptr = nullptr
  Elements = {1, 2}
  RingSize = 4
  SizeRange = 8
  Threads = {1, 2, 3, 4}
  MaxQueued = 3
  SIZE = 2
  INDEX = 1
  MaxDepth = 3
CHECK_DEADLOCK FALSE
INVARIANTS
  OnlyAbandonedWait
  SlotsAccounted
PROPERTIES
  ImplementsByteFifo
  ImplementsPointerFifo
