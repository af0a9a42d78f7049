SPECIFICATION MCFairSpec
CONSTANTS
  Containers = {"CDMAtomicQueue"}
  None = None
  Values = {v1, v2}
  Capacity = 4
  IndexRange = 4
  Bytes = {0}
  Requests = {1}
  MaxLen = 1
  nullptr = nullptr
  Elements = {1}
  RingSize = 1
  SizeRange = 2
  Threads = {1}
  MaxQueued = 1
  SIZE = 1
  INDEX = 1
  MaxDepth = 1
INVARIANTS
  SlotLifetime
  PopAssertHolds
  SizeBounds
PROPERTIES
  PoppedSlotStable
  EmplaceReturns
  ImplementsFifo
