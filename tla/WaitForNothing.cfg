SPECIFICATION EitherSpec
CONSTANTS
  t1 = t1
  t2 = t2
  t3 = t3
  p1 = p1
  p2 = p2
  c1 = c1
  c2 = c2
  c3 = c3
  Waiters <- MCWaiters
  Signallers <- MCSignallers
  Initial = 0
  Requests = {0}
  Signals = {1, 2}
  MaxCount = 2
  Producers <- TwoProducers
  Consumers <- ThreeConsumers
  Counts = {1, 3}
  Maxes = {1, 3}
  Throwing = {1}
  MaxEnqueued = 5
SYMMETRY MCSymmetry
INVARIANTS
  WaitManyAssert
