SPECIFICATION QueueSpec
CONSTANTS
  t1 = t1
  t2 = t2
  t3 = t3
  p1 = p1
  p2 = p2
  c1 = c1
  c2 = c2
  c3 = c3
  Waiters = {}
  Signallers = {}
  Initial = 0
  Requests = {}
  Signals = {}
  MaxCount = 0
  Producers <- TwoProducers
  Consumers <- ThreeConsumers
  Counts = {1, 3}
  Maxes = {1, 3}
  Throwing = {3}
  MaxEnqueued = 5
SYMMETRY MCSymmetry
INVARIANT
  SizeAccurate
