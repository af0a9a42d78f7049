SPECIFICATION SemaphoreSpec
CONSTANTS
  t1 = t1
  t2 = t2
  t3 = t3
  p1 = p1
  p2 = p2
  c1 = c1
  c2 = c2
  c3 = c3
  Waiters <- MCWaiters
  Signallers <- MCSignallers
  Initial = 0
  Requests = {2}
  Signals = {1, 2}
  MaxCount = 1
  Producers = {}
  Consumers = {}
  Counts = {}
  Maxes = {}
  Throwing = {}
  MaxEnqueued = 0
PROPERTY
  SleepersServed
