SPECIFICATION Spec
CONSTANTS
  c1 = c1
  c2 = c2
  Consumers <- MCConsumers
  QUOTA = 2
  SCORED = 1
  Range32 = 3
  Scenarios <- MixedScenarios
  Maxes = {3}
  MaxProducers = 2
  MaxSize = 2
INVARIANT RotatesEveryQuota
