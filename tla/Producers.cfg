SPECIFICATION Spec
CONSTANTS
  t1 = t1
  t2 = t2
  t3 = t3
  Threads <- MCThreads
  TokenNames <- MCTokenNames
  HashOf <- MCHashOf
  InitialSize = 2
  MaxProducers = 4
  MaxFailures = 1
  Budgets <- MCBudgets
CHECK_DEADLOCK FALSE
INVARIANTS
  TablesHaveRoom
  ImplicitProducersOwned
  TokensExclusive
  ListComplete
PROPERTIES
  CallsReturn
