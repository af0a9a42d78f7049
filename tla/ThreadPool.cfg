SPECIFICATION Spec
CONSTANTS
  N = 3
  Q = 2
  StoreOrders <- InProgramOrder
  MaxTasks = 4
CHECK_DEADLOCK FALSE
INVARIANTS
  TasksExact
  HandOnSucceeds
PROPERTIES
  TasksProcessed
  DestructorReturns
