SPECIFICATION Spec
CONSTANTS
  N = 3
  Q = 2
  StoreOrders <- InAnyOrder
  MaxTasks = 4
CHECK_DEADLOCK FALSE
INVARIANTS
  TasksExact
