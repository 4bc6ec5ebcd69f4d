\* Seven tasks, pushed and popped in any order.
SPECIFICATION Spec
CONSTANTS
  t1 = t1
  t2 = t2
  t3 = t3
  t4 = t4
  t5 = t5
  t6 = t6
  t7 = t7
  Task <- SevenTasks
  Priority <- Priorities
INVARIANTS
  TypeOK
  HeapOrdered
PROPERTIES
  ImplementsWaitQueue
  NoLostWakeup
