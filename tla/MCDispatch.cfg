\* Two tasks, a wheel of three slots.
SPECIFICATION FairSpec
CONSTANTS
  t1 = t1
  t2 = t2
  Task <- TwoTasks
  Priority <- Priorities
  None = None
  Slots = 3
  SlotTicks = 2
  Interval = 4
  Ahead = {2}
  AddDelay = 1
  Threshold = 2
  Isolate = 5
  MaxLate = 3
INVARIANTS
  TypeOK
  TaskConserved
  NeverEarly
  LateBound
  IsolatedRests
PROPERTIES
  RunsAgain
