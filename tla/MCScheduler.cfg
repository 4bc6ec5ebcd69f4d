\* Punctual renewals and calls, no Unlock, no other reason to lose the lock.
SPECIFICATION SchedulerSpec
CONSTANTS
  n1 = n1
  n2 = n2
  Instance <- TwoInstances
  None = None
  Never = Never
  Lease = 3
  Period = 1
  Delay = 1
  CanUnlock = FALSE
  MaxTime = 8
SYMMETRY MCSymmetry
INVARIANTS
  MutualExclusion
\* The clock is bounded.
CHECK_DEADLOCK FALSE
