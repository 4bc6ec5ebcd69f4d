\* Punctual renewals and calls, some of which fail, and Unlocks.
SPECIFICATION Spec
CONSTANTS
  n1 = n1
  n2 = n2
  Instance <- TwoInstances
  None = None
  Lease = 3
  Period = 1
  Delay = 1
  CanUnlock = TRUE
  MaxTime = 6
SYMMETRY MCSymmetry
INVARIANTS
  TypeOK
  MutualExclusion
  BeliefBacked
PROPERTIES
  LeaseRespected
\* The clock is bounded.
CHECK_DEADLOCK FALSE
