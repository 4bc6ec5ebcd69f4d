\* A table is left by the position, and the batches go on to it.
SPECIFICATION FairSpec
CONSTANTS
  s1 = s1
  s2 = s2
  Server <- OneServer
  Threshold = 1
  MaxPos = 2
  MaxCrash = 0
PROPERTIES
  SettledIsUsed
