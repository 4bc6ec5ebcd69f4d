\* Two servers, two tables, a crash, failing statements, an empty Redis.
SPECIFICATION FairSpec
CONSTANTS
  s1 = s1
  s2 = s2
  Server <- TwoServers
  Threshold = 1
  MaxPos = 2
  MaxCrash = 1
INVARIANTS
  TypeOK
  UsedTableExists
  NotAhead
PROPERTIES
  PositionForward
  FullIsRotated
  HookReturns
