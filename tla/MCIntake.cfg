\* Two callers, two Close calls, batches of two, a channel of two, the log id hook.
SPECIFICATION FairSpec
CONSTANTS
  r1 = r1
  r2 = r2
  r3 = r3
  h1 = h1
  h2 = h2
  c1 = c1
  c2 = c2
  NoItem = NoItem
  Item <- MCItem
  Pusher <- MCPusher
  Closer <- MCCloser
  BatchSize = 2
  QueueFactor = 1
  HookAsserts = TRUE
INVARIANTS
  TypeOK
  NoSendOnClosed
  HandoffExact
  DrainedOnExit
  BatchBound
PROPERTIES
  ImplementsHandoff
  AcceptedIsFlushed
  CloseTerminates
\* The system stops for good once every call has returned.
CHECK_DEADLOCK FALSE
