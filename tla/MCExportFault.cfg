\* A disk that fills up, writes that fail, a crash; progress of the monitor.
SPECIFICATION FairSpec
CONSTANTS
  e1 = e1
  e2 = e2
  Exporter <- OneExporter
  TypedExporter = {}
  PipelineName = audit_log
  MaxBatch = 2
  MaxLines = 1
  MaxRestart = 2
  MaxFault = 1
  CanFill = TRUE
  Torn = Torn
  Finish = Finish
INVARIANTS
  TypeOK
  RemovedWasExported
  HandledIsKept
  BufferedIsKept
PROPERTIES
  NormalAfterCleanPass
  PassEnds
  BlockedClears
\* The bounded run of batches ends.
CHECK_DEADLOCK FALSE
