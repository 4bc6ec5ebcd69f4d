\* Recovery to the MySQL exporter, on a disk that works and with no crash.
SPECIFICATION RecoverySpec
CONSTANTS
  e1 = e1
  e2 = e2
  Exporter <- OneExporter
  TypedExporter <- OneExporter
  PipelineName = audit_log
  MaxBatch = 1
  MaxLines = 1
  MaxRestart = 0
  MaxFault = 0
  CanFill = FALSE
  Torn = Torn
  Finish = Finish
PROPERTIES
  RetriedIsExported
\* The bounded run of batches ends.
CHECK_DEADLOCK FALSE
