\* Recovery of blocked data.
SPECIFICATION Spec
CONSTANTS
  e1 = e1
  e2 = e2
  Exporter <- OneExporter
  TypedExporter = {}
  PipelineName = audit_log
  MaxBatch = 2
  MaxLines = 1
  MaxRestart = 1
  MaxFault = 0
  CanFill = TRUE
  Torn = Torn
  Finish = Finish
INVARIANTS
  NoPanic
\* The bounded run of batches ends.
CHECK_DEADLOCK FALSE
