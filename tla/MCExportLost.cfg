\* Lines saved to a file already removed.
SPECIFICATION Spec
CONSTANTS
  e1 = e1
  e2 = e2
  Exporter <- OneExporter
  TypedExporter = {}
  PipelineName = audit_log
  MaxBatch = 2
  MaxLines = 1
  MaxRestart = 0
  MaxFault = 0
  CanFill = FALSE
  Torn = Torn
  Finish = Finish
INVARIANTS
  SavedIsRecoverable
\* The bounded run of batches ends.
CHECK_DEADLOCK FALSE
