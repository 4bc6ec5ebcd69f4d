\* Two exporters, either of which fails; rotation; the disk works, no crash.
SPECIFICATION Spec
CONSTANTS
  e1 = e1
  e2 = e2
  Exporter <- TwoExporters
  TypedExporter = {}
  PipelineName = audit_log
  MaxBatch = 2
  MaxLines = 1
  MaxRestart = 0
  MaxFault = 0
  CanFill = FALSE
  Torn = Torn
  Finish = Finish
SYMMETRY MCSymmetry
INVARIANTS
  HandledIsKept
  RemovedWasExported
\* The bounded run of batches ends.
CHECK_DEADLOCK FALSE
