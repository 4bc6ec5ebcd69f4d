------------------------------- MODULE MCExport -------------------------------
(* Model-checking instances of Export.  The exporters are interchangeable;   *)
(* the pipeline's own name is none of them, as in etc/auditlog-api.yaml.     *)
EXTENDS Export

CONSTANTS e1, e2

OneExporter == {e1}
TwoExporters == {e1, e2}
MCSymmetry == Permutations(TwoExporters)
=============================================================================
