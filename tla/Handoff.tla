------------------------------- MODULE Handoff -------------------------------
(***************************************************************************)
(* What a pipeline promises its callers: every record a Push accepted is   *)
(* handed to the exporters' side (flushBatch) exactly once, in the order   *)
(* of acceptance, in batches of any size.  Records are only accepted while *)
(* the pipeline is open, and a pipeline that has finished has handed over  *)
(* everything it accepted.                                                 *)
(***************************************************************************)
EXTENDS Integers, Sequences

CONSTANT Item     \* the records callers push

VARIABLES
  accepted,       \* records Push returned nil for, in order
  flushed,        \* records handed to flushBatch, in order
  finished        \* the pipeline has stopped for good

vars == <<accepted, flushed, finished>>

Init ==
  /\ accepted = <<>>
  /\ flushed = <<>>
  /\ finished = FALSE

\* A record is accepted.
Accept ==
  /\ ~finished
  /\ \E d \in Item : accepted' = Append(accepted, d)
  /\ UNCHANGED <<flushed, finished>>

\* The next n accepted records, in order, are handed over as one batch.
HandOver ==
  /\ \E n \in (Len(flushed) + 1) .. Len(accepted) :
       flushed' = SubSeq(accepted, 1, n)
  /\ UNCHANGED <<accepted, finished>>

\* The last batch is handed over, and the pipeline stops in the same step
\* when nothing was left.
Finish ==
  /\ ~finished
  /\ flushed' = accepted
  /\ finished' = TRUE
  /\ UNCHANGED accepted

Next == Accept \/ HandOver \/ Finish

Spec == Init /\ [][Next]_vars
=============================================================================
