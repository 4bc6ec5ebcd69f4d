----------------------------- MODULE MCScheduler -----------------------------
(* Model-checking instance of Scheduler: interchangeable servers.            *)
EXTENDS Scheduler, TLC

CONSTANTS n1, n2

TwoInstances == {n1, n2}
MCSymmetry == Permutations(TwoInstances)
=============================================================================
