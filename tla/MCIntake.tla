------------------------------- MODULE MCIntake -------------------------------
(* Model-checking instance of Intake: values for its constants.              *)
EXTENDS Intake

CONSTANTS r1, r2, r3, h1, h2, c1, c2

MCItem == {r1, r2, r3}
MCPusher == {h1, h2}
MCCloser == {c1, c2}
=============================================================================
