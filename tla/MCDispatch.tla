------------------------------ MODULE MCDispatch ------------------------------
(* Model-checking instance of Dispatch: two tasks of different priority.     *)
EXTENDS Dispatch

CONSTANTS t1, t2

OneTask == {t1}
TwoTasks == {t1, t2}
Priorities == [t \in TwoTasks |-> IF t = t1 THEN 1 ELSE 2]
=============================================================================
