----------------------------- MODULE MCTaskQueue -----------------------------
(* Model-checking instance of TaskQueue: seven tasks, some of them equals.   *)
EXTENDS TaskQueue

CONSTANTS t1, t2, t3, t4, t5, t6, t7

SevenTasks == {t1, t2, t3, t4, t5, t6, t7}
Priorities == [t \in SevenTasks |-> CASE t \in {t1, t2} -> 1
                                      [] t \in {t3, t4, t5} -> 2
                                      [] OTHER -> 3]
=============================================================================
