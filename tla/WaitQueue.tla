------------------------------ MODULE WaitQueue ------------------------------
(***************************************************************************)
(* What the scheduler's queue of due tasks promises: a task pushed is      *)
(* popped once, and never before a waiting task of higher priority.        *)
(* TaskQueue (pkg/scheduler/task.go) implements it, Dispatch uses it.      *)
(***************************************************************************)
EXTENDS Integers

CONSTANTS Task, Priority

VARIABLE queue

Start == queue = {}

Push(t) == t \notin queue /\ queue' = queue \union {t}

Highest(t) == \A u \in queue : ~(Priority[u] > Priority[t])

Pop(t) == t \in queue /\ Highest(t) /\ queue' = queue \ {t}

Serve == Start /\ [][\E t \in Task : Push(t) \/ Pop(t)]_queue
=============================================================================
