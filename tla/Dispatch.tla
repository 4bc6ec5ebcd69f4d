------------------------------- MODULE Dispatch -------------------------------
(***************************************************************************)
(* How one server dispatches its tasks (pkg/scheduler): the time wheel     *)
(* (timewheel.go), the queue of due tasks, the scheduler loop and runTask  *)
(* (scheduler.go) and the circuit breaker (circuitbreaker.go).  What the   *)
(* lock answers is left open here, as are the rows runTask reads and       *)
(* writes; modules MySQLLock and Scheduler are about them.  The queue is   *)
(* used as WaitQueue promises it.                                          *)
(*                                                                         *)
(* Time is relative: wait[t] is NextRunTime - now, in wheel ticks of 50 ms *)
(* and rounded down, so that "now is after NextRunTime" is wait[t] < 0.    *)
(* Time steps between the goroutines' steps.  The wheel's goroutine is     *)
(* done with a tick before the next; an AddTask takes at most AddDelay     *)
(* ticks from reading currentSlot to inserting; the loop and the runs take *)
(* any time.  Tasks are registered, and the loop started, within a tick.   *)
(*                                                                         *)
(* Bound: MaxLate, below which lateness is not told apart.                 *)
(***************************************************************************)
EXTENDS Integers, FiniteSets

CONSTANTS
  Task,
  Priority,
  None,          \* no task; not isolated; no AddTask under way
  Slots,         \* slots of the wheel: 500 ms / interval
  SlotTicks,     \* ticks that AddTask takes a slot for: 100 ms / interval
  Interval,      \* ExeInterval, in ticks
  Ahead,         \* how far ahead the time in a task's row can be
  AddDelay,
  Threshold,     \* failures that open the breaker
  Isolate,       \* isolateTime, in ticks
  MaxLate

ASSUME DispatchAssumption ==
  /\ Slots \in Nat \ {0} /\ SlotTicks \in Nat \ {0}
  /\ Interval \in Nat \ {0} /\ Ahead \subseteq 0 .. Interval
  /\ AddDelay \in Nat
  /\ Threshold \in Nat \ {0} /\ Isolate \in Nat /\ MaxLate \in Nat \ {0}

\* An AddTask under way: the slot it computed, and the ticks since.
Pending == [slot : 0 .. Slots - 1, age : 0 .. AddDelay]

ASSUME NoneAssumption ==
  None \notin Task /\ None \notin Nat /\ None \notin Pending

VARIABLES
  fresh,         \* tasks not yet registered
  wait,          \* NextRunTime - now
  slots,         \* TimeWheel.slots
  cur,           \* TimeWheel.currentSlot
  ticked,        \* a tick is in the ticker's channel
  turning,       \* the wheel's goroutine is in its loop body
  hand,          \* currentTasks it has not looked at
  add,           \* the AddTask calls of the loop and the runs: see Pending
  queue,         \* the queue of due tasks
  loop,          \* the task the scheduler loop holds
  step,          \* where the loop is with it
  run,           \* where runTask is
  sleep,         \* ticks it still sleeps
  failCount, tripped,  \* the breaker; tripped: ticks since, or None
  overdue        \* history: tasks registered late and not yet popped

tasks       == <<fresh, overdue>>
wheelVars   == <<slots, cur, turning, hand>>
loopVars    == <<loop, step>>
runVars     == <<run, sleep>>
breakerVars == <<failCount, tripped>>
vars == <<tasks, wait, wheelVars, ticked, add, queue, loopVars, runVars,
          breakerVars>>

Q == INSTANCE WaitQueue

Init ==
  /\ fresh = Task
  /\ wait = [t \in Task |-> 0]
  /\ slots = [s \in 0 .. Slots - 1 |-> {}]
  /\ cur = 0
  /\ ticked = FALSE /\ turning = FALSE /\ hand = {}
  /\ add = [t \in Task |-> None]
  /\ Q!Start
  /\ loop = None /\ step = "pop"
  /\ run = [t \in Task |-> "off"] /\ sleep = [t \in Task |-> 0]
  /\ failCount = [t \in Task |-> 0] /\ tripped = [t \in Task |-> None]
  /\ overdue = {}

\* Mutant of Target: the slot after the span is forgotten.
TargetTooNear(w) ==
  LET span == IF w < 0 THEN 0 ELSE w \div SlotTicks
  IN  (cur + span) % Slots

\* AddTask: a time in the past counts as now.
Target(w) ==
  LET span == IF w < 0 THEN 0 ELSE w \div SlotTicks
  IN  (cur + span + 1) % Slots

-----------------------------------------------------------------------------
(* RegisterTask and AddTask *)

\* The row has a time, in the past or up to an interval ahead, or is created.
Register(t) ==
  /\ t \in fresh
  /\ fresh' = fresh \ {t}
  /\ \E w \in {-1, Interval} \union Ahead :
       /\ wait' = [wait EXCEPT ![t] = w]
       /\ slots' = [slots EXCEPT ![Target(w)] = @ \union {t}]
       /\ overdue' = IF w < 0 THEN overdue \union {t} ELSE overdue
  /\ UNCHANGED <<cur, turning, hand, ticked, add, queue, loopVars, runVars,
                 breakerVars>>

Started == fresh = {}

\* SetNextRunTime(now + ExeInterval); AddTask computes the slot from
\* currentSlot, without a lock.
AddCall(t) ==
  /\ wait' = [wait EXCEPT ![t] = Interval]
  /\ add' = [add EXCEPT ![t] = [slot |-> Target(Interval), age |-> 0]]

\* It inserts the task, under the lock of that slot.
AddInsert(t) ==
  /\ add[t] # None
  /\ slots' = [slots EXCEPT ![add[t].slot] = @ \union {t}]
  /\ add' = [add EXCEPT ![t] = None]
  /\ IF loop = t THEN loop' = None /\ step' = "pop" ELSE UNCHANGED loopVars
  /\ UNCHANGED <<tasks, wait, cur, turning, hand, ticked, queue, runVars,
                 breakerVars>>

-----------------------------------------------------------------------------
(* The goroutine of TimeWheel.Run *)

\* A tick: take the tasks of the current slot and empty it.
HandTick ==
  /\ Started /\ ticked /\ ~turning
  /\ ticked' = FALSE
  /\ turning' = TRUE
  /\ hand' = slots[cur]
  /\ slots' = [slots EXCEPT ![cur] = {}]
  /\ UNCHANGED <<tasks, wait, cur, add, queue, loopVars, runVars, breakerVars>>

\* Mutant of HandPush: a task in its slot is taken to be due.
HandPushAll(t) ==
  /\ t \in hand
  /\ Q!Push(t)
  /\ hand' = hand \ {t}
  /\ UNCHANGED <<tasks, wait, slots, cur, turning, ticked, add, loopVars,
                 runVars, breakerVars>>

HandPush(t) ==
  /\ t \in hand
  /\ wait[t] < 0
  /\ Q!Push(t)
  /\ hand' = hand \ {t}
  /\ UNCHANGED <<tasks, wait, slots, cur, turning, ticked, add, loopVars,
                 runVars, breakerVars>>

\* Not due: AddTask, by the goroutine that moves currentSlot itself.
HandAdd(t) ==
  /\ t \in hand
  /\ wait[t] >= 0
  /\ slots' = [slots EXCEPT ![Target(wait[t])] = @ \union {t}]
  /\ hand' = hand \ {t}
  /\ UNCHANGED <<tasks, wait, cur, turning, ticked, add, queue, loopVars,
                 runVars, breakerVars>>

\* Mutant of HandMove: the slot is emptied when the turn is over.
HandMoveClears ==
  /\ turning /\ hand = {}
  /\ slots' = [slots EXCEPT ![cur] = {}]
  /\ cur' = (cur + 1) % Slots
  /\ turning' = FALSE
  /\ UNCHANGED <<tasks, wait, hand, ticked, add, queue, loopVars,
                 runVars, breakerVars>>

HandMove ==
  /\ turning /\ hand = {}
  /\ cur' = (cur + 1) % Slots
  /\ turning' = FALSE
  /\ UNCHANGED <<tasks, wait, slots, hand, ticked, add, queue, loopVars,
                 runVars, breakerVars>>

-----------------------------------------------------------------------------
(* The scheduler loop and the breaker's IsIsolated *)

LoopPop ==
  /\ Started /\ loop = None
  /\ \E t \in queue : Q!Pop(t) /\ loop' = t /\ overdue' = overdue \ {t}
  /\ step' = "lock"
  /\ UNCHANGED <<fresh, wait, wheelVars, ticked, add, runVars, breakerVars>>

\* TryLock says no, or fails: back to the wheel.
LoopRefused ==
  /\ step = "lock"
  /\ AddCall(loop)
  /\ step' = "add"
  /\ UNCHANGED <<tasks, wheelVars, ticked, queue, loop, runVars, breakerVars>>

LoopLocked ==
  /\ step = "lock"
  /\ step' = "breaker"
  /\ UNCHANGED <<tasks, wait, wheelVars, ticked, add, queue, loop, runVars,
                 breakerVars>>

Isolated(t) == tripped[t] # None /\ ~(tripped[t] > Isolate)

\* Mutant of Expire: the failures are not forgotten.
ExpireKeepsCount(t) ==
  /\ tripped' = [tripped EXCEPT ![t] = IF Isolated(t) THEN @ ELSE None]
  /\ UNCHANGED failCount

\* IsIsolated closes the breaker of a task whose isolation is over.
Expire(t) ==
  IF tripped[t] # None /\ ~Isolated(t)
  THEN /\ failCount' = [failCount EXCEPT ![t] = 0]
       /\ tripped' = [tripped EXCEPT ![t] = None]
  ELSE UNCHANGED breakerVars

LoopIsolated ==
  /\ step = "breaker"
  /\ Isolated(loop)
  /\ AddCall(loop)
  /\ step' = "add"
  /\ UNCHANGED <<tasks, wheelVars, ticked, queue, loop, runVars, breakerVars>>

\* Mutant of LoopRun: the answer of IsIsolated is not looked at.
LoopRunAnyway ==
  /\ step = "breaker"
  /\ Expire(loop)
  /\ run' = [run EXCEPT ![loop] = "read"]
  /\ loop' = None /\ step' = "pop"
  /\ UNCHANGED <<tasks, wait, wheelVars, ticked, add, queue, sleep>>

LoopRun ==
  /\ step = "breaker"
  /\ ~Isolated(loop)
  /\ Expire(loop)
  /\ run' = [run EXCEPT ![loop] = "read"]
  /\ loop' = None /\ step' = "pop"
  /\ UNCHANGED <<tasks, wait, wheelVars, ticked, add, queue, sleep>>

-----------------------------------------------------------------------------
(* runTask *)

Goes(t, from, to) ==
  /\ run[t] = from
  /\ run' = [run EXCEPT ![t] = to]
  /\ UNCHANGED <<tasks, wheelVars, ticked, queue, loopVars>>

\* The row's next run time, which another server may have written, is up to
\* an interval ahead: sleep until then.
RunRead(t) ==
  /\ Goes(t, "read", "sleep")
  /\ \E w \in {0} \union Ahead : sleep' = [sleep EXCEPT ![t] = w]
  /\ UNCHANGED <<wait, add, breakerVars>>

\* Mutant of RunReadError: returns before the deferred function is set up.
RunReadErrorReturns(t) ==
  /\ Goes(t, "read", "off")
  /\ UNCHANGED <<wait, add, sleep, breakerVars>>

RunReadError(t) ==
  /\ Goes(t, "read", "ended")
  /\ UNCHANGED <<wait, add, sleep, breakerVars>>

RunWake(t) ==
  /\ Goes(t, "sleep", "run")
  /\ sleep[t] = 0
  /\ UNCHANGED <<wait, add, sleep, breakerVars>>

\* OnSuccess.
RunOk(t) ==
  /\ Goes(t, "run", "ended")
  /\ failCount' = [failCount EXCEPT ![t] = 0]
  /\ tripped' = [tripped EXCEPT ![t] = None]
  /\ UNCHANGED <<wait, add, sleep>>

\* OnFailure.
RunFail(t) ==
  /\ Goes(t, "run", "failed")
  /\ failCount' = [failCount EXCEPT ![t] = @ + 1]
  /\ tripped' = IF failCount'[t] >= Threshold
                THEN [tripped EXCEPT ![t] = 0] ELSE tripped
  /\ UNCHANGED <<wait, add, sleep>>

\* onFailure asks the breaker, and unlocks the task when it is isolated.
RunCheck(t) ==
  /\ Goes(t, "failed", "ended")
  /\ Expire(t)
  /\ UNCHANGED <<wait, add, sleep>>

\* A panic is recovered from; the breaker does not hear of it.
RunPanic(t) ==
  /\ Goes(t, "run", "ended")
  /\ UNCHANGED <<wait, add, sleep, breakerVars>>

\* The deferred function: back to the wheel.
RunEnd(t) ==
  /\ Goes(t, "ended", "off")
  /\ AddCall(t)
  /\ UNCHANGED <<sleep, breakerVars>>

-----------------------------------------------------------------------------
Later(w) == IF w > -MaxLate THEN w - 1 ELSE w

\* A tick of time.  NextRunTime of a running task is not looked at.
Tick ==
  /\ Started /\ ~ticked /\ ~turning
  /\ \A t \in Task : add[t] # None => add[t].age < AddDelay
  /\ ticked' = TRUE
  /\ wait' = [t \in Task |-> IF run[t] = "off" THEN Later(wait[t])
                                                ELSE wait[t]]
  /\ add' = [t \in Task |-> IF add[t] = None THEN None
                            ELSE [add[t] EXCEPT !.age = @ + 1]]
  /\ sleep' = [t \in Task |-> IF sleep[t] > 0 THEN sleep[t] - 1 ELSE 0]
  /\ tripped' = [t \in Task |->
                   IF tripped[t] = None \/ tripped[t] > Isolate
                   THEN tripped[t] ELSE tripped[t] + 1]
  /\ UNCHANGED <<tasks, wheelVars, queue, loopVars, run, failCount>>

HandStep == HandTick \/ HandMove \/ \E t \in Task : HandPush(t) \/ HandAdd(t)
LoopStep == LoopPop \/ LoopRefused \/ LoopLocked \/ LoopIsolated \/ LoopRun
RunStep(t) == \/ RunRead(t) \/ RunReadError(t) \/ RunWake(t) \/ RunOk(t)
              \/ RunFail(t) \/ RunCheck(t) \/ RunPanic(t) \/ RunEnd(t)

Next == \/ Tick \/ HandStep \/ LoopStep
        \/ \E t \in Task : Register(t) \/ AddInsert(t) \/ RunStep(t)

Spec == Init /\ [][Next]_vars

\* Every goroutine that can run does, runs return, the tasks are registered.
\* The lock is granted some time, when asked for again and again.
FairSpec ==
  /\ Spec
  /\ WF_vars(Tick \/ HandStep) /\ WF_vars(LoopStep)
  /\ \A t \in Task : /\ WF_vars(Register(t) \/ AddInsert(t) \/ RunStep(t))
                     /\ SF_vars(loop = t /\ LoopLocked)

-----------------------------------------------------------------------------
TypeOK ==
  /\ fresh \subseteq Task /\ overdue \subseteq Task
  /\ wait \in [Task -> -MaxLate .. Interval]
  /\ slots \in [0 .. Slots - 1 -> SUBSET Task] /\ cur \in 0 .. Slots - 1
  /\ ticked \in BOOLEAN /\ turning \in BOOLEAN /\ hand \subseteq Task
  /\ add \in [Task -> Pending \union {None}]
  /\ queue \subseteq Task
  /\ loop \in Task \union {None}
  /\ step \in {"pop", "lock", "breaker", "add"}
  /\ run \in [Task -> {"off", "read", "sleep", "run", "failed", "ended"}]
  /\ sleep \in [Task -> 0 .. Interval]
  /\ failCount \in [Task -> 0 .. Threshold]
  /\ tripped \in [Task -> 0 .. Isolate + 1 \union {None}]

\* Where a task is.
Places(t) ==
  {<<"slot", s>> : s \in {s \in 0 .. Slots - 1 : t \in slots[s]}}
    \union {<<p, 0>> : p \in
       {p \in {"fresh", "hand", "queue", "loop", "run", "add"} :
          CASE p = "fresh" -> t \in fresh
            [] p = "hand"  -> t \in hand
            [] p = "queue" -> t \in queue
            [] p = "loop"  -> loop = t /\ step # "add"
            [] p = "run"   -> run[t] # "off"
            [] p = "add"   -> add[t] # None}}

\* A task is in exactly one place: registered once, it is never lost by the
\* wheel and never in the hands of two goroutines.  (AddTask writes slots that
\* the wheel's goroutine takes and empties, with a slot it computed earlier.)
TaskConserved == \A t \in Task : Cardinality(Places(t)) = 1

\* The loop gets a task only after its NextRunTime, although a slot stands
\* for 100 ms, passes after 50 ms, and comes round before long waits are over.
NeverEarly ==
  \A t \in Task :
    t \in queue \/ (loop = t /\ step # "add") => wait[t] < 0

InWheel(t) == t \in hand \/ \E s \in 0 .. Slots - 1 : t \in slots[s]

\* A task is in the wheel no longer than two ticks after its NextRunTime: the
\* racing currentSlot, the late insertion and the span in other units never
\* cost a turn of the wheel.  (An overdue task that is registered waits up to
\* two ticks besides.)
LateBound ==
  \A t \in Task \ overdue : InWheel(t) \/ add[t] # None => wait[t] >= -2

\* No run is under way of a task whose breaker is open, and no step of another
\* goroutine opens it meanwhile.
IsolatedRests ==
  \A t \in Task : run[t] \in {"read", "sleep", "run"} => tripped[t] = None

\* As long as the loop keeps up with the queue, every task is run again and
\* again: whatever fails, panics or is isolated, and whatever its priority.
RunsAgain ==
  []<>(queue = {}) => \A t \in Task : []<>(run[t] = "read")
=============================================================================
