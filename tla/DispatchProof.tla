----------------------------- MODULE DispatchProof -----------------------------
(***************************************************************************)
(* Dispatch for every set of tasks, size and speed of the wheel, interval, *)
(* and threshold and time of the breaker.                                  *)
(*                                                                         *)
(* A task is never early because the only way into the queue is the hand's *)
(* look at the clock, and nobody sets the time of a task that is in the    *)
(* queue or with the loop: that takes having the task, and a task is in    *)
(* one place.  It is not late because the hand comes to every slot within  *)
(* a turn, and an interval is longer than that: how long the hand still    *)
(* has to go is known of every task in the wheel, modulo the wheel's size. *)
(***************************************************************************)
EXTENDS Dispatch, TLAPS, FiniteSetTheorems

\* The loop's variables agree, and the hand is empty between turns.
Goroutines ==
  /\ step = "pop" <=> loop = None
  /\ step = "add" => add[loop] # None
  /\ turning \/ hand = {}

\* A closed breaker has not reached its threshold.
Counted == \A t \in Task : tripped[t] = None => failCount[t] < Threshold

TypeInv == TypeOK /\ Goroutines /\ Counted /\ IsolatedRests

-----------------------------------------------------------------------------
(* The type invariant, and the breaker *)

LEMMA TargetType == TypeOK => \A w \in Int : Target(w) \in 0 .. Slots - 1
<1> SUFFICES ASSUME TypeOK, NEW w \in Int PROVE Target(w) \in 0 .. Slots - 1
  OBVIOUS
<1> DEFINE span == IF w < 0 THEN 0 ELSE w \div SlotTicks
<1>1. span \in Int
  BY DispatchAssumption
<1>2. cur + span + 1 \in Int
  BY <1>1 DEF TypeOK
<1>3. \A n \in Int : n % Slots \in 0 .. Slots - 1
  BY DispatchAssumption
<1> QED
  BY <1>2, <1>3 DEF Target

LEMMA InitTyped == Init => TypeInv
<1> SUFFICES ASSUME Init PROVE TypeInv
  OBVIOUS
<1> USE DispatchAssumption, NoneAssumption DEF Init
<1>1. TypeOK
  <2>1. /\ 0 \in -MaxLate .. Interval /\ 0 \in 0 .. Slots - 1
        /\ 0 \in 0 .. Interval /\ 0 \in 0 .. Threshold
    OBVIOUS
  <2>2. queue \subseteq Task
    BY DEF Q!Start
  <2> QED
    BY <2>1, <2>2 DEF TypeOK
<1>2. Goroutines /\ Counted /\ IsolatedRests
  BY DEF Goroutines, Counted, IsolatedRests
<1> QED
  BY <1>1, <1>2 DEF TypeInv

LEMMA RegisterTyped ==
  ASSUME TypeInv, NEW t \in Task, Register(t)
  PROVE  TypeInv'
<1>1. PICK w \in {-1, Interval} \union Ahead :
        /\ wait' = [wait EXCEPT ![t] = w]
        /\ slots' = [slots EXCEPT ![Target(w)] = @ \union {t}]
  BY DEF Register
<1>2. w \in -MaxLate .. Interval /\ Target(w) \in 0 .. Slots - 1
  BY DispatchAssumption, TargetType DEF TypeInv
<1>3. wait' \in [Task -> -MaxLate .. Interval]
  BY <1>1, <1>2 DEF TypeInv, TypeOK
<1>4. slots' \in [0 .. Slots - 1 -> SUBSET Task]
  BY <1>1, <1>2 DEF TypeInv, TypeOK
<1>5. /\ fresh' \subseteq Task /\ overdue' \subseteq Task
      /\ UNCHANGED <<cur, turning, hand, ticked, add, queue, loopVars,
                     runVars, breakerVars>>
  BY DEF Register, TypeInv, TypeOK
<1> QED
  BY <1>3, <1>4, <1>5 DEF TypeInv, TypeOK, Goroutines, Counted, IsolatedRests,
                          loopVars, runVars, breakerVars

LEMMA AddInsertTyped ==
  ASSUME TypeInv, NEW t \in Task, AddInsert(t)
  PROVE  TypeInv'
<1>1. add[t].slot \in 0 .. Slots - 1
  BY DEF AddInsert, TypeInv, TypeOK, Pending
<1>2. slots' \in [0 .. Slots - 1 -> SUBSET Task]
  BY <1>1 DEF AddInsert, TypeInv, TypeOK
<1>3. /\ add' \in [Task -> Pending \union {None}]
      /\ \A u \in Task \ {t} : add'[u] = add[u]
  BY DEF AddInsert, TypeInv, TypeOK
<1>4. /\ \/ loop = t /\ loop' = None /\ step' = "pop"
         \/ loop # t /\ UNCHANGED loopVars
      /\ UNCHANGED <<tasks, wait, cur, turning, hand, ticked, queue, runVars,
                     breakerVars>>
  BY DEF AddInsert
<1>5. TypeOK'
  BY <1>2, <1>3, <1>4 DEF TypeInv, TypeOK, tasks, loopVars, runVars, breakerVars
<1>6. Goroutines'
  BY <1>3, <1>4 DEF TypeInv, TypeOK, Goroutines, loopVars
<1>7. Counted' /\ IsolatedRests'
  BY <1>4 DEF TypeInv, Counted, IsolatedRests, runVars, breakerVars
<1> QED
  BY <1>5, <1>6, <1>7 DEF TypeInv

LEMMA HandTyped ==
  ASSUME TypeInv, HandStep
  PROVE  TypeInv'
<1> DEFINE Typed ==
      /\ slots' \in [0 .. Slots - 1 -> SUBSET Task] /\ cur' \in 0 .. Slots - 1
      /\ ticked' \in BOOLEAN /\ turning' \in BOOLEAN /\ hand' \subseteq Task
      /\ queue' \subseteq Task /\ (turning' \/ hand' = {})
      /\ UNCHANGED <<tasks, wait, add, loopVars, runVars, breakerVars>>
<1>1. ASSUME HandTick PROVE Typed
  <2>1. slots[cur] \subseteq Task
    BY DEF TypeInv, TypeOK
  <2>2. slots' \in [0 .. Slots - 1 -> SUBSET Task]
    BY <1>1 DEF HandTick, TypeInv, TypeOK
  <2>3. Typed
    BY <1>1, <2>1, <2>2 DEF HandTick, TypeInv, TypeOK
  <2> QED
    BY <2>3
<1>2. ASSUME HandMove PROVE Typed
  <2>1. \A n \in Int : n % Slots \in 0 .. Slots - 1
    BY DispatchAssumption
  <2>2. cur' \in 0 .. Slots - 1
    BY <1>2, <2>1 DEF HandMove, TypeInv, TypeOK
  <2>3. Typed
    BY <1>2, <2>2 DEF HandMove, TypeInv, TypeOK
  <2> QED
    BY <2>3
<1>3. ASSUME NEW t \in Task, HandPush(t) PROVE Typed
  BY <1>3 DEF HandPush, Q!Push, TypeInv, TypeOK, Goroutines
<1>4. ASSUME NEW t \in Task, HandAdd(t) PROVE Typed
  <2>1. wait[t] \in Int
    BY DispatchAssumption DEF TypeInv, TypeOK
  <2>2. Target(wait[t]) \in 0 .. Slots - 1
    BY <2>1, TargetType DEF TypeInv
  <2>3. slots' \in [0 .. Slots - 1 -> SUBSET Task]
    BY <1>4, <2>2 DEF HandAdd, TypeInv, TypeOK
  <2> QED
    BY <1>4, <2>3 DEF HandAdd, TypeInv, TypeOK, Goroutines
<1>5. Typed
  BY <1>1, <1>2, <1>3, <1>4 DEF HandStep
<1>6. TypeOK'
  BY <1>5 DEF TypeInv, TypeOK, tasks, loopVars, runVars, breakerVars
<1>7. Goroutines' /\ Counted' /\ IsolatedRests'
  BY <1>5 DEF TypeInv, Goroutines, Counted, IsolatedRests, loopVars, runVars,
              breakerVars
<1> QED
  BY <1>6, <1>7 DEF TypeInv

\* What AddTask does to its variables before it inserts.
LEMMA AddCallTyped ==
  ASSUME TypeInv, NEW t \in Task, AddCall(t)
  PROVE  /\ wait' \in [Task -> -MaxLate .. Interval]
         /\ add' \in [Task -> Pending \union {None}]
         /\ add'[t] # None
         /\ \A u \in Task \ {t} : add'[u] = add[u] /\ wait'[u] = wait[u]
<1>1. Target(Interval) \in 0 .. Slots - 1
  BY DispatchAssumption, TargetType DEF TypeInv
<1>2. [slot |-> Target(Interval), age |-> 0] \in Pending
  BY <1>1, DispatchAssumption DEF Pending
<1>3. Interval \in -MaxLate .. Interval
  BY DispatchAssumption
<1> DEFINE new == [slot |-> Target(Interval), age |-> 0]
<1>4. add' = [add EXCEPT ![t] = new]
  BY DEF AddCall
<1> HIDE DEF new
<1>5. new \in Pending
  BY <1>2 DEF new
<1>6. /\ add' \in [Task -> Pending \union {None}]
      /\ add'[t] = new /\ \A u \in Task \ {t} : add'[u] = add[u]
  BY <1>4, <1>5 DEF TypeInv, TypeOK
<1>7. /\ wait' \in [Task -> -MaxLate .. Interval]
      /\ \A u \in Task \ {t} : wait'[u] = wait[u]
  BY <1>3 DEF AddCall, TypeInv, TypeOK
<1> QED
  BY <1>5, <1>6, <1>7, NoneAssumption

\* Expire closes a breaker that is open for long enough, and opens none.
LEMMA ExpireTyped ==
  ASSUME TypeInv, NEW t \in Task, Expire(t)
  PROVE  /\ failCount' \in [Task -> 0 .. Threshold]
         /\ tripped' \in [Task -> 0 .. Isolate + 1 \union {None}]
         /\ Counted'
         /\ ~Isolated(t) => tripped'[t] = None
         /\ \A u \in Task : tripped[u] = None => tripped'[u] = None
<1>1. CASE tripped[t] # None /\ ~Isolated(t)
  <2>1. /\ failCount' \in [Task -> 0 .. Threshold]
        /\ failCount'[t] = 0 /\ \A u \in Task \ {t} : failCount'[u] = failCount[u]
    <3>1. failCount' = [failCount EXCEPT ![t] = 0] /\ 0 \in 0 .. Threshold
      BY <1>1, DispatchAssumption DEF Expire
    <3> QED
      BY <3>1 DEF TypeInv, TypeOK
  <2>2. /\ tripped' \in [Task -> 0 .. Isolate + 1 \union {None}]
        /\ tripped'[t] = None /\ \A u \in Task \ {t} : tripped'[u] = tripped[u]
    BY <1>1 DEF Expire, TypeInv, TypeOK
  <2>3. Counted'
    BY <2>1, <2>2, DispatchAssumption DEF TypeInv, Counted
  <2> QED
    BY <2>1, <2>2, <2>3
<1>2. CASE ~(tripped[t] # None /\ ~Isolated(t))
  BY <1>2 DEF Expire, TypeInv, TypeOK, Counted, breakerVars
<1> QED
  BY <1>1, <1>2

LEMMA LoopTyped ==
  ASSUME TypeInv, LoopStep
  PROVE  TypeInv'
<1>1. CASE LoopPop
  BY <1>1, NoneAssumption
     DEF LoopPop, Q!Pop, TypeInv, TypeOK, Goroutines, Counted, IsolatedRests,
         wheelVars, runVars, breakerVars
<1>2. ASSUME LoopRefused \/ LoopIsolated PROVE TypeInv'
  <2>1. loop \in Task
    BY <1>2 DEF LoopRefused, LoopIsolated, TypeInv, TypeOK, Goroutines
  <2>2. /\ AddCall(loop) /\ step' = "add"
        /\ UNCHANGED <<tasks, wheelVars, ticked, queue, loop, runVars,
                       breakerVars>>
    BY <1>2 DEF LoopRefused, LoopIsolated
  <2>3. /\ wait' \in [Task -> -MaxLate .. Interval]
        /\ add' \in [Task -> Pending \union {None}]
        /\ add'[loop] # None
    BY <2>1, <2>2, AddCallTyped
  <2>4. TypeOK'
    BY <2>2, <2>3 DEF TypeInv, TypeOK, tasks, wheelVars, runVars, breakerVars
  <2>5. Goroutines'
    BY <2>1, <2>2, <2>3, NoneAssumption DEF TypeInv, Goroutines, wheelVars
  <2>6. Counted' /\ IsolatedRests'
    BY <2>2 DEF TypeInv, Counted, IsolatedRests, runVars, breakerVars
  <2> QED
    BY <2>4, <2>5, <2>6 DEF TypeInv
<1>3. CASE LoopLocked
  BY <1>3 DEF LoopLocked, TypeInv, TypeOK, Goroutines, Counted, IsolatedRests,
              tasks, wheelVars, runVars, breakerVars
<1>4. CASE LoopRun
  <2>1. loop \in Task
    BY <1>4 DEF LoopRun, TypeInv, TypeOK, Goroutines
  <2>2. /\ failCount' \in [Task -> 0 .. Threshold]
        /\ tripped' \in [Task -> 0 .. Isolate + 1 \union {None}]
        /\ Counted' /\ tripped'[loop] = None
        /\ \A u \in Task : tripped[u] = None => tripped'[u] = None
    BY <1>4, <2>1, ExpireTyped DEF LoopRun
  <2>3. /\ run' \in [Task -> {"off", "read", "sleep", "run", "failed", "ended"}]
        /\ \A u \in Task \ {loop} : run'[u] = run[u]
    BY <1>4, <2>1 DEF LoopRun, TypeInv, TypeOK
  <2>4. /\ loop' = None /\ step' = "pop"
        /\ UNCHANGED <<tasks, wait, wheelVars, ticked, add, queue, sleep>>
    BY <1>4 DEF LoopRun
  <2>5. TypeOK'
    BY <2>2, <2>3, <2>4 DEF TypeInv, TypeOK, tasks, wheelVars
  <2>6. Goroutines'
    BY <2>4 DEF TypeInv, Goroutines, wheelVars
  <2>7. IsolatedRests'
    BY <2>2, <2>3 DEF TypeInv, IsolatedRests
  <2> QED
    BY <2>2, <2>5, <2>6, <2>7 DEF TypeInv
<1> QED
  BY <1>1, <1>2, <1>3, <1>4 DEF LoopStep

\* The end of a run, and what it tells the breaker.
LEMMA RunTyped ==
  ASSUME TypeInv, NEW t \in Task, RunStep(t)
  PROVE  TypeInv'
<1> DEFINE RunType == [Task -> {"off", "read", "sleep", "run", "failed", "ended"}]
           Typed ==
      /\ wait' \in [Task -> -MaxLate .. Interval]
      /\ add' \in [Task -> Pending \union {None}]
      /\ \A u \in Task : add[u] # None => add'[u] # None
      /\ sleep' \in [Task -> 0 .. Interval]
      /\ failCount' \in [Task -> 0 .. Threshold]
      /\ tripped' \in [Task -> 0 .. Isolate + 1 \union {None}]
      /\ Counted' /\ IsolatedRests'
<1>0. /\ UNCHANGED <<tasks, wheelVars, ticked, queue, loopVars>>
      /\ run' \in RunType
      /\ \A u \in Task \ {t} : run'[u] = run[u]
  BY DEF RunStep, RunRead, RunReadError, RunWake, RunOk, RunFail, RunCheck,
         RunPanic, RunEnd, Goes, TypeInv, TypeOK
<1>1. ASSUME RunRead(t) PROVE Typed
  <2>1. /\ sleep' \in [Task -> 0 .. Interval]
        /\ run[t] = "read" /\ UNCHANGED <<wait, add, breakerVars>>
    BY <1>1, DispatchAssumption DEF RunRead, Goes, TypeInv, TypeOK
  <2> QED
    BY <2>1, <1>0 DEF TypeInv, TypeOK, Counted, IsolatedRests, breakerVars
<1>2. ASSUME RunReadError(t) PROVE Typed
  BY <1>2, <1>0 DEF RunReadError, Goes, TypeInv, TypeOK, Counted,
                    IsolatedRests, breakerVars
<1>3. ASSUME RunWake(t) PROVE Typed
  BY <1>3, <1>0 DEF RunWake, Goes, TypeInv, TypeOK, Counted, IsolatedRests,
                    breakerVars
<1>4. ASSUME RunPanic(t) PROVE Typed
  BY <1>4, <1>0 DEF RunPanic, Goes, TypeInv, TypeOK, Counted, IsolatedRests,
                    breakerVars
<1>5. ASSUME RunOk(t) PROVE Typed
  <2>1. /\ failCount' \in [Task -> 0 .. Threshold]
        /\ failCount'[t] = 0 /\ \A u \in Task \ {t} : failCount'[u] = failCount[u]
    BY <1>5, DispatchAssumption DEF RunOk, TypeInv, TypeOK
  <2>2. /\ tripped' \in [Task -> 0 .. Isolate + 1 \union {None}]
        /\ tripped'[t] = None /\ \A u \in Task \ {t} : tripped'[u] = tripped[u]
    BY <1>5 DEF RunOk, TypeInv, TypeOK
  <2>3. Counted' /\ IsolatedRests'
    BY <1>0, <2>1, <2>2, DispatchAssumption DEF TypeInv, Counted, IsolatedRests
  <2>4. UNCHANGED <<wait, add, sleep>>
    BY <1>5 DEF RunOk
  <2> QED
    BY <2>1, <2>2, <2>3, <2>4 DEF TypeInv, TypeOK
<1>6. ASSUME RunFail(t) PROVE Typed
  <2>1. run[t] = "run" /\ run'[t] = "failed" /\ UNCHANGED <<wait, add, sleep>>
    BY <1>6 DEF RunFail, Goes, TypeInv, TypeOK
  <2>2. failCount[t] + 1 \in 0 .. Threshold
    BY <2>1, DispatchAssumption
       DEF TypeInv, TypeOK, Counted, IsolatedRests
  <2>3. /\ failCount' \in [Task -> 0 .. Threshold]
        /\ failCount'[t] = failCount[t] + 1
        /\ \A u \in Task \ {t} : failCount'[u] = failCount[u]
    BY <1>6, <2>2 DEF RunFail, TypeInv, TypeOK
  <2>4. /\ tripped' \in [Task -> 0 .. Isolate + 1 \union {None}]
        /\ \A u \in Task \ {t} : tripped'[u] = tripped[u]
        /\ failCount'[t] >= Threshold => tripped'[t] = 0
    BY <1>6, DispatchAssumption DEF RunFail, TypeInv, TypeOK
  <2>5. Counted'
    BY <2>2, <2>3, <2>4, DispatchAssumption, NoneAssumption
       DEF TypeInv, Counted
  <2>6. IsolatedRests'
    BY <1>0, <2>1, <2>4 DEF TypeInv, IsolatedRests
  <2> QED
    BY <2>1, <2>3, <2>4, <2>5, <2>6 DEF TypeInv, TypeOK
<1>7. ASSUME RunCheck(t) PROVE Typed
  <2>1. run'[t] = "ended" /\ Expire(t) /\ UNCHANGED <<wait, add, sleep>>
    BY <1>7 DEF RunCheck, Goes, TypeInv, TypeOK
  <2> QED
    BY <1>0, <2>1, ExpireTyped DEF TypeInv, TypeOK, IsolatedRests
<1>8. ASSUME RunEnd(t) PROVE Typed
  <2>1. run'[t] = "off" /\ AddCall(t) /\ UNCHANGED <<sleep, breakerVars>>
    BY <1>8 DEF RunEnd, Goes, TypeInv, TypeOK
  <2>2. /\ wait' \in [Task -> -MaxLate .. Interval]
        /\ add' \in [Task -> Pending \union {None}]
        /\ \A u \in Task : add[u] # None => add'[u] # None
    BY <2>1, AddCallTyped
  <2> QED
    BY <1>0, <2>1, <2>2 DEF TypeInv, TypeOK, Counted, IsolatedRests, breakerVars
<1>9. Typed
  BY <1>1, <1>2, <1>3, <1>4, <1>5, <1>6, <1>7, <1>8 DEF RunStep
<1>10. TypeOK'
  BY <1>0, <1>9 DEF TypeInv, TypeOK, tasks, wheelVars, loopVars
<1>11. Goroutines'
  BY <1>0, <1>9, NoneAssumption
     DEF TypeInv, TypeOK, Goroutines, wheelVars, loopVars
<1> QED
  BY <1>9, <1>10, <1>11 DEF TypeInv

LEMMA TickTyped ==
  ASSUME TypeInv, Tick
  PROVE  TypeInv'
<1>1. wait' \in [Task -> -MaxLate .. Interval]
  <2>1. \A w \in -MaxLate .. Interval : Later(w) \in -MaxLate .. Interval
    BY DispatchAssumption DEF Later
  <2> QED
    BY <2>1 DEF Tick, TypeInv, TypeOK
<1>2. /\ add' \in [Task -> Pending \union {None}]
      /\ \A t \in Task : add[t] # None => add'[t] # None
  <2> DEFINE older(t) == IF add[t] = None THEN None
                         ELSE [add[t] EXCEPT !.age = @ + 1]
  <2>1. ASSUME NEW t \in Task
        PROVE  /\ older(t) \in Pending \union {None}
               /\ add[t] # None => older(t) # None
    <3>1. CASE add[t] # None
      <4>1. add[t] \in Pending /\ add[t].age < AddDelay
        BY <3>1 DEF Tick, TypeInv, TypeOK
      <4>2. [add[t] EXCEPT !.age = @ + 1] \in Pending
        BY <4>1, DispatchAssumption DEF Pending
      <4> QED
        BY <3>1, <4>2, NoneAssumption
    <3> QED
      BY <3>1
  <2>2. add' = [t \in Task |-> older(t)]
    BY DEF Tick
  <2> QED
    BY <2>1, <2>2
<1>3. sleep' \in [Task -> 0 .. Interval]
  <2>1. \A n \in 0 .. Interval :
          (IF n > 0 THEN n - 1 ELSE 0) \in 0 .. Interval
    BY DispatchAssumption
  <2> QED
    BY <2>1 DEF Tick, TypeInv, TypeOK
<1>4. /\ tripped' \in [Task -> 0 .. Isolate + 1 \union {None}]
      /\ \A t \in Task : tripped'[t] = None <=> tripped[t] = None
  <2>1. ASSUME NEW n \in 0 .. Isolate + 1, ~(n > Isolate)
        PROVE  n + 1 \in 0 .. Isolate + 1 /\ n + 1 # None
    BY <2>1, DispatchAssumption, NoneAssumption
  <2> QED
    BY <2>1 DEF Tick, TypeInv, TypeOK
<1>5. /\ ticked' = TRUE
      /\ UNCHANGED <<tasks, wheelVars, queue, loopVars, run, failCount>>
  BY DEF Tick
<1>6. TypeOK'
  BY <1>1, <1>2, <1>3, <1>4, <1>5 DEF TypeInv, TypeOK, tasks, wheelVars, loopVars
<1>7. Goroutines' /\ Counted' /\ IsolatedRests'
  BY <1>2, <1>4, <1>5, NoneAssumption
     DEF TypeInv, TypeOK, Goroutines, Counted, IsolatedRests, wheelVars, loopVars
<1> QED
  BY <1>6, <1>7 DEF TypeInv

LEMMA NextTyped == TypeInv /\ [Next]_vars => TypeInv'
<1> SUFFICES ASSUME TypeInv, [Next]_vars PROVE TypeInv'
  OBVIOUS
<1>1. CASE UNCHANGED vars
  BY <1>1 DEF vars, tasks, wheelVars, loopVars, runVars, breakerVars, TypeInv,
              TypeOK, Goroutines, Counted, IsolatedRests
<1> QED
  BY <1>1, RegisterTyped, AddInsertTyped, HandTyped, LoopTyped, RunTyped,
     TickTyped DEF Next

-----------------------------------------------------------------------------
(* A task is in one place *)

InSlot(t)  == \E s \in 0 .. Slots - 1 : t \in slots[s]
AtLoop(t)  == loop = t /\ step # "add"
Running(t) == run[t] # "off"
Adding(t)  == add[t] # None

OnePlace(t) ==
  /\ \/ t \in fresh \/ InSlot(t) \/ t \in hand \/ t \in queue
     \/ AtLoop(t) \/ Running(t) \/ Adding(t)
  /\ t \in fresh => ~ \/ InSlot(t) \/ t \in hand \/ t \in queue
                      \/ AtLoop(t) \/ Running(t) \/ Adding(t)
  /\ InSlot(t) => ~ \/ t \in hand \/ t \in queue
                    \/ AtLoop(t) \/ Running(t) \/ Adding(t)
  /\ t \in hand => ~(t \in queue \/ AtLoop(t) \/ Running(t) \/ Adding(t))
  /\ t \in queue => ~(AtLoop(t) \/ Running(t) \/ Adding(t))
  /\ AtLoop(t) => ~(Running(t) \/ Adding(t))
  /\ Running(t) => ~Adding(t)
  /\ \A r, s \in 0 .. Slots - 1 : t \in slots[r] /\ t \in slots[s] => r = s

OnePlaces == \A t \in Task : OnePlace(t)

\* A task is where it was before the step.
Stays(t) ==
  /\ t \in fresh' <=> t \in fresh
  /\ \A s \in 0 .. Slots - 1 : t \in slots'[s] <=> t \in slots[s]
  /\ t \in hand' <=> t \in hand
  /\ t \in queue' <=> t \in queue
  /\ AtLoop(t)' <=> AtLoop(t)
  /\ Running(t)' <=> Running(t)
  /\ Adding(t)' <=> Adding(t)

LEMMA StaysInPlace ==
  ASSUME NEW t \in Task, OnePlace(t), Stays(t)
  PROVE  OnePlace(t)'
<1> USE DEF Stays
<1>1. InSlot(t)' <=> InSlot(t)
  BY DEF InSlot
<1> QED
  BY <1>1 DEF OnePlace

\* Putting a task into a slot changes the slots of no other task.
LEMMA SlotGains ==
  ASSUME TypeInv, NEW t \in Task, NEW s \in 0 .. Slots - 1,
         slots' = [slots EXCEPT ![s] = @ \union {t}]
  PROVE  \A u \in Task, r \in 0 .. Slots - 1 :
           u \in slots'[r] <=> u \in slots[r] \/ (u = t /\ r = s)
BY DEF TypeInv, TypeOK

\* Into the wheel: from RegisterTask, from an AddTask, from the hand.
LEMMA IntoWheel ==
  ASSUME TypeInv, OnePlaces, NEW t \in Task, NEW s \in 0 .. Slots - 1,
         slots' = [slots EXCEPT ![s] = @ \union {t}],
         ~InSlot(t),
         /\ t \notin fresh' /\ t \notin hand' /\ t \notin queue'
         /\ ~AtLoop(t)' /\ ~Running(t)' /\ ~Adding(t)',
         \A u \in Task \ {t} :
           /\ u \in fresh' <=> u \in fresh
           /\ u \in hand' <=> u \in hand
           /\ u \in queue' <=> u \in queue
           /\ AtLoop(u)' <=> AtLoop(u)
           /\ Running(u)' <=> Running(u)
           /\ Adding(u)' <=> Adding(u)
  PROVE  OnePlaces'
<1>1. \A u \in Task, r \in 0 .. Slots - 1 :
        u \in slots'[r] <=> u \in slots[r] \/ (u = t /\ r = s)
  BY SlotGains
<1>2. ASSUME NEW u \in Task \ {t} PROVE OnePlace(u)'
  <2>1. Stays(u)
    BY <1>1 DEF Stays
  <2> QED
    BY <2>1, StaysInPlace DEF OnePlaces
<1>3. OnePlace(t)'
  <2>1. \A r \in 0 .. Slots - 1 : t \in slots'[r] <=> r = s
    BY <1>1 DEF InSlot
  <2>2. InSlot(t)'
    BY <2>1 DEF InSlot
  <2> QED
    BY <2>1, <2>2 DEF OnePlace
<1> QED
  BY <1>2, <1>3 DEF OnePlaces

LEMMA RegisterPlaced ==
  ASSUME TypeInv, OnePlaces, NEW t \in Task, Register(t)
  PROVE  OnePlaces'
<1>1. PICK w \in {-1, Interval} \union Ahead :
        slots' = [slots EXCEPT ![Target(w)] = @ \union {t}]
  BY DEF Register
<1>2. Target(w) \in 0 .. Slots - 1
  BY DispatchAssumption, TargetType DEF TypeInv
<1>3. t \in fresh /\ OnePlace(t)
  BY DEF Register, OnePlaces
<1>4. /\ fresh' = fresh \ {t}
      /\ UNCHANGED <<hand, queue, loop, step, run, add>>
  BY DEF Register, loopVars, runVars
<1> QED
  BY <1>1, <1>2, <1>3, <1>4, IntoWheel
     DEF OnePlace, AtLoop, Running, Adding

LEMMA AddInsertPlaced ==
  ASSUME TypeInv, OnePlaces, NEW t \in Task, AddInsert(t)
  PROVE  OnePlaces'
<1>1. /\ slots' = [slots EXCEPT ![add[t].slot] = @ \union {t}]
      /\ add[t].slot \in 0 .. Slots - 1
  BY DEF AddInsert, TypeInv, TypeOK, Pending
<1>2. Adding(t) /\ OnePlace(t)
  BY DEF AddInsert, OnePlaces, Adding
<1>3. /\ UNCHANGED <<fresh, hand, queue, run>>
      /\ add'[t] = None /\ \A u \in Task \ {t} : add'[u] = add[u]
      /\ \/ loop = t /\ loop' = None
         \/ loop # t /\ loop' = loop /\ step' = step
  BY DEF AddInsert, tasks, loopVars, runVars, TypeInv, TypeOK
<1>4. ~AtLoop(t)' /\ \A u \in Task \ {t} : AtLoop(u)' <=> AtLoop(u)
  BY <1>3, NoneAssumption DEF AtLoop
<1> QED
  BY <1>1, <1>2, <1>3, <1>4, IntoWheel DEF OnePlace, Running, Adding

LEMMA HandPlaced ==
  ASSUME TypeInv, OnePlaces, HandStep
  PROVE  OnePlaces'
<1>1. ASSUME HandTick PROVE OnePlaces'
  <2>1. hand = {} /\ hand' = slots[cur] /\ cur \in 0 .. Slots - 1
    BY <1>1 DEF HandTick, TypeInv, TypeOK, Goroutines
  <2>2. \A u \in Task, r \in 0 .. Slots - 1 :
          u \in slots'[r] <=> u \in slots[r] /\ r # cur
    BY <1>1 DEF HandTick, TypeInv, TypeOK
  <2>3. UNCHANGED <<fresh, queue, loop, step, run, add>>
    BY <1>1 DEF HandTick, tasks, loopVars, runVars
  <2>4. ASSUME NEW u \in Task PROVE OnePlace(u)'
    <3>1. OnePlace(u)
      BY DEF OnePlaces
    <3>2. CASE u \in slots[cur]
      <4>1. ~InSlot(u)'
        BY <2>1, <2>2, <3>1, <3>2 DEF InSlot, OnePlace
      <4>2. InSlot(u)
        BY <2>1, <3>2 DEF InSlot
      <4> QED
        BY <2>1, <2>3, <3>1, <3>2, <4>1, <4>2
           DEF OnePlace, AtLoop, Running, Adding, InSlot
    <3>3. CASE u \notin slots[cur]
      <4>1. Stays(u)
        BY <2>1, <2>2, <2>3, <3>3 DEF Stays, AtLoop, Running, Adding
      <4> QED
        BY <3>1, <4>1, StaysInPlace
    <3> QED
      BY <3>2, <3>3
  <2> QED
    BY <2>4 DEF OnePlaces
<1>2. ASSUME HandMove PROVE OnePlaces'
  <2>1. ASSUME NEW u \in Task PROVE Stays(u)
    BY <1>2 DEF HandMove, Stays, AtLoop, Running, Adding, tasks, loopVars,
                runVars
  <2> QED
    BY <2>1, StaysInPlace DEF OnePlaces
<1>3. ASSUME NEW t \in Task, HandPush(t) PROVE OnePlaces'
  <2>1. /\ t \in hand /\ hand' = hand \ {t} /\ queue' = queue \union {t}
        /\ UNCHANGED <<fresh, slots, loop, step, run, add>>
    BY <1>3 DEF HandPush, Q!Push, tasks, loopVars, runVars
  <2>2. OnePlace(t)'
    BY <2>1 DEF OnePlaces, OnePlace, InSlot, AtLoop, Running, Adding
  <2>3. ASSUME NEW u \in Task \ {t} PROVE OnePlace(u)'
    <3>1. Stays(u)
      BY <2>1 DEF Stays, AtLoop, Running, Adding
    <3> QED
      BY <3>1, StaysInPlace DEF OnePlaces
  <2> QED
    BY <2>2, <2>3 DEF OnePlaces
<1>4. ASSUME NEW t \in Task, HandAdd(t) PROVE OnePlaces'
  <2>1. wait[t] \in Int
    BY DispatchAssumption DEF TypeInv, TypeOK
  <2>2. Target(wait[t]) \in 0 .. Slots - 1
    BY <2>1, TargetType DEF TypeInv
  <2>3. /\ t \in hand /\ hand' = hand \ {t}
        /\ slots' = [slots EXCEPT ![Target(wait[t])] = @ \union {t}]
        /\ UNCHANGED <<fresh, queue, loop, step, run, add>>
    BY <1>4 DEF HandAdd, tasks, loopVars, runVars
  <2>4. OnePlace(t)
    BY DEF OnePlaces
  <2> QED
    BY <2>2, <2>3, <2>4, IntoWheel DEF OnePlace, AtLoop, Running, Adding
<1> QED
  BY <1>1, <1>2, <1>3, <1>4 DEF HandStep

LEMMA LoopPlaced ==
  ASSUME TypeInv, OnePlaces, LoopStep
  PROVE  OnePlaces'
<1>1. ASSUME LoopPop PROVE OnePlaces'
  <2>1. PICK t \in Task : t \in queue /\ queue' = queue \ {t} /\ loop' = t
    BY <1>1 DEF LoopPop, Q!Pop, TypeInv, TypeOK
  <2>2. /\ loop = None /\ step' = "lock"
        /\ UNCHANGED <<fresh, slots, hand, run, add>>
    BY <1>1 DEF LoopPop, wheelVars, runVars
  <2>3. OnePlace(t)'
    BY <2>1, <2>2 DEF OnePlaces, OnePlace, InSlot, AtLoop, Running, Adding
  <2>4. ASSUME NEW u \in Task \ {t} PROVE OnePlace(u)'
    <3>1. Stays(u)
      BY <2>1, <2>2, NoneAssumption DEF Stays, AtLoop, Running, Adding
    <3> QED
      BY <3>1, StaysInPlace DEF OnePlaces
  <2> QED
    BY <2>3, <2>4 DEF OnePlaces
<1>2. ASSUME LoopRefused \/ LoopIsolated PROVE OnePlaces'
  <2>1. loop \in Task /\ AtLoop(loop)
    BY <1>2 DEF LoopRefused, LoopIsolated, TypeInv, TypeOK, Goroutines, AtLoop
  <2>2. /\ AddCall(loop) /\ step' = "add" /\ loop' = loop
        /\ UNCHANGED <<fresh, slots, hand, queue, run>>
    BY <1>2 DEF LoopRefused, LoopIsolated, tasks, wheelVars, runVars
  <2>3. /\ Adding(loop)'
        /\ \A u \in Task \ {loop} : Adding(u)' <=> Adding(u)
    BY <2>1, <2>2, AddCallTyped DEF Adding
  <2>4. OnePlace(loop)'
    BY <2>1, <2>2, <2>3 DEF OnePlaces, OnePlace, InSlot, AtLoop, Running
  <2>5. ASSUME NEW u \in Task \ {loop} PROVE OnePlace(u)'
    <3>1. Stays(u)
      BY <2>2, <2>3 DEF Stays, AtLoop, Running
    <3> QED
      BY <3>1, StaysInPlace DEF OnePlaces
  <2> QED
    BY <2>2, <2>4, <2>5 DEF OnePlaces
<1>3. ASSUME LoopLocked PROVE OnePlaces'
  <2>1. ASSUME NEW u \in Task PROVE Stays(u)
    BY <1>3 DEF LoopLocked, Stays, AtLoop, Running, Adding, tasks, wheelVars,
                runVars
  <2> QED
    BY <2>1, StaysInPlace DEF OnePlaces
<1>4. ASSUME LoopRun PROVE OnePlaces'
  <2>1. PICK t \in Task : loop = t /\ AtLoop(t)
    BY <1>4 DEF LoopRun, TypeInv, TypeOK, Goroutines, AtLoop
  <2>2. /\ run'[t] = "read" /\ \A u \in Task \ {t} : run'[u] = run[u]
        /\ loop' = None
        /\ UNCHANGED <<fresh, slots, hand, queue, add>>
    BY <1>4, <2>1 DEF LoopRun, tasks, wheelVars, TypeInv, TypeOK
  <2>3. OnePlace(t)'
    BY <2>1, <2>2, NoneAssumption
       DEF OnePlaces, OnePlace, InSlot, AtLoop, Running, Adding
  <2>4. ASSUME NEW u \in Task \ {t} PROVE OnePlace(u)'
    <3>1. Stays(u)
      BY <2>1, <2>2, NoneAssumption DEF Stays, AtLoop, Running, Adding
    <3> QED
      BY <3>1, StaysInPlace DEF OnePlaces
  <2> QED
    BY <2>3, <2>4 DEF OnePlaces
<1> QED
  BY <1>1, <1>2, <1>3, <1>4 DEF LoopStep

LEMMA RunPlaced ==
  ASSUME TypeInv, OnePlaces, NEW t \in Task, RunStep(t)
  PROVE  OnePlaces'
<1>1. /\ UNCHANGED <<fresh, slots, hand, queue, loop, step>>
      /\ Running(t) /\ \A u \in Task \ {t} : run'[u] = run[u]
  BY DEF RunStep, RunRead, RunReadError, RunWake, RunOk, RunFail, RunCheck,
         RunPanic, RunEnd, Goes, TypeInv, TypeOK, tasks, wheelVars, loopVars,
         Running
<1>2. \/ Running(t)' /\ add' = add
      \/ ~Running(t)' /\ Adding(t)' /\ \A u \in Task \ {t} : add'[u] = add[u]
  <2>1. CASE RunEnd(t)
    BY <2>1, AddCallTyped DEF RunEnd, Goes, TypeInv, TypeOK, Running, Adding
  <2>2. CASE ~RunEnd(t)
    BY <2>2 DEF RunStep, RunRead, RunReadError, RunWake, RunOk, RunFail,
                RunCheck, RunPanic, Goes, TypeInv, TypeOK, Running
  <2> QED
    BY <2>1, <2>2
<1>3. OnePlace(t)'
  BY <1>1, <1>2 DEF OnePlaces, OnePlace, InSlot, AtLoop, Adding
<1>4. ASSUME NEW u \in Task \ {t} PROVE OnePlace(u)'
  <2>1. Stays(u)
    BY <1>1, <1>2 DEF Stays, AtLoop, Running, Adding
  <2> QED
    BY <2>1, StaysInPlace DEF OnePlaces
<1> QED
  BY <1>3, <1>4 DEF OnePlaces

LEMMA TickPlaced ==
  ASSUME TypeInv, OnePlaces, Tick
  PROVE  OnePlaces'
<1>1. ASSUME NEW t \in Task PROVE Adding(t)' <=> Adding(t)
  <2>1. CASE add[t] = None
    BY <2>1 DEF Tick, Adding
  <2>2. CASE add[t] # None
    <3>1. add[t] \in Pending /\ add[t].age < AddDelay
      BY <2>2 DEF Tick, TypeInv, TypeOK
    <3>2. [add[t] EXCEPT !.age = @ + 1] \in Pending
      BY <3>1, DispatchAssumption DEF Pending
    <3>3. add'[t] = [add[t] EXCEPT !.age = @ + 1]
      BY <2>2 DEF Tick
    <3> QED
      BY <2>2, <3>2, <3>3, NoneAssumption DEF Adding
  <2> QED
    BY <2>1, <2>2
<1>2. UNCHANGED <<fresh, slots, hand, queue, loop, step, run>>
  BY DEF Tick, tasks, wheelVars, loopVars
<1>3. ASSUME NEW t \in Task PROVE Stays(t)
  BY <1>1, <1>2 DEF Stays, AtLoop, Running
<1> QED
  BY <1>3, StaysInPlace DEF OnePlaces

LEMMA NextPlaced == TypeInv /\ OnePlaces /\ [Next]_vars => OnePlaces'
<1> SUFFICES ASSUME TypeInv, OnePlaces, [Next]_vars PROVE OnePlaces'
  OBVIOUS
<1>1. CASE UNCHANGED vars
  <2>1. ASSUME NEW t \in Task PROVE Stays(t)
    BY <1>1 DEF vars, tasks, wheelVars, loopVars, runVars, Stays, AtLoop,
                Running, Adding
  <2> QED
    BY <2>1, StaysInPlace DEF OnePlaces
<1> QED
  BY <1>1, RegisterPlaced, AddInsertPlaced, HandPlaced, LoopPlaced, RunPlaced,
     TickPlaced DEF Next

LEMMA InitPlaced == Init => OnePlaces
<1> SUFFICES ASSUME Init, NEW t \in Task PROVE OnePlace(t)
  BY DEF OnePlaces
<1> QED
  BY NoneAssumption
     DEF Init, Q!Start, OnePlace, InSlot, AtLoop, Running, Adding

-----------------------------------------------------------------------------
(* A task is never early *)

LEMMA NextNeverEarly ==
  TypeInv /\ OnePlaces /\ NeverEarly /\ [Next]_vars => NeverEarly'
<1> SUFFICES ASSUME TypeInv, OnePlaces, NeverEarly, [Next]_vars
             PROVE  NeverEarly'
  OBVIOUS
<1> DEFINE Waits(u) == u \in queue \/ AtLoop(u)
<1>1. ASSUME NEW t \in Task, Register(t) PROVE NeverEarly'
  <2>1. t \in fresh /\ UNCHANGED <<queue, loop, step>>
    BY <1>1 DEF Register, loopVars
  <2>2. \A u \in Task \ {t} : wait'[u] = wait[u]
    BY <1>1 DEF Register, TypeInv, TypeOK
  <2> QED
    BY <2>1, <2>2 DEF NeverEarly, OnePlaces, OnePlace, AtLoop
<1>2. ASSUME NEW t \in Task, AddInsert(t) PROVE NeverEarly'
  <2>1. /\ UNCHANGED <<queue, wait>>
        /\ (step' = "pop" /\ loop' = None) \/ UNCHANGED <<loop, step>>
    BY <1>2 DEF AddInsert, loopVars
  <2> QED
    BY <2>1, NoneAssumption DEF NeverEarly
<1>3. ASSUME HandStep PROVE NeverEarly'
  <2>1. /\ UNCHANGED <<wait, loop, step>>
        /\ \A u \in Task : u \in queue' => u \in queue \/ wait[u] < 0
    BY <1>3 DEF HandStep, HandTick, HandMove, HandPush, HandAdd, Q!Push,
                loopVars
  <2> QED
    BY <2>1 DEF NeverEarly
<1>4. ASSUME LoopStep PROVE NeverEarly'
  <2>1. CASE LoopPop
    BY <2>1 DEF LoopPop, Q!Pop, NeverEarly
  <2>2. CASE LoopRefused \/ LoopIsolated
    <3>1. loop \in Task /\ AtLoop(loop)
      BY <2>2 DEF LoopRefused, LoopIsolated, TypeInv, TypeOK, Goroutines, AtLoop
    <3>2. /\ AddCall(loop) /\ step' = "add" /\ UNCHANGED <<queue, loop>>
      BY <2>2 DEF LoopRefused, LoopIsolated
    <3>3. \A u \in Task \ {loop} : wait'[u] = wait[u]
      BY <3>1, <3>2, AddCallTyped
    <3> QED
      BY <3>1, <3>2, <3>3 DEF NeverEarly, OnePlaces, OnePlace
  <2>3. CASE LoopLocked
    BY <2>3 DEF LoopLocked, NeverEarly
  <2>4. CASE LoopRun
    BY <2>4, NoneAssumption DEF LoopRun, NeverEarly
  <2> QED
    BY <1>4, <2>1, <2>2, <2>3, <2>4 DEF LoopStep
<1>5. ASSUME NEW t \in Task, RunStep(t) PROVE NeverEarly'
  <2>1. UNCHANGED <<queue, loop, step>> /\ Running(t)
    BY <1>5 DEF RunStep, RunRead, RunReadError, RunWake, RunOk, RunFail,
                RunCheck, RunPanic, RunEnd, Goes, loopVars, Running
  <2>2. \A u \in Task \ {t} : wait'[u] = wait[u]
    <3>1. CASE RunEnd(t)
      BY <3>1, AddCallTyped DEF RunEnd
    <3>2. CASE ~RunEnd(t)
      BY <1>5, <3>2 DEF RunStep, RunRead, RunReadError, RunWake, RunOk,
                        RunFail, RunCheck, RunPanic
    <3> QED
      BY <3>1, <3>2
  <2> QED
    BY <2>1, <2>2 DEF NeverEarly, OnePlaces, OnePlace, AtLoop
<1>6. ASSUME Tick PROVE NeverEarly'
  <2>1. UNCHANGED <<queue, loop, step>>
    BY <1>6 DEF Tick, loopVars
  <2>2. ASSUME NEW u \in Task, wait[u] < 0 PROVE wait'[u] < 0
    <3>1. wait[u] \in Int
      BY DispatchAssumption DEF TypeInv, TypeOK
    <3>2. Later(wait[u]) < 0
      BY <2>2, <3>1 DEF Later
    <3> QED
      BY <1>6, <2>2, <3>2 DEF Tick
  <2> QED
    BY <2>1, <2>2 DEF NeverEarly
<1>7. ASSUME UNCHANGED vars PROVE NeverEarly'
  BY <1>7 DEF vars, loopVars, NeverEarly
<1> QED
  BY <1>1, <1>2, <1>3, <1>4, <1>5, <1>6, <1>7 DEF Next

-----------------------------------------------------------------------------
(* The theorems *)

IInv == TypeInv /\ OnePlaces /\ NeverEarly

\* The inductive invariant: Dispatch's types, loop and breaker, every task in
\* one place, and none in the queue before its time.
THEOREM Invariance == Spec => []IInv
<1>1. Init => IInv
  <2>1. Init => NeverEarly
    BY NoneAssumption DEF Init, Q!Start, NeverEarly
  <2> QED
    BY <2>1, InitTyped, InitPlaced DEF IInv
<1>2. IInv /\ [Next]_vars => IInv'
  BY NextTyped, NextPlaced, NextNeverEarly DEF IInv
<1> QED
  BY <1>1, <1>2, PTL DEF Spec

\* Every variable of Dispatch keeps its type; a failure never counts past the
\* threshold (circuitbreaker.go).
THEOREM TypeCorrect == Spec => []TypeOK
<1>1. IInv => TypeOK
  BY DEF IInv, TypeInv
<1> QED
  BY <1>1, Invariance, PTL

\* No task runs whose breaker is open: OnSuccess and OnFailure of a task are
\* called by its only run (scheduler.go, circuitbreaker.go).
THEOREM BreakerRespected == Spec => []IsolatedRests
<1>1. IInv => IsolatedRests
  BY DEF IInv, TypeInv
<1> QED
  BY <1>1, Invariance, PTL

\* The scheduler loop never gets a task before its NextRunTime (timewheel.go).
THEOREM DueOnly == Spec => []NeverEarly
<1>1. IInv => NeverEarly
  BY DEF IInv
<1> QED
  BY <1>1, Invariance, PTL

\* No task is lost or handed to two goroutines, however AddTask and the wheel's
\* goroutine interleave (timewheel.go, scheduler.go).
THEOREM Conserved == Spec => []TaskConserved
<1>1. ASSUME OnePlaces, NEW t \in Task PROVE Cardinality(Places(t)) = 1
  <2>1. OnePlace(t)
    BY <1>1 DEF OnePlaces
  <2>2. \E x : Places(t) = {x}
    <3>1. CASE InSlot(t)
      <4>1. PICK s \in 0 .. Slots - 1 : t \in slots[s]
        BY <3>1 DEF InSlot
      <4>2. {r \in 0 .. Slots - 1 : t \in slots[r]} = {s}
        BY <2>1, <4>1 DEF OnePlace
      <4>3. Places(t) = {<<"slot", s>>}
        BY <2>1, <3>1, <4>2
           DEF Places, OnePlace, AtLoop, Running, Adding
      <4> QED
        BY <4>3
    <3>2. CASE ~InSlot(t)
      <4>1. {r \in 0 .. Slots - 1 : t \in slots[r]} = {}
        BY <3>2 DEF InSlot
      <4> USE DEF Places, OnePlace, AtLoop, Running, Adding
      <4>2. t \in fresh => Places(t) = {<<"fresh", 0>>}
        BY <2>1, <4>1
      <4>3. t \in hand => Places(t) = {<<"hand", 0>>}
        BY <2>1, <4>1
      <4>4. t \in queue => Places(t) = {<<"queue", 0>>}
        BY <2>1, <4>1
      <4>5. AtLoop(t) => Places(t) = {<<"loop", 0>>}
        BY <2>1, <4>1
      <4>6. Running(t) => Places(t) = {<<"run", 0>>}
        BY <2>1, <4>1
      <4>7. Adding(t) => Places(t) = {<<"add", 0>>}
        BY <2>1, <4>1
      <4> HIDE DEF Places, AtLoop, Running, Adding
      <4> QED
        BY <2>1, <3>2, <4>2, <4>3, <4>4, <4>5, <4>6, <4>7
    <3> QED
      BY <3>1, <3>2
  <2> QED
    BY <2>2, FS_Singleton
<1>2. IInv => TaskConserved
  BY <1>1 DEF IInv, TaskConserved
<1> QED
  BY <1>2, Invariance, PTL

-----------------------------------------------------------------------------
(* Arithmetic of the wheel *)

LEMMA Multiple ==
  ASSUME NEW n \in Nat \ {0}, NEW k \in Int
  PROVE  /\ n * k \in Int
         /\ k >= 1 => n * k >= n /\ n * k >= k
         /\ k <= -1 => n * k <= -n
         /\ k = 0 => n * k = 0
OBVIOUS

LEMMA Divided ==
  ASSUME NEW n \in Nat \ {0}, NEW x \in Int
  PROVE  /\ x \div n \in Int /\ x % n \in 0 .. n - 1
         /\ x = n * (x \div n) + (x % n)
OBVIOUS

LEMMA Distributes ==
  ASSUME NEW n \in Int, NEW p \in Int, NEW q \in Int
  PROVE  n * (p - q) = n * p - n * q
OBVIOUS

\* Less than two turns: at most one is taken off.
LEMMA Wrapped ==
  ASSUME NEW n \in Nat \ {0}, NEW x \in 0 .. n + n - 1
  PROVE  x % n = IF x < n THEN x ELSE x - n
<1>1. /\ x \div n \in Int /\ x % n \in 0 .. n - 1
      /\ x = n * (x \div n) + (x % n)
  BY Divided
<1> QED
  BY <1>1

\* The a slots from x to where b of them lead are no more than b, and a whole
\* turn leads back to x.
LEMMA Turned ==
  ASSUME NEW n \in Nat \ {0}, NEW x \in 0 .. n - 1, NEW a \in 0 .. n - 1,
         NEW b \in Nat, (x + a) % n = (x + b) % n
  PROVE  a <= b /\ (a = 0 /\ b # 0 => b >= n)
<1> DEFINE p == (x + a) \div n
           q == (x + b) \div n
           r == (x + a) % n
           np == n * p
           nq == n * q
<1>1. /\ p \in Int /\ q \in Int /\ r \in Int
      /\ x + a = np + r /\ x + b = nq + r
  BY Divided
<1>2. np \in Int /\ nq \in Int /\ n * (q - p) = nq - np
  BY <1>1, Distributes, Multiple
<1>3. /\ q - p >= 1 => n * (q - p) >= n
      /\ q - p <= -1 => n * (q - p) <= -n
      /\ q - p = 0 => n * (q - p) = 0
  <2>1. q - p \in Int
    BY <1>1
  <2> HIDE DEF p, q
  <2> QED
    BY <2>1, Multiple
<1>4. q - p >= 1 \/ q - p = 0 \/ q - p <= -1
  BY <1>1
<1> DEFINE d == n * (q - p)
<1>5. /\ d = nq - np
      /\ q - p >= 1 => d >= n
      /\ q - p <= -1 => d <= -n
      /\ q - p = 0 => d = 0
  BY <1>2, <1>3
<1> HIDE DEF p, q, r, np, nq, d
<1>6. d = b - a
  BY <1>1, <1>2, <1>5
<1> QED
  BY <1>4, <1>5, <1>6

-----------------------------------------------------------------------------
(* A task is not late *)

\* An interval is no shorter than a turn of the wheel and the delay of an
\* AddTask: a task that is put behind the hand is found a turn later, and is
\* not yet due.
Roomy == Slots + AddDelay <= Interval + 2

\* Ticks until the hand takes the slot a places ahead of it.
Until(a) ==
  IF turning THEN IF a = 0 THEN Slots ELSE a
             ELSE IF ticked THEN a ELSE a + 1

\* The hand comes to a task two ticks late at most, and an AddTask under way
\* is not older than its time.
Timely(t) ==
  /\ t \in hand => wait[t] >= -2
  /\ \A a \in 0 .. Slots - 1 :
       t \in slots[(cur + a) % Slots] => wait[t] >= Until(a) - 2
  /\ add[t] # None => wait[t] >= Interval - add[t].age

OnTime ==
  /\ turning => ~ticked
  /\ ~Started => ~ticked /\ ~turning
  /\ \A t \in Task \ overdue : Timely(t)

LEMMA Spanned ==
  ASSUME NEW w \in Nat
  PROVE  w \div SlotTicks \in Nat /\ w \div SlotTicks <= w
<1> DEFINE q == w \div SlotTicks
<1>1. /\ q \in Int /\ w % SlotTicks \in 0 .. SlotTicks - 1
      /\ w = SlotTicks * q + (w % SlotTicks)
  BY DispatchAssumption, Divided
<1> DEFINE m == SlotTicks * q
<1>2. /\ m \in Int /\ q >= 1 => m >= q
      /\ q <= -1 => m <= -SlotTicks
      /\ m \in Int
  <2> HIDE DEF q
  <2> QED
    BY <1>1, DispatchAssumption, Multiple
<1> HIDE DEF m
<1>3. w = m + (w % SlotTicks)
  BY <1>1 DEF m
<1> HIDE DEF q
<1> QED
  BY <1>1, <1>2, <1>3, DispatchAssumption DEF q

LEMMA Typical ==
  ASSUME TypeInv
  PROVE  /\ Slots \in Nat \ {0} /\ cur \in 0 .. Slots - 1
         /\ \A a \in 0 .. Slots - 1 :
              /\ (cur + a) % Slots \in 0 .. Slots - 1
              /\ Until(a) \in 0 .. Slots
         /\ \A t \in Task : wait[t] \in Int
         /\ turning \in BOOLEAN /\ ticked \in BOOLEAN
<1>1. Slots \in Nat \ {0} /\ cur \in 0 .. Slots - 1
  BY DispatchAssumption DEF TypeInv, TypeOK
<1>2. \A a \in 0 .. Slots - 1 : (cur + a) % Slots \in 0 .. Slots - 1
  BY <1>1, Divided
<1>3. \A a \in 0 .. Slots - 1 : Until(a) \in 0 .. Slots
  BY <1>1 DEF Until
<1> QED
  BY <1>1, <1>2, <1>3, DispatchAssumption DEF TypeInv, TypeOK

\* A task put into the slot AddTask computes for a wait of w is taken out
\* within w + 2 ticks, wherever the hand is in its turn.
LEMMA Reached ==
  ASSUME TypeInv, NEW w \in Nat, NEW a \in 0 .. Slots - 1,
         (cur + a) % Slots = Target(w)
  PROVE  Until(a) <= w + 2
<1> DEFINE span == w \div SlotTicks
<1>1. span \in Nat /\ span <= w
  BY Spanned
<1>2. Target(w) = (cur + (span + 1)) % Slots
  <2>1. /\ cur \in Int
        /\ Target(w) = (cur + span + 1) % Slots
    BY Typical DEF Target
  <2> HIDE DEF span
  <2>2. cur + span + 1 = cur + (span + 1)
    BY <1>1, <2>1
  <2> QED
    BY <2>1, <2>2
<1> HIDE DEF span
<1>3. a <= span + 1 /\ (a = 0 => span + 1 >= Slots)
  <2>1. span + 1 \in Nat /\ span + 1 # 0
    BY <1>1
  <2> QED
    BY <1>2, <2>1, Typical, Turned
<1> QED
  BY <1>1, <1>3, Typical DEF Until

\* Nothing but the time can make a task late that keeps its place.
LEMMA TimelyStays ==
  ASSUME TypeInv, NEW t \in Task, Timely(t),
         UNCHANGED <<cur, turning, ticked>>, wait'[t] = wait[t],
         add'[t] = None \/ add'[t] = add[t],
         t \in hand' => t \in hand,
         \A s \in 0 .. Slots - 1 : t \in slots'[s] => t \in slots[s]
  PROVE  Timely(t)'
<1>1. \A a \in 0 .. Slots - 1 :
        /\ (cur + a) % Slots \in 0 .. Slots - 1
        /\ Until(a)' = Until(a)
  BY Typical DEF Until
<1>2. ASSUME NEW a \in 0 .. Slots - 1, t \in slots'[(cur' + a) % Slots]
      PROVE  wait'[t] >= Until(a)' - 2
  <2>1. t \in slots[(cur + a) % Slots]
    BY <1>1, <1>2
  <2> QED
    BY <1>1, <2>1 DEF Timely
<1> QED
  BY <1>2 DEF Timely

LEMMA Elsewhere ==
  ASSUME TypeInv, NEW t \in Task, ~InSlot(t), t \notin hand
  PROVE  /\ t \notin hand
         /\ \A a \in 0 .. Slots - 1 : t \notin slots[(cur + a) % Slots]
BY Typical DEF InSlot

LEMMA RegisterOnTime ==
  ASSUME TypeInv, OnePlaces, OnTime, NEW t \in Task, Register(t)
  PROVE  OnTime'
<1>1. PICK w \in {-1, Interval} \union Ahead :
        /\ wait' = [wait EXCEPT ![t] = w]
        /\ slots' = [slots EXCEPT ![Target(w)] = @ \union {t}]
        /\ overdue' = IF w < 0 THEN overdue \union {t} ELSE overdue
  BY DEF Register
<1>2. /\ t \in fresh /\ OnePlace(t)
      /\ UNCHANGED <<cur, turning, hand, ticked, add>>
  BY DEF Register, OnePlaces
<1>3. ~ticked /\ ~turning
  BY <1>2 DEF OnTime, Started
<1>4. Target(w) \in 0 .. Slots - 1 /\ w \in Int
  BY DispatchAssumption, TargetType DEF TypeInv
<1>5. \A u \in Task, r \in 0 .. Slots - 1 :
        u \in slots'[r] <=> u \in slots[r] \/ (u = t /\ r = Target(w))
  BY <1>1, <1>4, SlotGains
<1>6. ASSUME NEW u \in Task \ overdue', u # t
      PROVE  Timely(u)'
  <2>1. u \notin overdue /\ wait'[u] = wait[u] /\ Timely(u)
    BY <1>1, <1>6 DEF OnTime, TypeInv, TypeOK
  <2> QED
    BY <1>2, <1>5, <1>6, <2>1, TimelyStays
<1>7. ASSUME t \notin overdue'
      PROVE  Timely(t)'
  <2>1. w \in Nat /\ wait'[t] = w
    BY <1>1, <1>4, <1>7 DEF TypeInv, TypeOK
  <2>2. t \notin hand' /\ add'[t] = None /\ ~InSlot(t)
    BY <1>2 DEF OnePlace, Adding
  <2>3. ASSUME NEW a \in 0 .. Slots - 1, t \in slots'[(cur' + a) % Slots]
        PROVE  wait'[t] >= Until(a)' - 2
    <3>1. (cur + a) % Slots = Target(w)
      BY <1>2, <1>5, <2>2, <2>3, Typical DEF InSlot
    <3>2. Until(a) <= w + 2 /\ Until(a) \in Int
      BY <2>1, <3>1, Reached, Typical
    <3>3. Until(a)' = Until(a)
      BY <1>2 DEF Until
    <3> QED
      BY <2>1, <3>2, <3>3
  <2> QED
    BY <2>2, <2>3 DEF Timely
<1> QED
  BY <1>2, <1>3, <1>6, <1>7 DEF OnTime

LEMMA AddInsertOnTime ==
  ASSUME Roomy, TypeInv, OnePlaces, OnTime, NEW t \in Task, AddInsert(t)
  PROVE  OnTime'
<1>1. /\ add[t] # None /\ add[t] \in Pending
      /\ slots' = [slots EXCEPT ![add[t].slot] = @ \union {t}]
      /\ add' = [add EXCEPT ![t] = None]
      /\ UNCHANGED <<fresh, overdue, wait, cur, turning, hand, ticked>>
  BY DEF AddInsert, tasks, TypeInv, TypeOK
<1>2. add[t].slot \in 0 .. Slots - 1 /\ add[t].age \in 0 .. AddDelay
  BY <1>1 DEF Pending
<1>3. \A u \in Task, r \in 0 .. Slots - 1 :
        u \in slots'[r] <=> u \in slots[r] \/ (u = t /\ r = add[t].slot)
  <2> DEFINE s == add[t].slot
  <2>1. s \in 0 .. Slots - 1 /\ slots' = [slots EXCEPT ![s] = @ \union {t}]
    BY <1>1, <1>2
  <2> HIDE DEF s
  <2>2. \A u \in Task, r \in 0 .. Slots - 1 :
          u \in slots'[r] <=> u \in slots[r] \/ (u = t /\ r = s)
    BY <2>1, SlotGains
  <2> QED
    BY <2>2 DEF s
<1>4. ASSUME NEW u \in Task \ overdue', u # t
      PROVE  Timely(u)'
  <2>1. Timely(u) /\ add'[u] = add[u]
    BY <1>1, <1>4 DEF OnTime, TypeInv, TypeOK
  <2> QED
    BY <1>1, <1>3, <1>4, <2>1, TimelyStays
<1>5. ASSUME t \notin overdue'
      PROVE  Timely(t)'
  <2>1. wait[t] >= Interval - add[t].age
    BY <1>1, <1>5 DEF OnTime, Timely
  <2>2. wait[t] \in Int /\ wait[t] >= Slots - 2
    BY <1>2, <2>1, Typical, DispatchAssumption DEF Roomy
  <2>3. \A a \in 0 .. Slots - 1 : Until(a)' = Until(a) /\ Until(a) \in 0 .. Slots
    BY <1>1, Typical DEF Until
  <2>4. t \notin hand /\ add'[t] = None
    BY <1>1 DEF OnePlaces, OnePlace, Adding, TypeInv, TypeOK
  <2>5. \A a \in 0 .. Slots - 1 : wait'[t] >= Until(a)' - 2
    BY <1>1, <2>2, <2>3, Typical
  <2> QED
    BY <1>1, <2>4, <2>5 DEF Timely
<1> QED
  BY <1>1, <1>4, <1>5 DEF OnTime, Started

LEMMA HandOnTime ==
  ASSUME TypeInv, OnePlaces, OnTime, HandStep
  PROVE  OnTime'
<1>1. ASSUME HandTick PROVE OnTime'
  <2>1. /\ Started /\ ticked /\ ~turning /\ ~ticked' /\ turning'
        /\ hand' = slots[cur] /\ slots' = [slots EXCEPT ![cur] = {}]
        /\ UNCHANGED <<fresh, overdue, wait, cur, add>>
    BY <1>1 DEF HandTick, tasks
  <2>2. ASSUME NEW u \in Task \ overdue
        PROVE  Timely(u)'
    <3>1. Timely(u)
      BY DEF OnTime
    <3>2. (cur + 0) % Slots = cur /\ 0 \in 0 .. Slots - 1
      BY Typical, Wrapped
    <3>3. u \in hand' => wait'[u] >= -2
      <4>1. Until(0) - 2 = -2
        BY <2>1 DEF Until
      <4> QED
        BY <2>1, <3>1, <3>2, <4>1 DEF Timely
    <3>4. ASSUME NEW a \in 0 .. Slots - 1, u \in slots'[(cur' + a) % Slots]
          PROVE  wait'[u] >= Until(a)' - 2
      <4>1. a # 0
        BY <2>1, <3>2, <3>4, Typical DEF TypeInv, TypeOK
      <4>2. u \in slots[(cur + a) % Slots]
        BY <2>1, <3>4, Typical DEF TypeInv, TypeOK
      <4>3. Until(a)' = Until(a)
        BY <2>1, <4>1 DEF Until
      <4> QED
        BY <2>1, <3>1, <4>2, <4>3 DEF Timely
    <3> QED
      BY <2>1, <3>1, <3>3, <3>4 DEF Timely
  <2> QED
    BY <2>1, <2>2 DEF OnTime, Started
<1>2. ASSUME HandMove PROVE OnTime'
  <2>1. /\ turning /\ hand = {} /\ ~turning' /\ cur' = (cur + 1) % Slots
        /\ UNCHANGED <<fresh, overdue, wait, slots, hand, add, ticked>>
    BY <1>2 DEF HandMove, tasks
  <2>2. ~ticked
    BY <2>1 DEF OnTime
  <2>3. cur' = IF cur + 1 < Slots THEN cur + 1 ELSE 0
    <3>1. cur + 1 \in 0 .. Slots + Slots - 1
      BY Typical
    <3>2. (cur + 1) % Slots = IF cur + 1 < Slots THEN cur + 1
                                                 ELSE cur + 1 - Slots
      BY <3>1, Typical, Wrapped
    <3> QED
      BY <2>1, <3>2, Typical
  <2>4. ASSUME NEW u \in Task \ overdue
        PROVE  Timely(u)'
    <3>1. Timely(u)
      BY DEF OnTime
    <3>2. ASSUME NEW a \in 0 .. Slots - 1, u \in slots[(cur' + a) % Slots]
          PROVE  wait[u] >= Until(a)' - 2
      <4> DEFINE b == IF a + 1 < Slots THEN a + 1 ELSE 0
      <4>1. /\ Slots \in Nat \ {0} /\ cur \in 0 .. Slots - 1
            /\ cur' \in 0 .. Slots - 1
        BY <2>3, Typical
      <4>2. b \in 0 .. Slots - 1
        BY <4>1
      <4>3. (cur' + a) % Slots = (cur + b) % Slots
        <5> HIDE DEF b
        <5> DEFINE x == cur' + a
                   y == cur + b
        <5>1. x \in 0 .. Slots + Slots - 1 /\ y \in 0 .. Slots + Slots - 1
          <6>1. \A c, e \in 0 .. Slots - 1 : c + e \in 0 .. Slots + Slots - 1
            BY <4>1
          <6> QED
            BY <4>1, <4>2, <6>1
        <5>2. /\ x % Slots = IF x < Slots THEN x ELSE x - Slots
              /\ y % Slots = IF y < Slots THEN y ELSE y - Slots
          <6> HIDE DEF x, y
          <6> QED
            BY <4>1, <5>1, Wrapped
        <5> USE DEF b
        <5> QED
          BY <2>3, <4>1, <5>2
      <4>4. Until(a)' = Until(b)
        BY <2>1, <2>2, <4>1 DEF Until
      <4>5. wait[u] >= Until(b) - 2
        <5> HIDE DEF b
        <5> QED
          BY <3>1, <3>2, <4>2, <4>3 DEF Timely
      <4> QED
        BY <4>4, <4>5
    <3> QED
      BY <2>1, <3>1, <3>2 DEF Timely
  <2> QED
    BY <2>1, <2>2, <2>4 DEF OnTime, Started
<1>3. ASSUME NEW t \in Task, HandPush(t) PROVE OnTime'
  <2>1. /\ hand' \subseteq hand
        /\ UNCHANGED <<fresh, overdue, wait, slots, cur, turning, ticked, add>>
    BY <1>3 DEF HandPush, tasks
  <2> QED
    BY <2>1, TimelyStays DEF OnTime, Started
<1>4. ASSUME NEW t \in Task, HandAdd(t) PROVE OnTime'
  <2>1. /\ t \in hand /\ wait[t] >= 0 /\ hand' = hand \ {t}
        /\ slots' = [slots EXCEPT ![Target(wait[t])] = @ \union {t}]
        /\ UNCHANGED <<fresh, overdue, wait, cur, turning, ticked, add>>
    BY <1>4 DEF HandAdd, tasks
  <2>2. wait[t] \in Nat /\ Target(wait[t]) \in 0 .. Slots - 1
    BY <2>1, Typical, TargetType DEF TypeInv
  <2>3. \A u \in Task, r \in 0 .. Slots - 1 :
          u \in slots'[r] <=> u \in slots[r] \/ (u = t /\ r = Target(wait[t]))
    BY <2>1, <2>2, SlotGains
  <2>4. ASSUME NEW u \in Task \ overdue, u # t
        PROVE  Timely(u)'
    <3>1. Timely(u)
      BY DEF OnTime
    <3> QED
      BY <2>1, <2>3, <2>4, <3>1, TimelyStays
  <2>5. Timely(t)'
    <3>1. ~InSlot(t) /\ add[t] = None
      BY <2>1 DEF OnePlaces, OnePlace, Adding
    <3>2. ASSUME NEW a \in 0 .. Slots - 1, t \in slots'[(cur' + a) % Slots]
          PROVE  wait'[t] >= Until(a)' - 2
      <4>1. (cur + a) % Slots = Target(wait[t])
        BY <2>1, <2>3, <3>1, <3>2, Typical DEF InSlot
      <4>2. Until(a) <= wait[t] + 2 /\ Until(a) \in Int
        BY <2>2, <4>1, Reached, Typical
      <4>3. Until(a)' = Until(a)
        BY <2>1 DEF Until
      <4> QED
        BY <2>1, <2>2, <4>2, <4>3
    <3> QED
      BY <2>1, <3>1, <3>2 DEF Timely
  <2> QED
    BY <2>1, <2>4, <2>5 DEF OnTime, Started
<1> QED
  BY <1>1, <1>2, <1>3, <1>4 DEF HandStep

\* AddTask is called with a time that has just been set.
LEMMA AddCallOnTime ==
  ASSUME TypeInv, OnePlaces, OnTime, NEW t \in Task, AddCall(t),
         AtLoop(t) \/ Running(t),
         UNCHANGED <<fresh, overdue, wheelVars, ticked>>
  PROVE  OnTime'
<1>1. /\ wait'[t] = Interval /\ add'[t].age = 0
      /\ \A u \in Task \ {t} : add'[u] = add[u] /\ wait'[u] = wait[u]
  BY DEF AddCall, TypeInv, TypeOK
<1>2. UNCHANGED <<fresh, overdue, slots, cur, turning, hand, ticked>>
  BY DEF wheelVars
<1>3. ASSUME NEW u \in Task \ overdue', u # t
      PROVE  Timely(u)'
  <2>1. Timely(u)
    BY <1>2, <1>3 DEF OnTime
  <2> QED
    BY <1>1, <1>2, <1>3, <2>1, TimelyStays
<1>4. Timely(t)'
  <2>1. t \notin hand /\ ~InSlot(t)
    BY DEF OnePlaces, OnePlace
  <2>2. \A a \in 0 .. Slots - 1 : t \notin slots[(cur + a) % Slots]
    BY <2>1, Elsewhere
  <2>3. wait'[t] >= Interval - add'[t].age
    BY <1>1, DispatchAssumption
  <2> QED
    BY <1>2, <2>1, <2>2, <2>3 DEF Timely
<1> QED
  BY <1>2, <1>3, <1>4 DEF OnTime, Started

LEMMA LoopOnTime ==
  ASSUME TypeInv, OnePlaces, OnTime, LoopStep
  PROVE  OnTime'
<1>1. ASSUME LoopPop PROVE OnTime'
  <2>1. PICK t \in Task : t \in queue /\ overdue' = overdue \ {t}
    BY <1>1 DEF LoopPop, Q!Pop, TypeInv, TypeOK
  <2>2. UNCHANGED <<fresh, wait, slots, cur, turning, hand, ticked, add>>
    BY <1>1 DEF LoopPop, wheelVars
  <2>3. ASSUME NEW u \in Task \ overdue', u # t
        PROVE  Timely(u)'
    <3>1. Timely(u)
      BY <2>1, <2>3 DEF OnTime
    <3> QED
      BY <2>2, <2>3, <3>1, TimelyStays
  <2>4. Timely(t)'
    <3>1. t \notin hand /\ ~InSlot(t) /\ add[t] = None
      BY <2>1 DEF OnePlaces, OnePlace, Adding
    <3>2. \A a \in 0 .. Slots - 1 : t \notin slots[(cur + a) % Slots]
      BY <3>1, Elsewhere
    <3> QED
      BY <2>2, <3>1, <3>2 DEF Timely
  <2> QED
    BY <2>2, <2>3, <2>4 DEF OnTime, Started
<1>2. ASSUME LoopRefused \/ LoopIsolated PROVE OnTime'
  <2>1. loop \in Task /\ AtLoop(loop)
    BY <1>2 DEF LoopRefused, LoopIsolated, TypeInv, TypeOK, Goroutines, AtLoop
  <2>2. AddCall(loop) /\ UNCHANGED <<fresh, overdue, wheelVars, ticked>>
    BY <1>2 DEF LoopRefused, LoopIsolated, tasks
  <2> QED
    BY <2>1, <2>2, AddCallOnTime
<1>3. ASSUME LoopLocked \/ LoopRun PROVE OnTime'
  <2>1. UNCHANGED <<fresh, overdue, wait, slots, cur, turning, hand, ticked, add>>
    BY <1>3 DEF LoopLocked, LoopRun, tasks, wheelVars
  <2> QED
    BY <2>1, TimelyStays DEF OnTime, Started
<1> QED
  BY <1>1, <1>2, <1>3 DEF LoopStep

LEMMA RunOnTime ==
  ASSUME TypeInv, OnePlaces, OnTime, NEW t \in Task, RunStep(t)
  PROVE  OnTime'
<1>1. /\ UNCHANGED <<fresh, overdue, wheelVars, ticked>>
      /\ Running(t)
  BY DEF RunStep, RunRead, RunReadError, RunWake, RunOk, RunFail, RunCheck,
         RunPanic, RunEnd, Goes, tasks, Running
<1>2. CASE RunEnd(t)
  BY <1>1, <1>2, AddCallOnTime DEF RunEnd
<1>3. CASE ~RunEnd(t)
  <2>1. UNCHANGED <<fresh, overdue, wait, slots, cur, turning, hand, ticked, add>>
    BY <1>1, <1>3 DEF RunStep, RunRead, RunReadError, RunWake, RunOk, RunFail,
                      RunCheck, RunPanic, wheelVars
  <2> QED
    BY <2>1, TimelyStays DEF OnTime, Started
<1> QED
  BY <1>2, <1>3

LEMMA TickOnTime ==
  ASSUME TypeInv, OnTime, Tick
  PROVE  OnTime'
<1>1. /\ Started /\ ~ticked /\ ~turning /\ ticked' /\ hand = {}
      /\ UNCHANGED <<fresh, overdue, slots, cur, turning, hand>>
  BY DEF Tick, tasks, wheelVars, TypeInv, Goroutines
<1>2. ASSUME NEW t \in Task \ overdue
      PROVE  Timely(t)'
  <2>1. Timely(t) /\ wait[t] \in Int
    BY Typical DEF OnTime
  <2>2. wait'[t] \in Int /\ wait'[t] >= wait[t] - 1
    <3>1. Later(wait[t]) \in Int /\ Later(wait[t]) >= wait[t] - 1
      BY <2>1 DEF Later
    <3>2. wait'[t] = IF run[t] = "off" THEN Later(wait[t]) ELSE wait[t]
      BY DEF Tick
    <3> QED
      BY <2>1, <3>1, <3>2
  <2>3. ASSUME NEW a \in 0 .. Slots - 1, t \in slots'[(cur' + a) % Slots]
        PROVE  wait'[t] >= Until(a)' - 2
    <3>1. Until(a) = a + 1 /\ Until(a)' = a
      BY <1>1 DEF Until
    <3>2. wait[t] >= Until(a) - 2
      BY <1>1, <2>1, <2>3 DEF Timely
    <3> QED
      BY <2>1, <2>2, <3>1, <3>2
  <2>4. ASSUME add'[t] # None
        PROVE  wait'[t] >= Interval - add'[t].age
    <3>1. add[t] # None
      BY <2>4 DEF Tick
    <3>2. add[t] \in Pending /\ add[t].age \in Int
      BY <3>1, DispatchAssumption DEF TypeInv, TypeOK, Pending
    <3>3. add'[t].age = add[t].age + 1
      BY <3>1, <3>2 DEF Tick, Pending
    <3>4. wait[t] >= Interval - add[t].age
      BY <2>1, <3>1 DEF Timely
    <3> QED
      BY <2>1, <2>2, <3>2, <3>3, <3>4, DispatchAssumption
  <2> QED
    BY <1>1, <2>3, <2>4 DEF Timely
<1> QED
  BY <1>1, <1>2 DEF OnTime, Started

LEMMA NextOnTime ==
  ASSUME Roomy, TypeInv, OnePlaces, OnTime, [Next]_vars
  PROVE  OnTime'
<1>1. CASE UNCHANGED vars
  <2>1. UNCHANGED <<fresh, overdue, wait, slots, cur, turning, hand, ticked, add>>
    BY <1>1 DEF vars, tasks, wheelVars
  <2> QED
    BY <2>1, TimelyStays DEF OnTime, Started
<1> QED
  BY <1>1, RegisterOnTime, AddInsertOnTime, HandOnTime, LoopOnTime, RunOnTime,
     TickOnTime DEF Next

\* A wheel that a task's interval is longer than a turn of never hands a task
\* over more than two ticks late, wherever currentSlot is when AddTask reads it
\* and when it inserts (timewheel.go).
THEOREM DueSoon ==
  ASSUME Roomy
  PROVE  Spec => []LateBound
<1>1. Init => OnTime
  <2> SUFFICES ASSUME Init PROVE OnTime
    OBVIOUS
  <2>1. \A a \in 0 .. Slots - 1 : (cur + a) % Slots \in 0 .. Slots - 1
    <3>1. TypeInv
      BY InitTyped
    <3> QED
      BY <3>1, Typical
  <2>2. ~ticked /\ ~turning
    BY DEF Init
  <2>3. ASSUME NEW t \in Task
        PROVE  Timely(t)
    <3>1. hand = {} /\ add[t] = None
      BY DEF Init
    <3>2. \A s \in 0 .. Slots - 1 : t \notin slots[s]
      BY DEF Init
    <3> QED
      BY <2>1, <3>1, <3>2 DEF Timely
  <2> QED
    BY <2>2, <2>3 DEF OnTime
<1>2. IInv /\ OnTime /\ [Next]_vars => OnTime'
  BY NextOnTime DEF IInv
<1>3. IInv /\ OnTime => LateBound
  <2> SUFFICES ASSUME TypeInv, OnTime, NEW t \in Task \ overdue,
                      InWheel(t) \/ add[t] # None
               PROVE  wait[t] >= -2
    BY DEF IInv, LateBound
  <2>1. Timely(t) /\ wait[t] \in Int
    BY Typical DEF OnTime
  <2>2. CASE t \in hand
    BY <2>1, <2>2 DEF Timely
  <2>3. ASSUME NEW s \in 0 .. Slots - 1, t \in slots[s]
        PROVE  wait[t] >= -2
    <3> DEFINE a == IF s < cur THEN s - cur + Slots ELSE s - cur
    <3>1. a \in 0 .. Slots - 1 /\ cur + a \in 0 .. Slots + Slots - 1
      BY Typical
    <3>2. (cur + a) % Slots = s
      <4>1. (cur + a) % Slots = IF cur + a < Slots THEN cur + a
                                              ELSE cur + a - Slots
        <5> HIDE DEF a
        <5> QED
          BY <3>1, Typical, Wrapped
      <4> QED
        BY <4>1, Typical
    <3> HIDE DEF a
    <3>3. wait[t] >= Until(a) - 2 /\ Until(a) \in 0 .. Slots
      BY <2>1, <2>3, <3>1, <3>2, Typical DEF Timely
    <3> QED
      BY <2>1, <3>3, Typical
  <2>4. CASE add[t] # None
    <3>1. add[t].age \in 0 .. AddDelay
      BY <2>4 DEF TypeInv, TypeOK, Pending
    <3>2. wait[t] >= Interval - add[t].age
      BY <2>1, <2>4 DEF Timely
    <3> QED
      BY <2>1, <3>1, <3>2, DispatchAssumption DEF Roomy
  <2> QED
    BY <2>2, <2>3, <2>4 DEF InWheel
<1> QED
  BY <1>1, <1>2, <1>3, Invariance, PTL DEF Spec
=============================================================================
