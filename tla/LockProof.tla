------------------------------ MODULE LockProof ------------------------------
(***************************************************************************)
(* Proofs about MySQLLock for any number of instances, any lease, renewal  *)
(* period and punctuality: types; that the row of the database changes     *)
(* hands only when its lease allows; and, while calls are punctual, that   *)
(* who takes itself for the holder is the holder, so that there is one.    *)
(*                                                                         *)
(* The invariant of the first part adds to TypeOK that the time a TryLock  *)
(* carries is never ahead of the clock: it was read before the statement   *)
(* is sent, so a lease found expired by that time has expired.  The second *)
(* part relates the row, the entry of lockMap and the calls under way.     *)
(***************************************************************************)
EXTENDS MySQLLock, TLAPS

\* The time read by a call of the scheduler loop is past or present.
ReadBefore == \A i \in Instance : task[i].now <= clock

IInv == TypeOK /\ ReadBefore

USE TimesAssumption, NoneAssumption

-----------------------------------------------------------------------------
\* The initial state satisfies the inductive invariant.
LEMMA InitInv == Init => IInv
  BY DEF Init, IInv, TypeOK, ReadBefore, Idle, Call, CallType, Moment

\* A step of the scheduler loop or of the task's runner preserves it.
LEMMA TryInv == ASSUME IInv, NEW i \in Instance, TryStep(i) PROVE IInv'
<1> USE DEF IInv, TypeOK, ReadBefore, Call, CallType, Moment, Idle, Running, row
<1>1. CASE TryHeld(i) BY <1>1 DEF TryHeld
<1>2. CASE TryCall(i) BY <1>2 DEF TryCall
<1>3. CASE TryTake(i) BY <1>3 DEF TryTake, Take
<1>4. CASE TryRefused(i) BY <1>4 DEF TryRefused
<1>5. CASE TryError(i) BY <1>5 DEF TryError, Take
<1>6. CASE TryWon(i) BY <1>6 DEF TryWon, Store
<1>7. CASE TryLost(i) BY <1>7 DEF TryLost, Delete
<1>8. CASE RunEnd(i) BY <1>8 DEF RunEnd
<1> QED
  BY TryStep(i), <1>1, <1>2, <1>3, <1>4, <1>5, <1>6, <1>7, <1>8 DEF TryStep

\* A step of the renewal goroutine preserves it.
LEMMA RenewInv == ASSUME IInv, NEW i \in Instance, RenewStep(i) PROVE IInv'
<1> USE DEF IInv, TypeOK, ReadBefore, Call, CallType, Moment, Idle, Running, row
<1>1. CASE RenewTick(i) BY <1>1 DEF RenewTick
<1>2. CASE RenewExtend(i) BY <1>2 DEF RenewExtend, Extend
<1>3. CASE RenewGone(i) BY <1>3 DEF RenewGone
<1>4. CASE RenewDelete(i) BY <1>4 DEF RenewDelete, Delete
<1>5. CASE RenewStore(i) BY <1>5 DEF RenewStore, Store
<1>6. CASE RenewError(i) BY <1>6 DEF RenewError, Extend
<1>7. CASE RenewDrop(i) BY <1>7 DEF RenewDrop, Delete
<1> QED
  BY RenewStep(i), <1>1, <1>2, <1>3, <1>4, <1>5, <1>6, <1>7 DEF RenewStep

\* A step of an Unlock call preserves it.
LEMMA UnlockInv == ASSUME IInv, NEW i \in Instance, UnlockStep(i) PROVE IInv'
<1> USE DEF IInv, TypeOK, ReadBefore, Call, CallType, Moment, Idle, Running, row
<1>1. CASE UnlockCall(i) BY <1>1 DEF UnlockCall
<1>2. CASE UnlockRow(i) BY <1>2 DEF UnlockRow, Release
<1>3. CASE UnlockError(i) BY <1>3 DEF UnlockError, Release
<1>4. CASE UnlockDelete(i) BY <1>4 DEF UnlockDelete, Delete
<1> QED BY UnlockStep(i), <1>1, <1>2, <1>3, <1>4 DEF UnlockStep

\* The passing of time preserves it.
LEMMA TickInv == IInv /\ Tick => IInv'
  BY DEF IInv, TypeOK, ReadBefore, Tick, CallType, Moment, row, calls

\* Every step preserves it.
LEMMA StepInv == IInv /\ [Next]_vars => IInv'
<1>1. CASE Next
  BY <1>1, TryInv, RenewInv, UnlockInv, TickInv DEF Next
<1>2. CASE UNCHANGED vars
  BY <1>2 DEF vars, row, calls, IInv, TypeOK, ReadBefore
<1> QED BY <1>1, <1>2

\* Every behaviour satisfies the inductive invariant.
THEOREM Invariance == Spec => []IInv
  BY InitInv, StepInv, PTL DEF Spec

\* The states of the lock have the types declared for them.
THEOREM TypeCorrect == Spec => []TypeOK
  BY Invariance, PTL DEF IInv

-----------------------------------------------------------------------------
\* Only a TryLock that saw the row free, or an Unlock by its holder, gives
\* the row another holder.
LEMMA StepHandsOver == IInv /\ [Next]_vars => HandsOver
<1> SUFFICES ASSUME IInv, [Next]_vars, holder' # holder PROVE HandsOver
  BY DEF HandsOver
<1>1. CASE UNCHANGED vars BY <1>1 DEF vars, row
<1>2. CASE Tick BY <1>2 DEF Tick, row
<1>3. ASSUME NEW i \in Instance, TryStep(i) PROVE HandsOver
  <2>1. Free(task[i].now) /\ holder' = i
    BY <1>3 DEF TryStep, TryHeld, TryCall, TryTake, TryRefused, TryError,
                TryWon, TryLost, RunEnd, Take, row
  <2>2. task[i].now <= clock /\ task[i].now \in Nat /\ clock \in Nat
    BY DEF IInv, TypeOK, ReadBefore, CallType, Moment
  <2> QED BY <2>1, <2>2 DEF Free, HandsOver, IInv, TypeOK
<1>4. ASSUME NEW i \in Instance, RenewStep(i) PROVE HandsOver
  BY <1>4 DEF RenewStep, RenewTick, RenewExtend, RenewGone, RenewDelete,
              RenewStore, RenewError, RenewDrop, Extend, row
<1>5. ASSUME NEW i \in Instance, UnlockStep(i) PROVE HandsOver
  BY <1>5 DEF UnlockStep, UnlockCall, UnlockRow, UnlockError, UnlockDelete,
              Release, Mine, HandsOver, row
<1> QED BY <1>1, <1>2, <1>3, <1>4, <1>5 DEF Next

\* Whatever the delays, errors and Unlocks, the row changes hands only when
\* it is free or its lease has run out, and only its holder frees it.
THEOREM LeaseSafe == Spec => LeaseRespected
<1>1. IInv /\ [Next]_vars => [HandsOver]_vars
  BY StepHandsOver
<1> QED BY Invariance, <1>1, PTL DEF Spec, LeaseRespected

-----------------------------------------------------------------------------
(***************************************************************************)
(* What an instance believes is so as long as it is punctual: a renewal    *)
(* starts before the lease is so old that its UPDATE, which may come Delay *)
(* after the time it carries, could find the row taken by somebody else.   *)
(* The code's Period is a third of the lease, so that Punctual says that a *)
(* call takes no longer than that, from its now to its last write.         *)
(***************************************************************************)
Punctual == Period + 2 * Delay <= Lease

\* Calls are at most Delay old; only an Unlock unlocks.
InDelay ==
  \A i \in Instance :
    /\ renew[i].now <= clock
    /\ lockTime[i] # None => lockTime[i] <= clock
    /\ lastTick[i] <= clock
    /\ task[i].pc \notin {"idle", "running"} => clock <= task[i].now + Delay
    /\ renew[i].pc # "idle" => /\ renew[i].now = lastTick[i]
                               /\ clock <= renew[i].now + Delay
    /\ clock <= lastTick[i] + Period \/ clock <= lastTick[i] + Delay
    /\ task[i].pc \in {"unlocking", "freed"} => i \in unlocked

\* The row is i's until time t, that included.
BelongsTo(i, t) == holder = i /\ until >= t

Backed(i) == Holds(i) => BelongsTo(i, lockTime[i] + Lease)

\* Between renewals the entry is at most Delay older than the last one, and
\* not older at all when that one was late; the row outlasts a late renewal.
Fresh(i) ==
  renew[i].pc = "idle" =>
    /\ Holds(i) => lockTime[i] + Delay >= lastTick[i]
    /\ clock > lastTick[i] + Period =>
         /\ BelongsTo(i, clock)
         /\ Holds(i) => lockTime[i] >= lastTick[i]
         /\ task[i].pc # "won"

\* The row outlasts a renewal under way, which finds it.
Renewing(i) ==
  renew[i].pc # "idle" =>
    /\ renew[i].pc # "delete" /\ task[i].pc # "won"
    /\ BelongsTo(i, renew[i].now + Delay)
    /\ BelongsTo(i, renew[i].now + 1)
    /\ renew[i].pc = "store" => BelongsTo(i, renew[i].now + Lease)
    /\ lockTime[i] # None => lockTime[i] <= renew[i].now

\* A TryLock that took the row will be believed, and was not before.
Winning(i) ==
  task[i].pc = "won" => BelongsTo(i, task[i].now + Lease) /\ ~Holds(i)

Trusted(i) == Backed(i) /\ Fresh(i) /\ Renewing(i) /\ Winning(i)

BeliefInv == IInv /\ InDelay /\ \A i \in Instance \ unlocked : Trusted(i)

\* Time and the histories: what every step does to them.
LEMMA DelayInv == IInv /\ InDelay /\ [Next]_vars => InDelay'
<1> SUFFICES ASSUME IInv, InDelay, [Next]_vars PROVE InDelay'
  OBVIOUS
<1> USE DEF IInv, TypeOK, ReadBefore, InDelay, Call, CallType, Moment, Idle,
            Running, row
<1>1. CASE UNCHANGED vars
  BY <1>1 DEF vars, calls
<1>2. CASE Tick
  BY <1>2 DEF Tick, InTime, calls
<1>3. ASSUME NEW i \in Instance, TryStep(i) PROVE InDelay'
  <2>1. CASE TryHeld(i) BY <2>1 DEF TryHeld
  <2>2. CASE TryCall(i) BY <2>2 DEF TryCall
  <2>3. CASE TryTake(i) BY <2>3 DEF TryTake
  <2>4. CASE TryRefused(i) BY <2>4 DEF TryRefused
  <2>5. CASE TryError(i) BY <2>5 DEF TryError
  <2>6. CASE TryWon(i) BY <2>6 DEF TryWon, Store
  <2>7. CASE TryLost(i) BY <2>7 DEF TryLost, Delete
  <2>8. CASE RunEnd(i) BY <2>8 DEF RunEnd
  <2> QED
    BY <1>3, <2>1, <2>2, <2>3, <2>4, <2>5, <2>6, <2>7, <2>8 DEF TryStep
<1>4. ASSUME NEW i \in Instance, RenewStep(i) PROVE InDelay'
  <2>1. CASE RenewTick(i) BY <2>1 DEF RenewTick
  <2>2. CASE RenewExtend(i) BY <2>2 DEF RenewExtend
  <2>3. CASE RenewGone(i) BY <2>3 DEF RenewGone
  <2>4. CASE RenewDelete(i) BY <2>4 DEF RenewDelete, Delete
  <2>5. CASE RenewStore(i) BY <2>5 DEF RenewStore, Store
  <2>6. CASE RenewError(i) BY <2>6 DEF RenewError
  <2>7. CASE RenewDrop(i) BY <2>7 DEF RenewDrop, Delete
  <2> QED
    BY <1>4, <2>1, <2>2, <2>3, <2>4, <2>5, <2>6, <2>7 DEF RenewStep
<1>5. ASSUME NEW i \in Instance, UnlockStep(i) PROVE InDelay'
  <2>1. CASE UnlockCall(i) BY <2>1 DEF UnlockCall
  <2>2. CASE UnlockRow(i) BY <2>2 DEF UnlockRow
  <2>3. CASE UnlockError(i) BY <2>3 DEF UnlockError
  <2>4. CASE UnlockDelete(i) BY <2>4 DEF UnlockDelete, Delete
  <2> QED
    BY <1>5, <2>1, <2>2, <2>3, <2>4 DEF UnlockStep
<1> QED
  BY <1>1, <1>2, <1>3, <1>4, <1>5 DEF Next

\* A row that is an instance's until now or later is free for no statement
\* sent by now.
LEMMA NotFree ==
  ASSUME IInv, NEW i \in Instance, NEW t \in Int, BelongsTo(i, t), clock <= t,
         NEW j \in Instance
  PROVE  ~Free(task[j].now)
BY DEF IInv, TypeOK, ReadBefore, CallType, Moment, BelongsTo, Free

\* Whoever relies on the row has it now.
LEMMA Relies ==
  ASSUME Punctual, IInv, InDelay, NEW i \in Instance, Trusted(i),
         \/ Holds(i) \/ renew[i].pc # "idle" \/ task[i].pc = "won"
         \/ clock > lastTick[i] + Period
  PROVE  BelongsTo(i, clock)
<1> USE DEF IInv, TypeOK, InDelay, Trusted, CallType, Moment, BelongsTo, Punctual
<1>1. CASE Holds(i)
  BY <1>1 DEF Backed, Holds, HoldsAt
<1>2. CASE renew[i].pc # "idle"
  BY <1>2 DEF Renewing
<1>3. CASE task[i].pc = "won"
  BY <1>3 DEF Winning
<1>4. CASE renew[i].pc = "idle" /\ clock > lastTick[i] + Period
  BY <1>4 DEF Fresh
<1> QED
  BY <1>1, <1>2, <1>3, <1>4

\* A step of another instance, which may take a free row, or extend or free
\* its own.
LEMMA OthersKeep ==
  ASSUME Punctual, IInv, InDelay, NEW i \in Instance, Trusted(i),
         UNCHANGED clock, UNCHANGED lockTime[i], UNCHANGED task[i],
         UNCHANGED renew[i], UNCHANGED lastTick[i],
         \/ UNCHANGED row
         \/ \E j \in Instance \ {i} : holder = j \/ Free(task[j].now)
  PROVE  Trusted(i)'
<1>1. CASE UNCHANGED row
  BY <1>1 DEF row, Trusted, Backed, Fresh, Renewing, Winning, Holds, HoldsAt,
              BelongsTo
<1>2. CASE \E j \in Instance \ {i} : holder = j \/ Free(task[j].now)
  <2>1. ~BelongsTo(i, clock)
    <3>1. PICK j \in Instance \ {i} : holder = j \/ Free(task[j].now)
      BY <1>2
    <3>2. clock \in Int /\ clock <= clock
      BY DEF IInv, TypeOK, Moment
    <3>3. ASSUME BelongsTo(i, clock)
          PROVE  ~Free(task[j].now)
      BY <3>2, <3>3, NotFree
    <3> QED
      BY <3>1, <3>3 DEF BelongsTo
  <2>2. /\ ~Holds(i) /\ renew[i].pc = "idle" /\ task[i].pc # "won"
        /\ ~(clock > lastTick[i] + Period)
    BY <2>1, Relies
  <2> QED
    BY <2>2 DEF Trusted, Backed, Fresh, Renewing, Winning, Holds, HoldsAt
<1> QED
  BY <1>1, <1>2

\* Another instance's own step.
LEMMA OtherSteps ==
  ASSUME Punctual, IInv, InDelay, NEW i \in Instance, Trusted(i),
         NEW j \in Instance \ {i}, TryStep(j) \/ RenewStep(j) \/ UnlockStep(j)
  PROVE  Trusted(i)'
<1>1. /\ UNCHANGED clock /\ UNCHANGED lockTime[i] /\ UNCHANGED task[i]
      /\ UNCHANGED renew[i] /\ UNCHANGED lastTick[i]
  BY DEF TryStep, TryHeld, TryCall, TryTake, TryRefused, TryError, TryWon,
         TryLost, RunEnd, RenewStep, RenewTick, RenewExtend, RenewGone,
         RenewDelete, RenewStore, RenewError, RenewDrop, UnlockStep,
         UnlockCall, UnlockRow, UnlockError, UnlockDelete, Store, Delete,
         IInv, TypeOK
<1>2. UNCHANGED row \/ holder = j \/ Free(task[j].now)
  BY DEF TryStep, TryHeld, TryCall, TryTake, TryRefused, TryError, TryWon,
         TryLost, RunEnd, RenewStep, RenewTick, RenewExtend, RenewGone,
         RenewDelete, RenewStore, RenewError, RenewDrop, UnlockStep,
         UnlockCall, UnlockRow, UnlockError, UnlockDelete, Release, Mine, row
<1> QED
  BY <1>1, <1>2, OthersKeep

\* Its own steps: the loop and the run.
LEMMA OwnTry ==
  ASSUME Punctual, IInv, InDelay, NEW i \in Instance, Trusted(i), TryStep(i)
  PROVE  Trusted(i)'
<1> USE DEF IInv, TypeOK, InDelay, ReadBefore, CallType, Moment, Call, Idle,
            Running, Trusted, Backed, Fresh, Renewing, Winning, Holds, HoldsAt,
            BelongsTo, row
<1>1. ASSUME Free(task[i].now)
      PROVE  /\ ~Holds(i) /\ renew[i].pc = "idle" /\ task[i].pc # "won"
             /\ ~(clock > lastTick[i] + Period)
  <2>1. ~BelongsTo(i, clock)
    BY <1>1, NotFree
  <2> QED
    BY <2>1, Relies
<1>2. CASE TryHeld(i) BY <1>2 DEF TryHeld
<1>3. CASE TryCall(i) BY <1>3 DEF TryCall
<1>4. CASE TryTake(i) BY <1>4, <1>1 DEF TryTake, Take
<1>5. CASE TryRefused(i) BY <1>5 DEF TryRefused
<1>6. CASE TryError(i)
  <2>1. CASE UNCHANGED row BY <1>6, <2>1 DEF TryError
  <2>2. CASE Free(task[i].now) /\ Take(i)
    BY <1>6, <1>1, <2>2 DEF TryError, Take
  <2> QED BY <1>6, <2>1, <2>2 DEF TryError
<1>7. CASE TryWon(i)
  BY <1>7, Relies DEF TryWon, Store
<1>8. CASE TryLost(i) BY <1>8 DEF TryLost, Delete
<1>9. CASE RunEnd(i) BY <1>9 DEF RunEnd
<1> QED
  BY <1>2, <1>3, <1>4, <1>5, <1>6, <1>7, <1>8, <1>9 DEF TryStep

\* Its own renewal.
LEMMA OwnRenew ==
  ASSUME Punctual, IInv, InDelay, NEW i \in Instance, Trusted(i), RenewStep(i)
  PROVE  Trusted(i)'
<1> USE DEF IInv, TypeOK, InDelay, ReadBefore, CallType, Moment, Call, Idle,
            Trusted, Backed, Fresh, Renewing, Winning, Holds, HoldsAt,
            BelongsTo, row, Punctual
<1>0. Lease >= Delay /\ Lease >= 1
  OBVIOUS
<1>1. CASE RenewTick(i)
  <2>1. CASE Holds(i)
    <3>1. BelongsTo(i, clock + Delay) /\ BelongsTo(i, clock + 1)
      BY <1>1, <2>1 DEF RenewTick
    <3> QED
      BY <1>1, <2>1, <3>1 DEF RenewTick
  <2>2. CASE ~Holds(i)
    BY <1>1, <2>2 DEF RenewTick
  <2> QED
    BY <2>1, <2>2
<1>2. ASSUME renew[i].pc = "sql" PROVE Mine(i, renew[i].now)
  BY <1>2 DEF Mine
<1>3. CASE RenewExtend(i)
  <2>1. /\ until' = renew[i].now + Lease /\ holder' = i
        /\ renew'[i] = [renew[i] EXCEPT !.pc = "store"]
        /\ renew[i].pc = "sql"
        /\ UNCHANGED <<clock, lockTime, task, lastTick>>
    BY <1>2, <1>3 DEF RenewExtend, Extend, Mine
  <2> QED
    BY <1>0, <2>1
<1>4. CASE RenewGone(i)
  BY <1>4, <1>2 DEF RenewGone
<1>5. CASE RenewDelete(i) BY <1>5 DEF RenewDelete
<1>6. CASE RenewStore(i) BY <1>6 DEF RenewStore, Store
<1>7. CASE RenewError(i)
  <2>1. /\ \/ until' = renew[i].now + Lease /\ holder' = i
           \/ UNCHANGED row
        /\ renew'[i] = [renew[i] EXCEPT !.pc = "drop"]
        /\ renew[i].pc = "sql"
        /\ UNCHANGED <<clock, lockTime, task, lastTick>>
    BY <1>2, <1>7 DEF RenewError, Extend, Mine
  <2> QED
    BY <1>0, <2>1
<1>8. CASE RenewDrop(i) BY <1>8 DEF RenewDrop, Delete
<1> QED
  BY <1>1, <1>3, <1>4, <1>5, <1>6, <1>7, <1>8 DEF RenewStep

\* Its own Unlock, and time.  An instance that unlocks is no more trusted.
LEMMA OwnUnlock ==
  ASSUME InDelay, NEW i \in Instance, UnlockStep(i)
  PROVE  i \in unlocked'
BY DEF UnlockStep, UnlockCall, UnlockRow, UnlockError, UnlockDelete, InDelay

LEMMA TimePasses ==
  ASSUME Punctual, IInv, InDelay, NEW i \in Instance, Trusted(i), Tick
  PROVE  Trusted(i)'
BY DEF Tick, InTime, IInv, TypeOK, InDelay, ReadBefore, CallType, Moment,
       Trusted, Backed, Fresh, Renewing, Winning, Holds, HoldsAt, BelongsTo,
       Punctual, row, calls

\* BeliefInv is inductive.
LEMMA BeliefInit == Init => BeliefInv
BY InitInv DEF Init, BeliefInv, InDelay, Trusted, Backed, Fresh, Renewing,
               Winning, Holds, HoldsAt, Idle, Call

LEMMA BeliefStep == Punctual /\ BeliefInv /\ [Next]_vars => BeliefInv'
<1> SUFFICES ASSUME Punctual, BeliefInv, [Next]_vars PROVE BeliefInv'
  OBVIOUS
<1>1. IInv' /\ InDelay' /\ unlocked \subseteq unlocked'
  <2>1. IInv'
    BY StepInv DEF BeliefInv
  <2>2. unlocked \subseteq unlocked'
    BY DEF Next, vars, Tick, TryStep, TryHeld, TryCall, TryTake, TryRefused,
           TryError, TryWon, TryLost, RunEnd, RenewStep, RenewTick,
           RenewExtend, RenewGone, RenewDelete, RenewStore, RenewError,
           RenewDrop, UnlockStep, UnlockCall, UnlockRow, UnlockError,
           UnlockDelete
  <2> QED
    BY <2>1, <2>2, DelayInv DEF BeliefInv
<1>2. ASSUME NEW i \in Instance, i \notin unlocked' PROVE Trusted(i)'
  <2>1. IInv /\ InDelay /\ Trusted(i)
    BY <1>1, <1>2 DEF BeliefInv
  <2>2. CASE UNCHANGED vars
    BY <2>1, <2>2 DEF vars, row, calls, Trusted, Backed, Fresh, Renewing,
                      Winning, Holds, HoldsAt, BelongsTo
  <2>3. CASE Tick
    BY <2>1, <2>3, TimePasses
  <2>4. ASSUME NEW j \in Instance, j # i,
               TryStep(j) \/ RenewStep(j) \/ UnlockStep(j)
        PROVE  Trusted(i)'
    BY <2>1, <2>4, OtherSteps
  <2>5. ASSUME TryStep(i) \/ RenewStep(i) \/ UnlockStep(i)
        PROVE  Trusted(i)'
    BY <1>2, <2>1, <2>5, OwnTry, OwnRenew, OwnUnlock
  <2> QED
    BY <2>2, <2>3, <2>4, <2>5 DEF Next
<1> QED
  BY <1>1, <1>2 DEF BeliefInv

THEOREM BeliefInvariance == ASSUME Punctual PROVE Spec => []BeliefInv
<1>1. BeliefInv /\ [Next]_vars => BeliefInv'
  BY BeliefStep
<1> QED
  BY BeliefInit, <1>1, PTL DEF Spec

\* An instance that takes itself for the holder, and has not called Unlock, is
\* the holder in the database, for at least as long.
THEOREM Backing == ASSUME Punctual PROVE Spec => []BeliefBacked
<1>1. BeliefInv => BeliefBacked
  BY DEF BeliefInv, BeliefBacked, Believes, Trusted, Backed, BelongsTo
<1> QED
  BY <1>1, BeliefInvariance, PTL

\* No two instances take themselves for the holder.
THEOREM OneHolder == ASSUME Punctual PROVE Spec => []MutualExclusion
<1>1. BeliefBacked => MutualExclusion
  BY DEF BeliefBacked, MutualExclusion
<1> QED
  BY <1>1, Backing, PTL
=============================================================================
