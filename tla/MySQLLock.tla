------------------------------ MODULE MySQLLock ------------------------------
(***************************************************************************)
(* The distributed lock of the scheduler (pkg/scheduler/lock.go) for one   *)
(* task: its row of schedule_task, the lockMap entry of every instance,    *)
(* and the steps of TryLock, Unlock and renewLocks.  Tasks do not share    *)
(* rows or entries, so one task is the general case.                       *)
(*                                                                         *)
(* In an instance the task passes from the scheduler loop (TryLock) to its *)
(* runner, which unlocks it if it trips the circuit breaker, and back; the *)
(* renewal goroutine runs beside them.  Each call reads the time, sends    *)
(* one conditional UPDATE, which MySQL runs atomically, then changes       *)
(* lockMap; the others run in between.  A statement may fail, with or      *)
(* without having been applied.  Stop, which calls ReleaseAll, is called   *)
(* nowhere in the program and is left out.                                 *)
(*                                                                         *)
(* Time is one clock for all instances (assumption: synchronised clocks).  *)
(* It does not advance past the moment a renewal is due, nor while a call  *)
(* is Delay old: the instance of a run says how punctual the goroutines    *)
(* and the database are.  Bound: MaxTime.                                  *)
(***************************************************************************)
EXTENDS Integers

CONSTANTS
  Instance,      \* running servers
  None,          \* no holder; no entry
  Lease,         \* leaseDuration
  Period,        \* renewal period, leaseDuration / 3
  Delay,         \* how long a call may take
  CanUnlock,     \* whether tasks trip the circuit breaker
  MaxTime        \* bound on the clock

ASSUME TimesAssumption ==
  /\ Lease \in Nat \ {0} /\ Period \in Nat \ {0}
  /\ Delay \in Nat /\ MaxTime \in Nat
ASSUME NoneAssumption == None \notin Instance /\ None \notin Nat

VARIABLES
  clock,
  holder,        \* lease_holder of the row
  until,         \* lease_until of the row
  lockTime,      \* lockMap of each instance: time of the last renewal, or None
  task,          \* where each instance has the task, the now of its call
  renew,         \* where each renewLocks is, its now
  lastTick,      \* when the renewal ticker of each instance last fired
  unlocked       \* history: instances that have called Unlock

row   == <<holder, until>>
calls == <<task, renew>>
vars  == <<clock, row, lockTime, calls, lastTick, unlocked>>

Call(pc, now) == [pc |-> pc, now |-> now]
Idle == Call("idle", 0)
Running == Call("running", 0)

\* The instance takes itself for the holder: TryLock's answer without asking
\* the database.
HoldsAt(i, t) == lockTime[i] # None /\ t - lockTime[i] < Lease
Holds(i) == HoldsAt(i, clock)

Init ==
  /\ clock = 0
  /\ holder = None
  /\ until = 0
  /\ lockTime = [i \in Instance |-> None]
  /\ task = [i \in Instance |-> Idle]
  /\ renew = [i \in Instance |-> Idle]
  /\ lastTick = [i \in Instance |-> 0]
  /\ unlocked = {}

Store(i, t) == lockTime' = [lockTime EXCEPT ![i] = t]
Delete(i) == lockTime' = [lockTime EXCEPT ![i] = None]

-----------------------------------------------------------------------------
(* The scheduler loop: TryLock, then the run *)

\* The loop pops the task.  The entry is fresh: TryLock answers true without
\* asking the database, and the task runs.
TryHeld(i) ==
  /\ task[i].pc = "idle"
  /\ Holds(i)
  /\ task' = [task EXCEPT ![i] = Running]
  /\ UNCHANGED <<clock, row, lockTime, renew, lastTick, unlocked>>

\* The entry is missing or old: ask.
TryCall(i) ==
  /\ task[i].pc = "idle"
  /\ ~Holds(i)
  /\ task' = [task EXCEPT ![i] = Call("trying", clock)]
  /\ UNCHANGED <<clock, row, lockTime, renew, lastTick, unlocked>>

Free(now) == holder = None \/ until < now

Take(i) == holder' = i /\ until' = task[i].now + Lease

TryTake(i) ==
  /\ task[i].pc = "trying"
  /\ Free(task[i].now)
  /\ Take(i)
  /\ task' = [task EXCEPT ![i].pc = "won"]
  /\ UNCHANGED <<clock, lockTime, renew, lastTick, unlocked>>

TryRefused(i) ==
  /\ task[i].pc = "trying"
  /\ ~Free(task[i].now)
  /\ task' = [task EXCEPT ![i].pc = "lost"]
  /\ UNCHANGED <<clock, row, lockTime, renew, lastTick, unlocked>>

\* The call fails; the statement may have been applied all the same.
TryError(i) ==
  /\ task[i].pc = "trying"
  /\ \/ Free(task[i].now) /\ Take(i)
     \/ UNCHANGED row
  /\ task' = [task EXCEPT ![i] = Idle]
  /\ UNCHANGED <<clock, lockTime, renew, lastTick, unlocked>>

\* Mutant of TryWon: it stores the time of the answer.
TryWonLate(i) ==
  /\ task[i].pc = "won"
  /\ Store(i, clock)
  /\ task' = [task EXCEPT ![i] = Running]
  /\ UNCHANGED <<clock, row, renew, lastTick, unlocked>>

\* lockMap.Store, return true: the task runs.
TryWon(i) ==
  /\ task[i].pc = "won"
  /\ Store(i, task[i].now)
  /\ task' = [task EXCEPT ![i] = Running]
  /\ UNCHANGED <<clock, row, renew, lastTick, unlocked>>

\* lockMap.Delete, return false: the task waits for its next turn.
TryLost(i) ==
  /\ task[i].pc = "lost"
  /\ Delete(i)
  /\ task' = [task EXCEPT ![i] = Idle]
  /\ UNCHANGED <<clock, row, renew, lastTick, unlocked>>

\* The run ends, or the task is isolated and does not run; either way it
\* goes back to the time wheel, and the lock is kept.
RunEnd(i) ==
  /\ task[i].pc = "running"
  /\ task' = [task EXCEPT ![i] = Idle]
  /\ UNCHANGED <<clock, row, lockTime, renew, lastTick, unlocked>>

-----------------------------------------------------------------------------
(* AutoRenew and renewLocks *)

\* The ticker fires; an entry that has not expired is renewed.
RenewTick(i) ==
  /\ renew[i].pc = "idle"
  /\ clock - lastTick[i] >= Period
  /\ lastTick' = [lastTick EXCEPT ![i] = clock]
  /\ renew' = IF Holds(i) THEN [renew EXCEPT ![i] = Call("sql", clock)]
                          ELSE renew
  /\ UNCHANGED <<clock, row, lockTime, task, unlocked>>

Mine(i, now) == holder = i /\ until > now

\* Mutant of Extend: it counts from the old end of the lease.
ExtendFromEnd(i) == until' = until + Lease /\ UNCHANGED holder

Extend(i) == until' = renew[i].now + Lease /\ UNCHANGED holder

RenewExtend(i) ==
  /\ renew[i].pc = "sql"
  /\ Mine(i, renew[i].now)
  /\ Extend(i)
  /\ renew' = [renew EXCEPT ![i].pc = "store"]
  /\ UNCHANGED <<clock, lockTime, task, lastTick, unlocked>>

\* No row affected: the entry is deleted, and then, there being no return,
\* stored like after a success.
RenewGone(i) ==
  /\ renew[i].pc = "sql"
  /\ ~Mine(i, renew[i].now)
  /\ renew' = [renew EXCEPT ![i].pc = "delete"]
  /\ UNCHANGED <<clock, row, lockTime, task, lastTick, unlocked>>

RenewDelete(i) ==
  /\ renew[i].pc = "delete"
  /\ Delete(i)
  /\ renew' = [renew EXCEPT ![i].pc = "store"]
  /\ UNCHANGED <<clock, row, task, lastTick, unlocked>>

RenewStore(i) ==
  /\ renew[i].pc = "store"
  /\ Store(i, renew[i].now)
  /\ renew' = [renew EXCEPT ![i] = Idle]
  /\ UNCHANGED <<clock, row, task, lastTick, unlocked>>

\* Mutant of RenewError: no return after the error.
RenewErrorFallsThrough(i) ==
  /\ renew[i].pc = "sql"
  /\ \/ Mine(i, renew[i].now) /\ Extend(i)
     \/ UNCHANGED row
  /\ renew' = [renew EXCEPT ![i].pc = "delete"]
  /\ UNCHANGED <<clock, lockTime, task, lastTick, unlocked>>

\* The statement fails, applied or not.
RenewError(i) ==
  /\ renew[i].pc = "sql"
  /\ \/ Mine(i, renew[i].now) /\ Extend(i)
     \/ UNCHANGED row
  /\ renew' = [renew EXCEPT ![i].pc = "drop"]
  /\ UNCHANGED <<clock, lockTime, task, lastTick, unlocked>>

\* The entry is deleted, and the call returns.
RenewDrop(i) ==
  /\ renew[i].pc = "drop"
  /\ Delete(i)
  /\ renew' = [renew EXCEPT ![i] = Idle]
  /\ UNCHANGED <<clock, row, task, lastTick, unlocked>>

-----------------------------------------------------------------------------
(* Unlock, by the runner of a task that has just been isolated *)

UnlockCall(i) ==
  /\ CanUnlock
  /\ task[i].pc = "running"
  /\ task' = [task EXCEPT ![i] = Call("unlocking", clock)]
  /\ unlocked' = unlocked \union {i}
  /\ UNCHANGED <<clock, row, lockTime, renew, lastTick>>

\* Mutant of Release: the WHERE clause does not ask for the holder.
ReleaseAnyway(i) == holder' = None /\ until' = 0

Release(i) ==
  IF Mine(i, task[i].now) THEN holder' = None /\ until' = 0
                          ELSE UNCHANGED row

UnlockRow(i) ==
  /\ task[i].pc = "unlocking"
  /\ Release(i)
  /\ task' = [task EXCEPT ![i].pc = "freed"]
  /\ UNCHANGED <<clock, lockTime, renew, lastTick, unlocked>>

\* The statement fails, applied or not; the entry stays.
UnlockError(i) ==
  /\ task[i].pc = "unlocking"
  /\ Release(i) \/ UNCHANGED row
  /\ task' = [task EXCEPT ![i] = Idle]
  /\ UNCHANGED <<clock, lockTime, renew, lastTick, unlocked>>

UnlockDelete(i) ==
  /\ task[i].pc = "freed"
  /\ Delete(i)
  /\ task' = [task EXCEPT ![i] = Idle]
  /\ UNCHANGED <<clock, row, renew, lastTick, unlocked>>

-----------------------------------------------------------------------------
InTime(call) == call.pc \in {"idle", "running"} \/ clock - call.now < Delay

\* Time passes, unless that would make a renewal or a call late.
Tick ==
  /\ clock < MaxTime
  /\ \A i \in Instance :
       /\ InTime(task[i]) /\ InTime(renew[i])
       /\ renew[i].pc = "idle" => clock - lastTick[i] < Period
  /\ clock' = clock + 1
  /\ UNCHANGED <<row, lockTime, calls, lastTick, unlocked>>

TryStep(i) == \/ TryHeld(i) \/ TryCall(i) \/ TryTake(i) \/ TryRefused(i)
              \/ TryError(i) \/ TryWon(i) \/ TryLost(i) \/ RunEnd(i)
RenewStep(i) == \/ RenewTick(i) \/ RenewExtend(i) \/ RenewGone(i)
                \/ RenewDelete(i) \/ RenewStore(i) \/ RenewError(i)
                \/ RenewDrop(i)
UnlockStep(i) == \/ UnlockCall(i) \/ UnlockRow(i) \/ UnlockError(i)
                 \/ UnlockDelete(i)

Next ==
  \/ \E i \in Instance : TryStep(i) \/ RenewStep(i) \/ UnlockStep(i)
  \/ Tick

Spec == Init /\ [][Next]_vars

-----------------------------------------------------------------------------
Moment == 0 .. MaxTime
CallType(pcs) == [pc : pcs \union {"idle"}, now : Moment]

TypeOK ==
  /\ clock \in Moment
  /\ holder \in Instance \union {None}
  /\ until \in 0 .. MaxTime + Lease
  /\ lockTime \in [Instance -> Moment \union {None}]
  /\ task \in [Instance -> CallType({"trying", "won", "lost", "running",
                                    "unlocking", "freed"})]
  /\ renew \in [Instance -> CallType({"sql", "store", "delete", "drop"})]
  /\ lastTick \in [Instance -> Moment]
  /\ unlocked \subseteq Instance

\* The instance takes itself for the holder, and has never called Unlock.
\* An Unlock makes that doubtful: it frees the row before it deletes the
\* entry, it may report an error after it freed the row, a renewal under way
\* stores the entry again, or shortens the lease of the next TryLock.
Believes(i) == Holds(i) /\ i \notin unlocked

\* "The same task is executed by one node only" (pkg/scheduler/README.md
\* l.20): no two instances take themselves for the holder at one time.
MutualExclusion ==
  \A i, j \in Instance : Believes(i) /\ Believes(j) => i = j

\* An instance that takes itself for the holder is the holder in the
\* database, with a lease at least as long as it believes; nobody else can
\* get the lock before the belief ends.  (lockMap is a cache of the row that
\* two goroutines write after their statement has returned.)
BeliefBacked ==
  \A i \in Instance :
    Believes(i) => holder = i /\ until >= lockTime[i] + Lease

\* Whatever the delays and errors, the row changes hands only when it is
\* free or its lease has run out, and only its holder frees it.  (The WHERE
\* clauses compare with a time read before the statement was sent.)
HandsOver ==
  holder' # holder =>
    \/ holder = None
    \/ until < clock /\ holder' # None
    \/ holder' = None /\ task[holder].pc = "unlocking"
LeaseRespected == [][HandsOver]_vars
=============================================================================
