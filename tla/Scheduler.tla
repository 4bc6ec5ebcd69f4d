------------------------------- MODULE Scheduler -------------------------------
(***************************************************************************)
(* The lock of MySQLLock and what runTask (pkg/scheduler/scheduler.go)     *)
(* does to the same row: it reads the whole row before the run and, after  *)
(* it, updates the row from the structure it read.  gorm's Updates of a    *)
(* structure writes every field that is not zero, so the lease columns go  *)
(* back to what they were.  The task is handed to the time wheel before    *)
(* that update is sent.                                                    *)
(*                                                                         *)
(* A write back is at most Delay late, like the calls of the lock, and an  *)
(* instance has one at a time: a task is not run again within its update.  *)
(***************************************************************************)
EXTENDS MySQLLock

CONSTANT Never   \* taskEntry before the row is read: all fields zero

VARIABLES
  taskEntry,     \* lease columns in runTask's local structure
  update         \* the write back of each instance: what it carries, since when

taskVars == <<taskEntry, update>>
allVars  == <<vars, taskVars>>

NoLease == [holder |-> None, until |-> 0]
Entry == [holder |-> holder, until |-> until]
NoUpdate == [on |-> FALSE, entry |-> NoLease, now |-> 0]

SchedulerInit ==
  /\ Init
  /\ taskEntry = [i \in Instance |-> Never]
  /\ update = [i \in Instance |-> NoUpdate]

\* First(taskEntry).
RunRead(i) ==
  /\ task[i].pc = "running"
  /\ taskEntry[i] = Never
  /\ taskEntry' = [taskEntry EXCEPT ![i] = Entry]
  /\ UNCHANGED <<vars, update>>

\* The deferred function: AddTask, then the update is under way.  The read
\* may have failed: no lease columns are written.
WriteLater(i) ==
  /\ ~update[i].on
  /\ update' = [update EXCEPT ![i] =
       [on |-> TRUE, now |-> clock,
        entry |-> IF taskEntry[i] = Never THEN NoLease ELSE taskEntry[i]]]
  /\ taskEntry' = [taskEntry EXCEPT ![i] = Never]

RunReturn(i) == RunEnd(i) /\ WriteLater(i)

\* The loop finds the task isolated: no run, nothing is read or written.
RunIsolated(i) ==
  /\ RunEnd(i)
  /\ taskEntry[i] = Never
  /\ UNCHANGED taskVars

\* A failed run that trips the breaker unlocks first.
RunUnlock(i) == taskEntry[i] # Never /\ UnlockCall(i) /\ UNCHANGED taskVars
RunUnlocked(i) == (UnlockError(i) \/ UnlockDelete(i)) /\ WriteLater(i)

\* Updates(taskEntry): columns that are zero in the structure keep their
\* value; an error leaves the row alone.
WriteBack(i) ==
  /\ update[i].on
  /\ \/ /\ update[i].entry # NoLease
        /\ holder' = update[i].entry.holder
        /\ until' = update[i].entry.until
     \/ UNCHANGED row
  /\ update' = [update EXCEPT ![i] = NoUpdate]
  /\ UNCHANGED <<clock, lockTime, calls, lastTick, unlocked, taskEntry>>

TryToRun(i) == TryHeld(i) \/ TryCall(i) \/ TryTake(i) \/ TryRefused(i)
                 \/ TryError(i) \/ TryWon(i) \/ TryLost(i)

LockAlone(i) == (TryToRun(i) \/ RenewStep(i) \/ UnlockRow(i))
                  /\ UNCHANGED taskVars

RunStep(i) == \/ RunRead(i) \/ RunReturn(i) \/ RunIsolated(i)
              \/ RunUnlock(i) \/ RunUnlocked(i) \/ WriteBack(i)

Time == /\ Tick
        /\ \A i \in Instance : update[i].on => clock - update[i].now < Delay
        /\ UNCHANGED taskVars

SchedulerNext == Time \/ \E i \in Instance : LockAlone(i) \/ RunStep(i)

SchedulerSpec == SchedulerInit /\ [][SchedulerNext]_allVars
=============================================================================
