# Formal models of audit-server

TLA+ models of the audit log server in this repository: what is modelled, what
TLC checks on small instances, what TLAPS proves for all instances, and what is
left out. Paths below are relative to the repository.

## 1. The system

A server accepts audit records over HTTP and pushes them into a *pipeline*. The
pipeline collects them into batches and hands every batch to its *exporters*
(MySQL in the shipped configuration). Batches that cannot be exported are saved
to local files and exported later. A *scheduler* in every server runs periodic
tasks, one of which moves the log tables along as they fill; a lock in MySQL is
to make sure that one server runs a task at a time.

| Component | State it keeps | Operations | Interacts with | What makes it correct |
|---|---|---|---|---|
| Pipeline intake, `pkg/pipeline/core.go` | channel, `started`, ctx, the batch of `processor` | `Push`, `Start`, `Close`, `processor` | callers (mutex, channel), export (calls `flushBatch`) | no accepted record lost, doubled or reordered; no send on the closed channel; `Close` returns after everything was handed over |
| Export and recovery, `core.go`, `state.go` | status word, `blockData` | `flushBatch`, `handleExportError`, `recoveryMonitor`, `tryRecoverFromDisk` | exporters, local storage, intake (`IsBlocked`) | a batch is exported or kept; nothing is removed unexported; passes end; a blocked pipeline unblocks |
| Local storage, `storage.go` | files, current file | `Save`, rotation, `Recover`, `RemoveFile`, `isDiskFull` | exporter goroutines, monitor, reader goroutine | what was saved is found by recovery |
| Metrics, plugins of a pipeline | counters, maps | registration | everything | - |
| Plugins, `pkg/plugin/...` | registry; MySQL exporter, console exporter, field filter, log id hook | `Export`, `Filter`, `BeforeExport` | pipeline, MySQL, Redis | an export is all or nothing; an id names the table the record goes to |
| Lock, `pkg/scheduler/lock.go` | the row of `schedule_task`, `lockMap` | `TryLock`, `Unlock`, `AutoRenew`/`renewLocks`, `ReleaseAll` | other servers (MySQL) | one holder at a time |
| Scheduler, `scheduler.go` | tasks under way | registration, loop, `runTask`, `Stop` | lock, wheel, queue, breaker, MySQL | every task runs again and again, on one server |
| Time wheel, `timewheel.go` | slots, `currentSlot` | `AddTask`, tick | loop, runner, queue | no task lost, none early |
| Task queue, `task.go` | heap | `Push`, `Pop` | wheel, loop | no task or wake-up lost, none overtaken by a lower priority |
| Circuit breaker, `circuitbreaker.go` | failure counts, trip times | `OnSuccess`, `OnFailure`, `IsIsolated` | loop, runner | isolation starts and ends |
| Position job and model, `internal/job`, `internal/model` | rows of `schedule_pos`, log tables | `Run`, `GetSchedulePos`, `SaveBatch` | MySQL, the log id hook (Redis) | new records reach the table the position names |
| HTTP handlers and logic, `internal/handler`, `internal/logic`, `internal/types` | - | report, query, export | pipeline, MySQL | - |
| Start-up, `internal/svc` | position row, first table, Redis key | `genTables`, wiring | MySQL, Redis | tables exist before they are used |
| Configuration, errors, utilities | - | - | - | - |

What is hard to test here: Go's interleavings of `Push`, `Close` and the select
of `processor`; the exporter goroutines of a batch against the monitor, its
reader and the background removals; the status word they all write; `blockData`
without a lock; full disks, cut-off writes and crashes; the servers' clocks and
late or failed statements in the lock; the wheel's hand moving while other
goroutines compute slots; three copies of the table position (MySQL, Redis,
memory) written in separate steps. The list with source lines is in
`PROJECT.json` under `hazards`.

## 2. Modules

| Module | What it is |
|---|---|
| `Handoff` | abstract: what a pipeline promises its callers |
| `Intake` | detailed: `Push`, `Start`, `Close`, `processor`; implements `Handoff` |
| `Export` | `flushBatch`, exporters, storage, recovery, crash, disk |
| `MySQLLock` | the lock of one task across servers |
| `Scheduler` | `MySQLLock` composed with what `runTask` does to the same row |
| `WaitQueue` | abstract: what the queue of due tasks promises |
| `TaskQueue` | detailed: the heap and the condition variable; implements `WaitQueue` |
| `Dispatch` | time wheel, queue (as `WaitQueue`), scheduler loop, `runTask`, breaker of one server |
| `Tables` | log tables and their position: start-up, log id hook, MySQL exporter, position job |
| `MCIntake`, `MCExport`, `MCMySQLLock`, `MCScheduler`, `MCTaskQueue`, `MCDispatch`, `MCTables` | instances for TLC |
| `IntakeProof`, `ExportProof`, `LockProof`, `QueueProof`, `DispatchProof`, `TablesProof` | theorems |
| `Induction` | induction over the naturals, and loops, as facts about sets and functions that proofs can cite |

**Intake.** A step is what happens between two points where another goroutine
may run. `Push` is `PushCheck` (the unlocked `IsBlocked`), `PushLock` or
`PushNotStarted` (`RLock` and the `started` check) and `PushSend` or `PushFull`.
`Close` is `CloseAnnounce`, `CloseLock`, `CloseCancel`, `CloseQueue`,
`CloseReturn`. `WriterHere` and `ReaderHere` say who has the RWMutex; a writer
that announced itself stops new readers, as Go's does. The processor's select
takes any ready case: `Recv`, `RecvNil` (the closed channel yields nil),
`TimerFire`, `CtxDone`; then the drain loop. `flushBatch` is one step that may be
arbitrarily late. With `HookAsserts` it has the log id hook, which takes the first
element of a batch for an entity (`logid.go:39`): on a nil it panics (`FlushPanics`), the
process is gone (`proc = "panicked"`) and nothing moves any more (`Alive`). A blocked pipeline
does not call its hooks. `accepted`, `flushed` and `phantom` are history. `blocked` is
written by `StatusChange`, whenever the goroutines that write it may run.

**Export.** Data is at the grain of batches, a line of a file holds one batch for
one exporter. `export[e]` is the exporter goroutine of `flushBatch`; the append to
`blockData` is two steps (`FlushBuffer`, `FlushStore`), as is the monitor's
Save-then-truncate. The reader goroutine of `Recover` and the monitor meet at an
unbuffered channel (`reader = "send"`, `ReceiveLine`, `ReceiveFinish`). It takes the listed files
in the order of their names: `todo` are those it is not done with, `Oldest` the one it reads. A removed
file keeps its lines for whoever has it open: `linked` becomes FALSE. A failed
write leaves any prefix of the lines and perhaps a torn line. `Crash` restarts
the process: memory is lost, files stay. `delivered`, `handled`, `buffered`,
`readTo`, `listed` are history.

**MySQLLock.** `task[i]` is where server i has the task: idle, in `TryLock`,
running, in `Unlock`. `renew[i]` is its renewal. Each reads the time, sends one
conditional UPDATE, which is atomic in MySQL, and then touches `lockMap`
(`lockTime[i]`). A statement may fail, applied or not. `Tick` advances a clock all
servers share; `Period` and `Delay` bound how late a renewal and a call can be.

**Scheduler.** Adds to `MySQLLock` the local structure `taskEntry[i]` that `runTask`
reads (`RunRead`) and the UPDATE it sends after the run (`WriteLater`,
`WriteBack`). gorm writes the fields of the structure that are not zero, so the
lease columns go back to what was read. The task is back in the wheel before the
UPDATE is sent, so the write back overlaps everything else.

**TaskQueue, WaitQueue.** `heap` is the slice; `Up` and `Down` are `container/heap`'s loops, a turn
of which is `UpTurn` and `DownTurn`, with the code's `Less`, which compares positions among equal priorities. `loop` is
whether the popper is in `Wait`. The refinement maps the slice to the set of its
elements.

**Dispatch.** Time advances in wheel ticks of 50 ms; `wait[t]` is the time to
`NextRunTime`. `AddTask` from outside the wheel is two steps, `AddCall` (computes the
slot from `currentSlot` without a lock) and `AddInsert`; the hand may move between
them. `HandTick`, `HandPush`, `HandAdd`, `HandMove` are the body of the wheel's
loop. The scheduler loop is `LoopPop`, then `LoopRefused` or `LoopLocked`, then
`LoopIsolated` or `LoopRun`; `runTask` goes through `run[t]`, with errors, panics
and the deferred `RunEnd`. What the lock and the row answer is open.

**Tables.** A step is one statement to MySQL or Redis. `start[s]`, `hook[s]` and
`job[s]` are where server s is in `genTables`, in `BeforeExport` and the insert that
follows, and in `SchedulePosition.Run`. `pos` is the row, `cached` the Redis key,
`hookPos` what a batch's ids carry. The lock that keeps the job to one server is
not assumed: `overlapped` remembers when two were in it.

**Mutants.** Next to some actions stands a variant named in its comment as a
mutant: a plausible bug. It is in no specification; replacing the action by it
makes the run of the property fail, which shows that the property can.

## 3. Runs

| Configuration | Checks | Instance |
|---|---|---|
| `MCIntake` | `TypeOK`, `NoSendOnClosed`, `HandoffExact`, `DrainedOnExit`, `BatchBound`, refinement of `Handoff`, `AcceptedIsFlushed`, `CloseTerminates` | 3 records, 2 callers, 2 closers, batches of 2, channel of 2, the log id hook |
| `MCExport` | `RemovedWasExported`, `HandledIsKept` | 2 exporters, 2 batches |
| `MCExportFault` | `TypeOK`, `RemovedWasExported`, `HandledIsKept`, `BufferedIsKept`, `NormalAfterCleanPass`, `PassEnds`, `BlockedClears` | 1 exporter, 2 batches, full disk, 1 failed write, 2 crashes |
| `MCLock` | `TypeOK`, `MutualExclusion`, `BeliefBacked`, `LeaseRespected` | 2 servers, lease 3, period 1, calls within 1, Unlock, time to 6 |
| `MCTaskQueue` | `TypeOK`, `HeapOrdered`, refinement of `WaitQueue`, `NoLostWakeup` | 7 tasks of 3 priorities |
| `MCDispatch` | `TypeOK`, `TaskConserved`, `NeverEarly`, `LateBound`, `IsolatedRests`, `RunsAgain` | 2 tasks of different priority, wheel of 3 slots, 2 ticks to a slot, interval of 4, `AddTask` within 1, breaker at 2 failures for 5 ticks |
| `MCTables` | `TypeOK`, `UsedTableExists`, `NotAhead`, `PositionForward`, `FullIsRotated`, `HookReturns` | 2 servers, 2 tables, a table full after 1 batch, 1 crash |

Why the bounds suffice. Intake: three records fill the channel and leave one in
the processor's hands, so every branch of `Push` and `processor` is taken with a
Close at any point; two closers and two callers give every order at the mutex; the
safety properties are proved for all sizes (section 5). Export: a file is rotated
after its second line, so two batches for an exporter, or blocked and saved ones,
fill a file and open the next while a pass reads; two crashes fall between any
steps, the second into the recovery from the first. With two exporters, two batches
give four lines. Lock: a lease of 3 is renewed every 1, and a time of 6 lets it
lapse, be taken over and renewed again. TaskQueue: seven tasks are a heap of three
levels, in which an element is sifted past equal and different ones. Dispatch: the interval is longer than
a turn of the wheel (3 ticks), so the hand passes a waiting task before its time, as the code's
60 s do with a turn of 0.5 s; one task can be due while the other is anywhere;
the isolation outlasts the interval, so an isolated task comes round in it. Tables: two
servers give every order of first starts, stale reads and stale saves; two tables
let the position be moved once and set back. The safety properties of all these modules are proved
for all sizes (section 5); the bounds matter for the liveness properties and for the violations.

`MCTaskQueue`, `MCDispatch` and `MCTables` check for deadlock: the scheduler's
goroutines never all wait on each other, and a server always has something to
do. The other systems stop, or run out of batches or of time.

`MCIntake` has the hook that panics (`HookAsserts = TRUE`). `CloseTerminates` therefore says that `Close`
returns or the hook has ended the process, and `DrainedOnExit` that even then every record was handed over
before. The theorems cover a pipeline without that hook too.

`HandledIsKept` and `BufferedIsKept` count a line as saved while its file is in the directory, or while it stands
behind what recovery had read when it decided to remove the file. So they do see a file that recovery
removes too early; a line written to a file that is being removed is the subject of `SavedIsRecoverable`.

Where the code does not keep a promise the properties say so instead of
excluding the case from the model: `HandledIsKept` excepts the batches whose Save
reported an error (they are dropped, `core.go:278-281`), `NormalAfterCleanPass`
the files with a line cut short (the pipeline goes back to Normal over them,
although the comment at `core.go:212` speaks of recovered data), and
`MutualExclusion` and `BeliefBacked` the servers that have called Unlock (its error
leaves the entry, a renewal under way stores it again or, with its older time,
shortens the lease of the next TryLock). `BufferedIsKept` excepts batches appended to `blockData`
between the monitor's Save and its truncation (`core.go:160-163`, `223`, no lock),
`LateBound` the tasks registered with a time in the past, `UsedTableExists` a table
whose migration failed at a start-up (`servicecontext.go:203`), `PositionForward` and
`NotAhead` the case that two servers ran the job at a time. The model has all of these.

Runs in which TLC finds what the code does against what the repository says
(`PROJECT.json`, `findings`):

| Configuration | Property | What happens |
|---|---|---|
| `MCExportLost` | `SavedIsRecoverable` | a file is removed while it is the current one; later saves go to an unlinked file (`core.go:195`) |
| `MCExportPanic` | `NoPanic` | blocked data is saved under the pipeline's name, which names no exporter (`core.go:201`) |
| `MCExportTyped` | `RetriedIsExported` | recovered data is decoded JSON, which the MySQL exporter rejects (`mysql.go:34`) |
| `MCScheduler` | `MutualExclusion` | `runTask` writes back the lease it read before the run (`scheduler.go:123`) |
| `MCTablesStale` | `SettledIsUsed` | the Redis copy of the position is never refreshed; batches go on to the full table (`logid.go:52`) |

More disagreements, which no run of its own is kept for:

- Between `close(queue)` and the ctx case, `processor` batches the nil values of the closed channel
  (`core.go:126`); `pipeline_test.go:108` counts what is handed over. `Intake!NothingButAccepted`
  fails for this reason. A nil at the head of a batch makes the log id hook panic (`logid.go:39`), so
  that the process dies in a `Close` which "waits until all data is processed" (`core.go:290`);
  a pipeline closed with nothing to flush is enough. `main` does not call `Close`. A nil behind
  records makes `MySQLExporter` refuse the whole batch (`mysql.go:34`): to `Export` that is a failing exporter.
- When a renewal finds the lock gone, the entry is deleted and then, for want of a
  return, stored again (`lock.go:149-153`). With `Delay = 2`, `CanUnlock = FALSE` and
  `MaxTime = 8` in `MCLock.cfg`, `MutualExclusion` fails through it.
- A late renewal can also reach MySQL after the statement of a newer `TryLock` of its server and set
  the lease back to an earlier time (`lock.go:143`): the missing return is not the only way in which a late renewal costs
  exclusion. `MutualExclusion` holds if calls are punctual (`Punctual`, section 5).
- `pkg/scheduler/README.md:29` says that the lock is released after the run; the code
  releases it only when the breaker trips (`scheduler.go:152-154`) and renews it for
  ever otherwise. A task is not stopped when its lock is lost: after one failed
  renewal (`lock.go:144-148`) it runs on while another server takes the lock.
- `task.go:50` and `70` speak of first in, first out among equal priorities; `Less`
  compares positions in the heap, which is not the order of arrival: of three equal tasks the last is popped
  second. `WaitQueue` promises only that no lower priority is preferred.
- `runTask` sets `FailureCount` to 0 on success (`scheduler.go:159`), but gorm's
  Updates leaves out zero fields: the column never goes back.
- `GetSchedulePos` creates a missing row and still returns the first query's error,
  which an inner `err` shadows (`position.go:54-66`); `genTables` then creates the row once more.
- `AddTask` divides by 100 ms (`timewheel.go:41`) while the hand moves every 50 ms
  (`scheduler.go:35`). It costs nothing: `NeverEarly` and `LateBound` hold.

## 4. Fairness

`Intake!FairSpec`: a goroutine that can run does (weak fairness of the calls
under way, of the flush and the drain). The cases of the select are strongly fair,
because Go chooses among the ready ones at random each time round. Nobody is
obliged to push, start or close. Fairness of `FlushBatch` assumes that hooks and
exporters return, or panic as the log id hook does; that hook also retries without end while Redis and MySQL are
down, and then nothing is promised.

`Export!FairSpec`: weak fairness of each goroutine: `flushBatch`, each exporter
(which returns with either result), monitor (its ticker ticks on), reader,
removals. No fairness of failures, crashes, new batches or of the disk;
`BlockedClears` assumes that the disk has room for good from some point on.

`TaskQueue!Spec`: the loop comes back to `Pop`, and runs when signalled.

`Dispatch!FairSpec`: weak fairness of the ticker with the wheel's goroutine, of the
loop, of each runner and each `AddTask`; strong fairness of a task's lock being
granted when asked for again and again, which on one server alone is so.
`RunsAgain` assumes that the loop keeps up (the queue is empty again and again):
otherwise a low priority starves, by design. Task runs return.

`Tables!FairSpec`: weak fairness of the start-ups, of a hook under way and of the
job on some server; strong fairness of the hook's query and of the job's statements, each
of which succeeds in the end when tried again and again. None for failures.

`MySQLLock` and `Scheduler` have no liveness property: nobody is promised the lock.

## 5. Proofs

`IntakeProof`, for every set of records, callers and closers and every batch and
channel size (`BatchSizeAssumption`, `QueueFactorAssumption`), with or without the hook that panics (`HookAssumption`): `TypeCorrect`,
`SendSafe`, `Conservation`, `Drained`, `BatchesBounded`, `Refinement`. None of the invariants but `HandoffExact` is
inductive. `Draining` (what the processor knows once it has left its select) needs
that nothing is sent after ctx is done, and that a nil is only batched once the channel is
closed and empty, so that no record can stand behind the one the hook panics on. It needs `Protocol`: a sender holds
the read lock and saw `started`; whoever cancelled has held the write lock and
reset it. `Conservation` is the only one about sequences; the lemmas `HeadFirst`,
`MoveHead` and `AppendLast` say what a receive and a send do to the concatenation
of handed over, batched and queued. `BatchesBounded` rests on `Bounded`, which says
how long the slice can be at each point of the processor: while it drains, slice
and channel together do not grow, because nothing is sent any more. `Refinement`
(`Spec => ImplementsHandoff`) maps `PushSend` to `Accept`, a flush that holds records
to `HandOver`, the processor's return to `Finish`, everything else to a stutter;
`PrefixOfAccepted` gives the sequence fact, `Draining` that the last flush hands
over all there is.

`LockProof`, for every number of servers, any lease, period and delay
(`TimesAssumption`, `NoneAssumption`): `TypeCorrect`, `LeaseSafe`, `Backing`, `OneHolder`. The inductive
invariant of the first two adds that the time a call carries is not ahead of the clock: a lease
expired by that time is expired now. `Backing` (`BeliefBacked`) and `OneHolder` (`MutualExclusion`) hold
under `Punctual == Period + 2 * Delay <= Lease`. In the code a period is a third of the lease
(`lock.go:123`), so `Punctual` says that a call is over, from its `now` to its last write to
`lockMap`, within a renewal period. The condition cannot be dropped, and with a lease of 4, a
period of 1 and a delay of 2 (5 is not at most 4) TLC finds `BeliefBacked` violated. `BeliefInv`
says of every server that has not called Unlock: its entry is backed by the row (`Backed`); between
renewals the entry is at most a delay older than the last one, and when the next one is late the
row is still the server's (`Fresh`); a renewal under way finds the row (`Renewing`, which is what keeps
the missing return of `lock.go:149-153` from being reached); and a `TryLock` that has taken the row
will be believed (`Winning`). `Relies` turns each of these into "the row is the server's now", so
that no other server's statement finds it free (`OthersKeep`).

`ExportProof`, for every set of exporters, number of batches, size of a file, number of crashes and
failed writes (`MarkAssumption`: a torn line and the end of a file are no lines): `TypeCorrect`,
`RemovedExported`, `HandledKept`, `BufferedKept`, `NormalClean`. All rest on a part about the disk alone
(`DiskKept`, `LinesKept`, `HistoryKept`): whatever Save writes, wherever it rotates and however far a
write gets before it fails, every file keeps the lines it had, and a Save that reports success left
all its lines. `RemovedWasExported` is not inductive: it needs `ScanInv`, that as long as
`exportSuccess` stands every line read from the open file was exported or is the one between reader and
exporter; so what the monitor has when the reader sends `Finish` is a file read to where the reader
stood. `HandledInv` says of an exporter goroutine that is past its Export and Save what
`HandledIsKept` says of the whole batch; when a file is unlinked, `WrittenIsKept` takes from
`RemovedWasExported` that each of its lines was exported, or stands behind what was read. `BufferedInv` adds what `flushBatch` knows between reading the
header of `blockData` and storing it back: a header that is stale holds, besides what is still in
`blockData`, only what was saved or raced. `PassInv` follows one pass of recovery: while `errorCount` is
0 every listed file that is whole is yet to be read, or its lines are exported.

`QueueProof`, for every number of tasks and any priorities (`PriorityAssumption`): `TypeCorrect`,
`HeapKept`, `Refinement` (`Spec => ImplementsWaitQueue`). The loops of `container/heap` have an
invariant each. Going up, `UpInv`: no element outranks its parent but perhaps the one being moved,
and its children do not outrank that one's parent, so that a swap leaves them in order; going down,
`DownInv`, the same for the element that sinks, among the first n. A turn either moves the element
a level or changes nothing (`UpTurnKeeps`, `DownTurnKeeps`), so as many turns as there are elements
are enough (`UpSifts`, `DownSifts`). A swap gives the same elements again, each once
(`SwapShuffles`). That `Less` looks at positions does not matter because both loops ask it about a
place and one before it, or about two siblings, of which either may go up. `RootHighest` is what
`Pop` owes its caller: the least place of an element that outranks the root would have a parent that
does too. `Induction` states the induction as facts about sets of naturals (`Least`, `NatInduct`) and
about a function defined by repeating a turn (`TurnsExist`, `TurnsMean`).

`DispatchProof`, for every set of tasks, wheel, interval and breaker (`DispatchAssumption`,
`NoneAssumption`): `TypeCorrect`, `Conserved`, `DueOnly`, `BreakerRespected`, `DueSoon`. `TypeInv` joins to
the types that the loop's two variables agree, that the hand is empty between turns, and that
the count of a closed breaker is below the threshold; without the last, a failure could count
past it. `OnePlace` is `TaskConserved` without cardinalities: where a task is excludes every
other place, and it is in one slot only. Each step moves at most the tasks it has in hand;
`IntoWheel` is shared by the three ways into a slot. `NeverEarly` needs `OnePlace`: who sets a
task's time has the task, so it is not in the queue or with the loop. `DueSoon` (`LateBound`) is under
`Roomy == Slots + AddDelay <= Interval + 2`: an interval is at least a turn of the wheel and what an
`AddTask` can be late, less two ticks. In the code a turn is 10 ticks and an interval at least a second,
20 ticks (60 s for the one task there is), so an `AddTask` may be descheduled for 0.6 s. The condition
is enough and for some wheels more than is needed; without it TLC finds a task that is put behind
the hand and comes a turn late (three slots, interval 1, delay 2). `OnTime` knows, of every slot by its
distance ahead of the hand, how many ticks are left until the hand takes it (`Until`), and that
the tasks in it are due at most two ticks before that. Ticks and the hand's steps count distances down;
`Reached` says what distance `AddTask` chooses, whatever the wheel's size and wherever the hand is
in its turn, from `Turned`, `Wrapped` and `Divided` about remainders.

`TablesProof`, for every number of servers, tables and crashes and any threshold
(`TablesAssumption`): `TypeCorrect`, `UsedExists`, `NobodyAhead`, `Forward`. `NumbersKnown` strengthens
`UsedTableExists`: a number in the row, in Redis or in a server is 0, the first table, or one whose
table was made (or whose migration failed), and a server that serves has seen to the first table. `JobAlone` is
what makes the position go forward: as long as no two servers were in the job, the one in
it has read the position that is still in the row, so what it saves is the next one.

Only model-checked: the liveness properties (`AcceptedIsFlushed`, `CloseTerminates`, `PassEnds`,
`BlockedClears`, `NoLostWakeup`, `RunsAgain`, `FullIsRotated`, `HookReturns`), which are beyond the
prover, as is whether an action is enabled, and so the absence of deadlock. `Scheduler` has no theorem: what is to be
said of it is the violation that TLC finds. Every invariant and action property of a passing run is a theorem.
Induction over data is available only in the form of `Induction`: about a set of naturals, or a loop
written as a function of the number of turns, which is why `WrittenAll` of `Export` and `Up` and `Down` of
`TaskQueue` are written so.

## 6. Assumptions and what is not modelled

- One Start per pipeline (as in `main`).
- File names are distinct; in the code two files of one second share a name.
  Creating a file does not fail. Lines fit the scanner's buffer.
- Filters change batches, not control; the hooks' effect is in `Tables`.
- The servers' clocks agree. One task stands for all in the lock: tasks share no state there.
- `Scheduler.Stop`, the wheel's `Stop`, the lock's and the service context's `ReleaseAll` are called nowhere.
- `Dispatch`: the wheel finishes a tick before the next one, and an `AddTask` that
  was descheduled for longer than `AddDelay` between its two halves could be a
  turn late. The data race on `currentSlot` is a read of its value before or after the move.
- `Tables`: one entity, as in the code; a batch is inserted as one unit, because
  `Export` is one transaction. `start` returning to `off` stands for a panic or a crash.
- `Scheduler` and `Dispatch` are not joined with each other: the row's times and the
  lock's answers are left open in `Dispatch`, which covers whatever `Scheduler` does.
- HTTP handlers and queries are sequential code over one request: a report is one
  `Push` of `Intake`, a query builds one SQL statement. Registry, metrics,
  configuration and error types are data. `GetNextPos`, `SchedulePos.Create`
  and `CreateTable` have no caller; `SetDefaults` changes a copy.

## 7. Plan

1. (done) `Handoff`, `Intake`, `Export`, `MySQLLock`, with proofs about intake and lock.
2. (done) `WaitQueue`, `TaskQueue`, `Dispatch`; `Scheduler` over `MySQLLock`; `Tables`;
   recovery to a typed exporter.
3. (done) Proofs about `Dispatch` and `Tables`.
4. (done) Proofs about `Export` and `TaskQueue`; `BeliefBacked` and `MutualExclusion` of `MySQLLock`
   under its timing assumption; `LateBound` of `Dispatch`.
5. An abstract specification of what the pipeline does with a batch for one exporter (given, then
   exported, kept or reported, never forgotten), implemented by `Export`; what `LockProof` shows that
   still holds in `Scheduler`, where `runTask` writes the row as well.
