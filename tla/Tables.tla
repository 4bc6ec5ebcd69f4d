-------------------------------- MODULE Tables --------------------------------
(***************************************************************************)
(* The numbered log tables and who decides which one is written: the       *)
(* start-up of a server (genTables, internal/svc), the job that moves the  *)
(* position when a table is full (internal/job), the log id hook, which    *)
(* reads the position through Redis (pkg/plugin/lifecycle), and the MySQL  *)
(* exporter, which inserts a batch into the table its id names.            *)
(*                                                                         *)
(* One entity, several servers, one MySQL, one Redis.  A statement is a    *)
(* step, and may fail; a batch is inserted in one transaction, so it adds  *)
(* one unit to one table or nothing.  The scheduler's lock is to keep two  *)
(* servers from running the job at a time; it is not relied on here.  A    *)
(* server that cannot reach MySQL at start-up exits.                       *)
(*                                                                         *)
(* Bounds: MaxPos tables, MaxCrash crashes; a table's batches are counted  *)
(* up to Threshold.                                                        *)
(***************************************************************************)
EXTENDS Integers, FiniteSets

CONSTANTS
  Server,
  Threshold,     \* TableRecordThreshold, in batches
  MaxPos, MaxCrash

ASSUME TablesAssumption ==
  Threshold \in Nat \ {0} /\ MaxPos \in Nat \ {0} /\ MaxCrash \in Nat

VARIABLES
  pos,           \* schedule_end_pos in the row of the entity, 0: no row
  tables,        \* the tables that exist
  count,         \* batches in each, up to Threshold
  cached,        \* the position in Redis, 0: nothing
  start,         \* where the start-up of each server is
  startPos,      \* the position it has read or created
  hook,          \* where the hook and the exporter are with a batch
  hookPos,       \* the table number in the batch's ids
  job,           \* where SchedulePosition.Run is
  jobPos,        \* the position it has read
  crashes,
  skipped,       \* history: tables whose migration at a start-up failed
  overlapped     \* history: two servers were in the job at a time

db   == <<pos, tables, count>>
vars == <<db, cached, start, startPos, hook, hookPos, job, jobPos, crashes,
          skipped, overlapped>>

Position == 1 .. MaxPos

Init ==
  /\ pos = 0 /\ tables = {} /\ count = [p \in Position |-> 0]
  /\ cached = 0
  /\ start = [s \in Server |-> "off"] /\ startPos = [s \in Server |-> 0]
  /\ hook = [s \in Server |-> "off"] /\ hookPos = [s \in Server |-> 0]
  /\ job = [s \in Server |-> "off"] /\ jobPos = [s \in Server |-> 0]
  /\ crashes = 0 /\ skipped = {} /\ overlapped = FALSE

StartGoes(s, from, to) ==
  /\ start[s] = from
  /\ start' = [start EXCEPT ![s] = to]
  /\ UNCHANGED <<hook, hookPos, job, jobPos, crashes, overlapped>>

HookGoes(s, from, to) ==
  /\ start[s] = "up"
  /\ hook[s] = from
  /\ hook' = [hook EXCEPT ![s] = to]
  /\ UNCHANGED <<start, startPos, job, jobPos, crashes, skipped, overlapped>>

JobGoes(s, from, to) ==
  /\ start[s] = "up"
  /\ job[s] = from
  /\ job' = [job EXCEPT ![s] = to]
  /\ UNCHANGED <<cached, start, startPos, hook, hookPos, crashes, skipped>>

-----------------------------------------------------------------------------
(* genTables *)

StartFound(s) ==
  /\ StartGoes(s, "off", "cache")
  /\ pos # 0
  /\ startPos' = [startPos EXCEPT ![s] = pos]
  /\ UNCHANGED <<db, cached, skipped>>

\* No row.
StartNotFound(s) ==
  /\ StartGoes(s, "off", "insert")
  /\ pos = 0
  /\ UNCHANGED <<db, startPos, cached, skipped>>

RowMade == pos' = IF pos = 0 THEN 1 ELSE pos

\* GetSchedulePos makes the row, position 1, unless another server has by now,
\* and reads it again, but returns the error of its first query all the same.
StartInsert(s) ==
  /\ StartGoes(s, "insert", "create")
  /\ RowMade \/ UNCHANGED pos
  /\ UNCHANGED <<tables, count, startPos, cached, skipped>>

\* Mutant of StartCreate: an existing row is overwritten.
StartCreateAnyway(s) ==
  /\ StartGoes(s, "create", "cache")
  /\ pos' = 1
  /\ startPos' = [startPos EXCEPT ![s] = 1]
  /\ UNCHANGED <<tables, count, cached, skipped>>

\* So genTables makes the row once more, and goes on with position 1.
StartCreate(s) ==
  /\ StartGoes(s, "create", "cache")
  /\ RowMade
  /\ startPos' = [startPos EXCEPT ![s] = 1]
  /\ UNCHANGED <<tables, count, cached, skipped>>

\* A panic.
StartCreateError(s) ==
  /\ StartGoes(s, "create", "off")
  /\ UNCHANGED <<db, startPos, cached, skipped>>

\* Redis.Set, whose error nobody looks at.
StartCache(s) ==
  /\ StartGoes(s, "cache", "migrate")
  /\ cached' \in {startPos[s], cached}
  /\ UNCHANGED <<db, startPos, skipped>>

\* AutoMigrate, whose error nobody looks at; then the server serves.
StartMigrate(s) ==
  /\ StartGoes(s, "migrate", "up")
  /\ \/ tables' = tables \union {startPos[s]} /\ UNCHANGED skipped
     \/ skipped' = skipped \union {startPos[s]} /\ UNCHANGED tables
  /\ startPos' = [startPos EXCEPT ![s] = 0]
  /\ UNCHANGED <<pos, count, cached>>

-----------------------------------------------------------------------------
(* LogIdHook.BeforeExport and MySQLExporter.Export *)

\* flushBatch calls the hook.
HookBegin(s) ==
  /\ HookGoes(s, "off", "get")
  /\ UNCHANGED <<db, cached, hookPos>>

HookHit(s) ==
  /\ HookGoes(s, "get", "insert")
  /\ cached # 0
  /\ hookPos' = [hookPos EXCEPT ![s] = cached]
  /\ UNCHANGED <<db, cached>>

\* Mutant of HookMiss: without Redis the call is tried again.
HookMissRetries(s) ==
  /\ HookGoes(s, "get", "get")
  /\ UNCHANGED <<db, cached, hookPos>>

\* Redis has nothing, or no answer.
HookMiss(s) ==
  /\ HookGoes(s, "get", "query")
  /\ UNCHANGED <<db, cached, hookPos>>

\* The row is there: this server has started.
HookQuery(s) ==
  /\ HookGoes(s, "query", "set")
  /\ hookPos' = [hookPos EXCEPT ![s] = pos]
  /\ UNCHANGED <<db, cached>>

\* After ten seconds the hook calls itself.
HookQueryError(s) ==
  /\ HookGoes(s, "query", "get")
  /\ UNCHANGED <<db, cached, hookPos>>

HookSet(s) ==
  /\ HookGoes(s, "set", "insert")
  /\ cached' \in {hookPos[s], cached}
  /\ UNCHANGED <<db, hookPos>>

\* AuditLog.SaveBatch, when it succeeds: the ids of a batch name one table.
SaveBatch(p) ==
  /\ p \in tables
  /\ count' = [count EXCEPT ![p] = IF @ < Threshold THEN @ + 1 ELSE @]

\* The transaction of Export commits.
Insert(s) ==
  /\ HookGoes(s, "insert", "off")
  /\ SaveBatch(hookPos[s])
  /\ hookPos' = [hookPos EXCEPT ![s] = 0]
  /\ UNCHANGED <<pos, tables, cached>>

\* Or is rolled back: no such table, or any other error.
InsertError(s) ==
  /\ HookGoes(s, "insert", "off")
  /\ hookPos' = [hookPos EXCEPT ![s] = 0]
  /\ UNCHANGED <<db, cached>>

-----------------------------------------------------------------------------
(* SchedulePosition.Run *)

JobRead(s) ==
  /\ JobGoes(s, "off", "count")
  /\ jobPos' = [jobPos EXCEPT ![s] = pos]
  /\ overlapped' = (overlapped \/ \E r \in Server : job[r] # "off")
  /\ UNCHANGED db

Done(s) == jobPos' = [jobPos EXCEPT ![s] = 0]

\* Mutant of Full: a table may hold one batch more.
FullStrict(p) == count[p] > Threshold

Full(p) == count[p] >= Threshold

JobFull(s) ==
  /\ JobGoes(s, "count", "migrate")
  /\ jobPos[s] \in tables
  /\ Full(jobPos[s])
  /\ jobPos[s] < MaxPos
  /\ UNCHANGED <<db, jobPos, overlapped>>

JobNotFull(s) ==
  /\ JobGoes(s, "count", "off")
  /\ jobPos[s] \in tables
  /\ ~Full(jobPos[s]) \/ jobPos[s] = MaxPos
  /\ Done(s)
  /\ UNCHANGED <<db, overlapped>>

\* Mutant of JobMigrate: the error of AutoMigrate is not looked at.
JobMigrateUnchecked(s) ==
  /\ JobGoes(s, "migrate", "save")
  /\ tables' \in {tables \union {jobPos[s] + 1}, tables}
  /\ UNCHANGED <<pos, count, jobPos, overlapped>>

\* Mutant of JobMigrate: Redis is given the position before the row is saved.
JobMigrateCaches(s) ==
  /\ start[s] = "up" /\ job[s] = "migrate"
  /\ job' = [job EXCEPT ![s] = "save"]
  /\ tables' = tables \union {jobPos[s] + 1}
  /\ cached' = jobPos[s] + 1
  /\ UNCHANGED <<pos, count, jobPos, overlapped, start, startPos, hook,
                 hookPos, crashes, skipped>>

JobMigrate(s) ==
  /\ JobGoes(s, "migrate", "save")
  /\ tables' = tables \union {jobPos[s] + 1}
  /\ UNCHANGED <<pos, count, jobPos, overlapped>>

\* Mutant of JobSave: the row is incremented.
JobSaveIncrements(s) ==
  /\ JobGoes(s, "save", "off")
  /\ pos' = pos + 1
  /\ Done(s)
  /\ UNCHANGED <<tables, count, overlapped>>

\* SchedulePos.Save updates by primary key: whatever the row says by now.
Save(p) == pos' = p

\* The row as it was read, the position one further.
JobSave(s) ==
  /\ JobGoes(s, "save", "off")
  /\ Save(jobPos[s] + 1)
  /\ Done(s)
  /\ UNCHANGED <<tables, count, overlapped>>

\* A statement fails, or the table to count is not there: Run returns.
JobError(s) ==
  /\ \E at \in {"count", "migrate", "save"} : JobGoes(s, at, "off")
  /\ Done(s)
  /\ UNCHANGED <<db, overlapped>>

-----------------------------------------------------------------------------
Crash(s) ==
  /\ start[s] # "off"
  /\ crashes < MaxCrash
  /\ crashes' = crashes + 1
  /\ start' = [start EXCEPT ![s] = "off"]
  /\ startPos' = [startPos EXCEPT ![s] = 0]
  /\ hook' = [hook EXCEPT ![s] = "off"] /\ hookPos' = [hookPos EXCEPT ![s] = 0]
  /\ job' = [job EXCEPT ![s] = "off"] /\ jobPos' = [jobPos EXCEPT ![s] = 0]
  /\ UNCHANGED <<db, cached, skipped, overlapped>>

\* Redis restarts empty.
RedisLoss ==
  /\ cached # 0
  /\ cached' = 0
  /\ UNCHANGED <<db, start, startPos, hook, hookPos, job, jobPos, crashes,
                 skipped, overlapped>>

StartStep(s) == \/ StartFound(s) \/ StartNotFound(s) \/ StartInsert(s)
                \/ StartCreate(s) \/ StartCreateError(s)
                \/ StartCache(s) \/ StartMigrate(s)
HookStep(s) == \/ HookHit(s) \/ HookMiss(s) \/ HookQuery(s)
               \/ HookQueryError(s) \/ HookSet(s) \/ Insert(s)
               \/ InsertError(s)
JobStep(s) == \/ JobRead(s) \/ JobFull(s) \/ JobNotFull(s) \/ JobMigrate(s)
              \/ JobSave(s) \/ JobError(s)

Next ==
  \/ \E s \in Server : \/ StartStep(s) \/ HookBegin(s) \/ HookStep(s)
                       \/ JobStep(s) \/ Crash(s)
  \/ RedisLoss

Spec == Init /\ [][Next]_vars

\* Calls return, and a server that exits is started again; a hook reaches
\* MySQL in the end when it tries again and again; the scheduler runs the job
\* again and again, on one server or another, and each of its statements
\* succeeds in the end when it is tried again and again.
FairSpec ==
  /\ Spec
  /\ \A s \in Server :
       WF_vars(StartStep(s)) /\ WF_vars(HookStep(s)) /\ SF_vars(HookQuery(s))
  /\ WF_vars(\E s \in Server : JobStep(s))
  /\ SF_vars(\E s \in Server : JobFull(s))
  /\ SF_vars(\E s \in Server : JobMigrate(s))
  /\ SF_vars(\E s \in Server : JobSave(s))

-----------------------------------------------------------------------------
OrNone(set) == set \union {0}

TypeOK ==
  /\ pos \in OrNone(Position) /\ tables \subseteq Position
  /\ count \in [Position -> 0 .. Threshold]
  /\ cached \in OrNone(Position)
  /\ start \in [Server -> {"off", "insert", "create", "cache", "migrate", "up"}]
  /\ startPos \in [Server -> OrNone(Position)]
  /\ hook \in [Server -> {"off", "get", "query", "set", "insert"}]
  /\ hookPos \in [Server -> OrNone(Position)]
  /\ job \in [Server -> {"off", "count", "migrate", "save"}]
  /\ jobPos \in [Server -> OrNone(Position)]
  /\ crashes \in 0 .. MaxCrash
  /\ skipped \subseteq Position /\ overlapped \in BOOLEAN

\* The table an id names exists before a batch carries the id, though the
\* position is put into Redis before the table is made and is read from there
\* by other servers; except for a table whose migration failed at a start-up.
UsedTableExists ==
  \A s \in Server :
    hook[s] \in {"set", "insert"} => hookPos[s] \in tables \union skipped

\* The position only moves forward, over racing first starts, crashes and
\* stale reads, as long as no two servers were in the job at a time.
NeverBack == pos' < pos => overlapped
PositionForward == [][NeverBack]_vars

\* Nobody writes to a table ahead of the position: a table made by a job that
\* could not save the row stays unused.
NotAhead ==
  ~overlapped => cached <= pos /\ \A s \in Server : hookPos[s] <= pos

\* A full table is left by the position.
FullIsRotated ==
  \A p \in 1 .. MaxPos - 1 :
    pos = p /\ p \in tables /\ count[p] = Threshold ~> pos # p

\* The hook comes back with an id, and the batch is inserted or refused.
HookReturns == \A s \in Server : hook[s] # "off" ~> hook[s] = "off"

\* "Threshold of the records of one table" (schedule_position.go l.12): when
\* the position has come to rest, batches go in the end to the table it names.
SettledIsUsed ==
  \A p \in Position :
    <>[](pos = p)
      => <>[](\A s \in Server : hook[s] = "insert" => hookPos[s] = p)
=============================================================================
