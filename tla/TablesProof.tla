------------------------------ MODULE TablesProof ------------------------------
(***************************************************************************)
(* Tables for every number of servers, tables and crashes.                 *)
(*                                                                         *)
(* Why a table in use exists although its number is in Redis before it is  *)
(* made: a number is known to the database, Redis or a server only if its  *)
(* table was made (or its migration failed) or it is the first table, and  *)
(* a server that serves has seen to the first table or found a later one.  *)
(***************************************************************************)
EXTENDS Tables, TLAPS

Made == tables \union skipped
Known(p) == p \in {0, 1} \/ {1, p} \subseteq Made

\* Who is where: only a server that has started has a batch or a job.
Awake ==
  \A s \in Server :
    /\ hook[s] # "off" \/ job[s] # "off" => start[s] = "up"
    /\ start[s] \in {"cache", "migrate", "up"} => pos # 0
    /\ start[s] \in {"cache", "migrate"} => startPos[s] # 0

\* A job that goes on has a table to go on to.
JobGoesOn ==
  \A s \in Server :
    job[s] \in {"migrate", "save"} => jobPos[s] \in 1 .. MaxPos - 1

TypeInv == TypeOK /\ Awake /\ JobGoesOn

\* Every number that is around is known, and the job made what it will save.
NumbersKnown ==
  /\ Known(pos) /\ Known(cached)
  /\ \A s \in Server :
       /\ Known(startPos[s])
       /\ start[s] = "up" => 1 \in Made
       /\ job[s] = "save" => jobPos[s] + 1 \in Made

\* As long as no two servers were in the job, the one in it has read the
\* position that is still in the row, and nobody has a later one.
JobAlone ==
  ~overlapped =>
    \A s \in Server :
      /\ job[s] # "off" => /\ jobPos[s] = pos
                           /\ \A r \in Server \ {s} : job[r] = "off"
      /\ startPos[s] <= pos

IInv == TypeInv /\ NumbersKnown /\ UsedTableExists /\ JobAlone /\ NotAhead

-----------------------------------------------------------------------------
(* The type invariant *)

LEMMA InitTyped == Init => TypeInv
<1> SUFFICES ASSUME Init PROVE TypeInv
  OBVIOUS
<1>1. TypeOK
  <2>1. 0 \in 0 .. Threshold /\ 0 \in 0 .. MaxCrash
    BY TablesAssumption
  <2>2. count \in [Position -> 0 .. Threshold]
    BY <2>1 DEF Init
  <2> QED
    BY <2>1, <2>2 DEF Init, TypeOK, OrNone
<1>2. Awake /\ JobGoesOn
  BY DEF Init, Awake, JobGoesOn
<1> QED
  BY <1>1, <1>2 DEF TypeInv

LEMMA StartTyped ==
  ASSUME TypeInv, NEW s \in Server, StartStep(s)
  PROVE  TypeInv'
<1> USE TablesAssumption
    DEF TypeInv, TypeOK, Awake, JobGoesOn, OrNone, Position, StartGoes, db
<1>1. CASE StartFound(s)
  BY <1>1 DEF StartFound
<1>2. CASE StartNotFound(s)
  BY <1>2 DEF StartNotFound
<1>3. CASE StartInsert(s)
  BY <1>3, SMTT(30) DEF StartInsert, RowMade
<1>4. CASE StartCreate(s)
  BY <1>4, SMTT(30) DEF StartCreate, RowMade
<1>5. CASE StartCreateError(s)
  BY <1>5 DEF StartCreateError
<1>6. CASE StartCache(s)
  BY <1>6 DEF StartCache
<1>7. CASE StartMigrate(s)
  BY <1>7 DEF StartMigrate
<1> QED
  BY <1>1, <1>2, <1>3, <1>4, <1>5, <1>6, <1>7 DEF StartStep

LEMMA HookTyped ==
  ASSUME TypeInv, NEW s \in Server, HookBegin(s) \/ HookStep(s)
  PROVE  TypeInv'
<1> USE TablesAssumption
    DEF TypeInv, TypeOK, Awake, JobGoesOn, OrNone, Position, HookGoes, db
<1>1. CASE HookBegin(s)
  BY <1>1 DEF HookBegin
<1>2. CASE HookHit(s)
  BY <1>2 DEF HookHit
<1>3. CASE HookMiss(s)
  BY <1>3 DEF HookMiss
<1>4. CASE HookQuery(s)
  BY <1>4 DEF HookQuery
<1>5. CASE HookQueryError(s)
  BY <1>5 DEF HookQueryError
<1>6. CASE HookSet(s)
  BY <1>6 DEF HookSet
<1>7. CASE Insert(s)
  <2>1. hookPos[s] \in Position /\ count[hookPos[s]] \in 0 .. Threshold
    BY <1>7 DEF Insert, SaveBatch
  <2>2. count' \in [Position -> 0 .. Threshold]
    BY <1>7, <2>1 DEF Insert, SaveBatch
  <2> QED
    BY <1>7, <2>2 DEF Insert, SaveBatch
<1>8. CASE InsertError(s)
  BY <1>8 DEF InsertError
<1> QED
  BY <1>1, <1>2, <1>3, <1>4, <1>5, <1>6, <1>7, <1>8 DEF HookStep

LEMMA JobTyped ==
  ASSUME TypeInv, NEW s \in Server, JobStep(s)
  PROVE  TypeInv'
<1> USE TablesAssumption
    DEF TypeInv, TypeOK, Awake, JobGoesOn, OrNone, Position, JobGoes, Done, db
<1>1. CASE JobRead(s)
  BY <1>1 DEF JobRead
<1>2. CASE JobFull(s)
  BY <1>2, SMTT(30) DEF JobFull
<1>3. CASE JobNotFull(s)
  BY <1>3 DEF JobNotFull
<1>4. CASE JobMigrate(s)
  <2>1. jobPos[s] + 1 \in Position
    BY <1>4 DEF JobMigrate
  <2>2. tables' \subseteq Position
    BY <1>4, <2>1 DEF JobMigrate
  <2> QED
    BY <1>4, <2>2 DEF JobMigrate
<1>5. CASE JobSave(s)
  <2>1. jobPos[s] + 1 \in Position
    BY <1>5 DEF JobSave
  <2>2. pos' \in Position /\ pos' # 0
    BY <1>5, <2>1 DEF JobSave, Save
  <2>3. jobPos' \in [Server -> OrNone(Position)]
    BY <1>5 DEF JobSave
  <2>4. TypeOK'
    BY <1>5, <2>2, <2>3 DEF JobSave
  <2>5. Awake' /\ JobGoesOn'
    BY <1>5, <2>2 DEF JobSave
  <2> QED
    BY <2>4, <2>5
<1>6. CASE JobError(s)
  BY <1>6 DEF JobError
<1> QED
  BY <1>1, <1>2, <1>3, <1>4, <1>5, <1>6 DEF JobStep

LEMMA NextTyped == TypeInv /\ [Next]_vars => TypeInv'
<1> SUFFICES ASSUME TypeInv, [Next]_vars PROVE TypeInv'
  OBVIOUS
<1>1. ASSUME NEW s \in Server, Crash(s) PROVE TypeInv'
  BY <1>1, TablesAssumption
     DEF Crash, TypeInv, TypeOK, Awake, JobGoesOn, OrNone, Position, db
<1>2. CASE RedisLoss
  BY <1>2, TablesAssumption
     DEF RedisLoss, TypeInv, TypeOK, Awake, JobGoesOn, OrNone, Position, db
<1>3. CASE UNCHANGED vars
  BY <1>3 DEF vars, db, TypeInv, TypeOK, Awake, JobGoesOn
<1> QED
  BY <1>1, <1>2, <1>3, StartTyped, HookTyped, JobTyped DEF Next

-----------------------------------------------------------------------------
(* The tables that numbers name *)

\* A batch that carries an id was given a number that is known and not 0.
LEMMA InitKnown == Init => NumbersKnown /\ UsedTableExists
BY DEF Init, NumbersKnown, Known, UsedTableExists

LEMMA StartKnown ==
  ASSUME TypeInv, NumbersKnown, UsedTableExists, NEW s \in Server, StartStep(s)
  PROVE  NumbersKnown' /\ UsedTableExists'
<1> USE DEF TypeInv, TypeOK, Awake, NumbersKnown, Known, Made, UsedTableExists,
            StartGoes, db
<1>1. CASE StartFound(s)
  BY <1>1 DEF StartFound
<1>2. CASE StartNotFound(s)
  BY <1>2 DEF StartNotFound
<1>3. CASE StartInsert(s)
  BY <1>3 DEF StartInsert, RowMade
<1>4. CASE StartCreate(s)
  BY <1>4 DEF StartCreate, RowMade
<1>5. CASE StartCreateError(s)
  BY <1>5 DEF StartCreateError
<1>6. CASE StartCache(s)
  BY <1>6 DEF StartCache
<1>7. CASE StartMigrate(s)
  <2>1. Made' = Made \union {startPos[s]} /\ startPos[s] # 0
    BY <1>7 DEF StartMigrate
  <2>2. 1 \in Made'
    BY <2>1
  <2> QED
    BY <1>7, <2>1, <2>2 DEF StartMigrate
<1> QED
  BY <1>1, <1>2, <1>3, <1>4, <1>5, <1>6, <1>7 DEF StartStep

LEMMA HookKnown ==
  ASSUME TypeInv, NumbersKnown, UsedTableExists, NEW s \in Server,
         HookBegin(s) \/ HookStep(s)
  PROVE  NumbersKnown' /\ UsedTableExists'
<1> USE DEF TypeInv, TypeOK, Awake, NumbersKnown, Known, Made, UsedTableExists,
            HookGoes, db
<1>1. CASE HookBegin(s)
  BY <1>1 DEF HookBegin
<1>2. CASE HookHit(s)
  BY <1>2 DEF HookHit
<1>3. CASE HookMiss(s)
  BY <1>3 DEF HookMiss
<1>4. CASE HookQuery(s)
  BY <1>4 DEF HookQuery
<1>5. CASE HookQueryError(s)
  BY <1>5 DEF HookQueryError
<1>6. CASE HookSet(s)
  BY <1>6 DEF HookSet
<1>7. CASE Insert(s)
  BY <1>7 DEF Insert, SaveBatch
<1>8. CASE InsertError(s)
  BY <1>8 DEF InsertError
<1> QED
  BY <1>1, <1>2, <1>3, <1>4, <1>5, <1>6, <1>7, <1>8 DEF HookStep

LEMMA JobKnown ==
  ASSUME TypeInv, NumbersKnown, UsedTableExists, NEW s \in Server, JobStep(s)
  PROVE  NumbersKnown' /\ UsedTableExists'
<1> USE DEF TypeInv, TypeOK, Awake, NumbersKnown, Known, Made, UsedTableExists,
            JobGoes, Done, db
<1>1. CASE JobRead(s)
  BY <1>1 DEF JobRead
<1>2. CASE JobFull(s)
  BY <1>2 DEF JobFull
<1>3. CASE JobNotFull(s)
  BY <1>3 DEF JobNotFull
<1>4. CASE JobMigrate(s)
  BY <1>4 DEF JobMigrate
<1>5. CASE JobSave(s)
  BY <1>5 DEF JobSave, Save
<1>6. CASE JobError(s)
  BY <1>6 DEF JobError
<1> QED
  BY <1>1, <1>2, <1>3, <1>4, <1>5, <1>6 DEF JobStep

LEMMA NextKnown ==
  TypeInv /\ NumbersKnown /\ UsedTableExists /\ [Next]_vars
    => NumbersKnown' /\ UsedTableExists'
<1> SUFFICES ASSUME TypeInv, NumbersKnown, UsedTableExists, [Next]_vars
             PROVE  NumbersKnown' /\ UsedTableExists'
  OBVIOUS
<1> USE DEF NumbersKnown, Known, Made, UsedTableExists, db
<1>1. ASSUME NEW s \in Server, Crash(s) PROVE NumbersKnown' /\ UsedTableExists'
  BY <1>1 DEF Crash, TypeInv, TypeOK
<1>2. CASE RedisLoss
  BY <1>2 DEF RedisLoss
<1>3. CASE UNCHANGED vars
  BY <1>3 DEF vars
<1> QED
  BY <1>1, <1>2, <1>3, StartKnown, HookKnown, JobKnown DEF Next

-----------------------------------------------------------------------------
(* The order of the positions *)

LEMMA InitOrdered == Init => JobAlone /\ NotAhead
BY DEF Init, JobAlone, NotAhead

LEMMA StartOrdered ==
  ASSUME TypeInv, JobAlone, NotAhead, NEW s \in Server, StartStep(s)
  PROVE  JobAlone' /\ NotAhead' /\ pos <= pos'
<1> USE DEF TypeInv, TypeOK, Awake, OrNone, Position, JobAlone, NotAhead,
            StartGoes, db
<1>1. CASE StartFound(s)
  BY <1>1 DEF StartFound
<1>2. CASE StartNotFound(s)
  BY <1>2 DEF StartNotFound
<1>3. CASE StartInsert(s)
  BY <1>3 DEF StartInsert, RowMade
<1>4. CASE StartCreate(s)
  <2>1. pos <= pos' /\ 1 <= pos' /\ (pos # 0 => pos' = pos)
    BY <1>4 DEF StartCreate, RowMade
  <2>2. JobAlone'
    BY <1>4, <2>1 DEF StartCreate
  <2>3. NotAhead'
    BY <1>4, <2>1 DEF StartCreate
  <2> QED
    BY <2>1, <2>2, <2>3
<1>5. CASE StartCreateError(s)
  BY <1>5 DEF StartCreateError
<1>6. CASE StartCache(s)
  BY <1>6 DEF StartCache
<1>7. CASE StartMigrate(s)
  BY <1>7 DEF StartMigrate
<1> QED
  BY <1>1, <1>2, <1>3, <1>4, <1>5, <1>6, <1>7 DEF StartStep

LEMMA HookOrdered ==
  ASSUME TypeInv, JobAlone, NotAhead, NEW s \in Server,
         HookBegin(s) \/ HookStep(s)
  PROVE  JobAlone' /\ NotAhead' /\ pos <= pos'
<1> USE DEF TypeInv, TypeOK, OrNone, Position, JobAlone, NotAhead, HookGoes, db
<1>1. CASE HookBegin(s)
  BY <1>1 DEF HookBegin
<1>2. CASE HookHit(s)
  BY <1>2 DEF HookHit
<1>3. CASE HookMiss(s)
  BY <1>3 DEF HookMiss
<1>4. CASE HookQuery(s)
  BY <1>4 DEF HookQuery
<1>5. CASE HookQueryError(s)
  BY <1>5 DEF HookQueryError
<1>6. CASE HookSet(s)
  BY <1>6 DEF HookSet
<1>7. CASE Insert(s)
  BY <1>7 DEF Insert
<1>8. CASE InsertError(s)
  BY <1>8 DEF InsertError
<1> QED
  BY <1>1, <1>2, <1>3, <1>4, <1>5, <1>6, <1>7, <1>8 DEF HookStep

LEMMA JobOrdered ==
  ASSUME TypeInv, JobAlone, NotAhead, NEW s \in Server, JobStep(s)
  PROVE  JobAlone' /\ NotAhead' /\ NeverBack
<1> USE DEF TypeInv, TypeOK, Awake, OrNone, Position, JobAlone, NotAhead,
            NeverBack, JobGoes, Done, db
<1>1. CASE JobRead(s)
  <2>1. ~overlapped' => ~overlapped /\ \A r \in Server : job[r] = "off"
    BY <1>1 DEF JobRead
  <2>2. jobPos'[s] = pos /\ \A r \in Server \ {s} : job'[r] = job[r]
    BY <1>1 DEF JobRead
  <2>3. JobAlone'
    BY <1>1, <2>1, <2>2 DEF JobRead
  <2> QED
    BY <1>1, <2>3 DEF JobRead
<1>2. CASE JobFull(s)
  BY <1>2 DEF JobFull
<1>3. CASE JobNotFull(s)
  BY <1>3 DEF JobNotFull
<1>4. CASE JobMigrate(s)
  BY <1>4 DEF JobMigrate
<1>5. CASE JobSave(s)
  <2>1. ~overlapped => pos' = pos + 1
    BY <1>5 DEF JobSave, Save
  <2>2. ~overlapped => \A r \in Server : job'[r] = "off"
    BY <1>5 DEF JobSave
  <2>3. pos \in Int /\ pos' \in Int
    BY <1>5 DEF JobSave, Save
  <2>4. JobAlone'
    BY <1>5, <2>1, <2>2 DEF JobSave
  <2>5. NotAhead'
    BY <1>5, <2>1 DEF JobSave
  <2> QED
    BY <2>1, <2>3, <2>4, <2>5
<1>6. CASE JobError(s)
  BY <1>6 DEF JobError
<1> QED
  BY <1>1, <1>2, <1>3, <1>4, <1>5, <1>6 DEF JobStep

LEMMA NextOrdered ==
  TypeInv /\ JobAlone /\ NotAhead /\ [Next]_vars
    => JobAlone' /\ NotAhead' /\ NeverBack
<1> SUFFICES ASSUME TypeInv, JobAlone, NotAhead, [Next]_vars
             PROVE  JobAlone' /\ NotAhead' /\ NeverBack
  OBVIOUS
<1>1. ASSUME NEW s \in Server, StartStep(s) \/ HookBegin(s) \/ HookStep(s)
      PROVE  JobAlone' /\ NotAhead' /\ NeverBack
  <2>1. JobAlone' /\ NotAhead' /\ pos <= pos'
    BY <1>1, StartOrdered, HookOrdered
  <2>2. pos \in Int /\ pos' \in Int
    BY <1>1, NextTyped DEF Next, TypeInv, TypeOK, OrNone, Position
  <2> QED
    BY <2>1, <2>2 DEF NeverBack
<1>2. ASSUME NEW s \in Server, Crash(s)
      PROVE  JobAlone' /\ NotAhead' /\ NeverBack
  BY <1>2 DEF Crash, TypeInv, TypeOK, OrNone, Position, JobAlone, NotAhead,
              NeverBack, db
<1>3. CASE RedisLoss
  BY <1>3 DEF RedisLoss, TypeInv, TypeOK, OrNone, Position, JobAlone, NotAhead,
              NeverBack, db
<1>4. CASE UNCHANGED vars
  BY <1>4 DEF vars, db, TypeInv, TypeOK, OrNone, Position, JobAlone, NotAhead,
              NeverBack
<1> QED
  BY <1>1, <1>2, <1>3, <1>4, JobOrdered DEF Next

-----------------------------------------------------------------------------
(* The theorems *)

\* The inductive invariant.
THEOREM Invariance == Spec => []IInv
<1>1. Init => IInv
  BY InitTyped, InitKnown, InitOrdered DEF IInv
<1>2. IInv /\ [Next]_vars => IInv'
  BY NextTyped, NextKnown, NextOrdered DEF IInv
<1> QED
  BY <1>1, <1>2, PTL DEF Spec

\* Every state of the tables, of Redis and of the servers has its type: the
\* position stays within the tables there are (schedule_position.go l.52).
THEOREM TypeCorrect == Spec => []TypeOK
<1>1. IInv => TypeOK
  BY DEF IInv, TypeInv
<1> QED
  BY <1>1, Invariance, PTL

\* The table an id names exists, or its migration failed at a start-up
\* (logid.go l.66 against servicecontext.go l.202 and l.203).
THEOREM UsedExists == Spec => []UsedTableExists
<1>1. IInv => UsedTableExists
  BY DEF IInv
<1> QED
  BY <1>1, Invariance, PTL

\* Nobody has a position ahead of the row while the job runs on one server at
\* a time.
THEOREM NobodyAhead == Spec => []NotAhead
<1>1. IInv => NotAhead
  BY DEF IInv
<1> QED
  BY <1>1, Invariance, PTL

\* The position only moves forward while the job runs on one server at a time
\* (Save of a row read earlier, position.go l.38).
THEOREM Forward == Spec => PositionForward
<1>1. IInv /\ [Next]_vars => [NeverBack]_vars
  BY NextOrdered DEF IInv
<1> QED
  BY <1>1, Invariance, PTL DEF Spec, PositionForward
=============================================================================
