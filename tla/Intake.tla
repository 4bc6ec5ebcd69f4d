-------------------------------- MODULE Intake --------------------------------
(***************************************************************************)
(* The front half of a pipeline (pkg/pipeline/core.go): Push, Start, Close *)
(* and the processor goroutine that collects records into batches and      *)
(* hands them to flushBatch.  What flushBatch does with a batch is module  *)
(* Export; here it is a call that returns after a while, or panics in the  *)
(* log id hook (pkg/plugin/lifecycle/logid.go), which ends the process.    *)
(*                                                                         *)
(* One action is one step between two points where another goroutine may   *)
(* run.  Push is three steps (the unlocked IsBlocked check, RLock and the  *)
(* started check, the non-blocking send), Close is five.  The RWMutex is   *)
(* Go's: a writer that has announced itself stops new readers and waits    *)
(* for the present ones.                                                   *)
(*                                                                         *)
(* A record is accepted at most once: every caller pushes an object of its *)
(* own, and pushes it again only after an error.  Bounds: none besides the *)
(* finite Item of the instance.                                            *)
(***************************************************************************)
EXTENDS Integers, Sequences, FiniteSets, Functions

CONSTANTS
  Item,          \* records
  Pusher,        \* goroutines that call Push
  NoItem,        \* not a record: a goroutine with no Push under way
  Closer,        \* goroutines that call Close, once each
  BatchSize,     \* PiplineConfig.BatchSize
  QueueFactor,   \* 10 in New: the channel holds BatchSize * QueueFactor records
  HookAsserts    \* a hook takes batch[0] for an entity, as the log id hook does

ASSUME NoItemAssumption == NoItem \notin Item
ASSUME BatchSizeAssumption == BatchSize \in Nat \ {0}
ASSUME QueueFactorAssumption == QueueFactor \in Nat \ {0}
ASSUME HookAssumption == HookAsserts \in BOOLEAN

VARIABLES
  blocked,       \* state.IsBlocked(); set and reset by Export
  started,       \* Pipeline.started
  queue,         \* the channel's buffer
  closed,        \* close(queue) was called
  cancelled,     \* ctx is done
  batch,         \* processor's local batch, the records in it
  blanks,        \* nil elements of that batch, received from the closed channel
  proc,          \* where the processor is; panicked: the process is gone
  monitor,       \* where recoveryMonitor is
  push,          \* where each Push call is
  arg,           \* the record each Push call carries
  close,         \* where each Close call is
  accepted,      \* history: records Push returned nil for
  flushed,       \* history: records handed to flushBatch
  phantom        \* history: some batch handed over held a nil

ctl  == <<started, closed, cancelled, monitor>>
hist == <<accepted, flushed, phantom>>
vars == <<blocked, started, queue, closed, cancelled, batch, blanks, proc,
          monitor, push, arg, close, accepted, flushed, phantom>>
pushes == <<push, arg>>

QueueCap == BatchSize * QueueFactor

\* A Close call that has announced itself or holds the mutex.
Writing(c) == close[c] \in {"announced", "locked", "cancelled", "waiting"}
WriterHere == \E c \in Closer : Writing(c)
\* A Push call that holds the read lock.
ReaderHere == \E h \in Pusher : push[h] = "sending"
\* Number of elements of the processor's slice.
BatchLen == Len(batch) + blanks

\* The process runs.  The steps that could be taken without it ask for it;
\* all others need a lock or a goroutine that is gone with it.
Alive == proc # "panicked"

Init ==
  /\ blocked = FALSE
  /\ started = FALSE
  /\ queue = <<>>
  /\ closed = FALSE
  /\ cancelled = FALSE
  /\ batch = <<>>
  /\ blanks = 0
  /\ proc = "off"
  /\ monitor = "off"
  /\ push = [h \in Pusher |-> "idle"]
  /\ arg = [h \in Pusher |-> NoItem]
  /\ close = [c \in Closer |-> "idle"]
  /\ accepted = <<>>
  /\ flushed = <<>>
  /\ phantom = FALSE

-----------------------------------------------------------------------------
(* Push *)

PushReturns(h) ==
  /\ push' = [push EXCEPT ![h] = "idle"]
  /\ arg' = [arg EXCEPT ![h] = NoItem]

\* Not blocked: go on to take the read lock.  (Blocked: the call returns
\* ErrPipelineBlocked and nothing changes.)
PushCheck(h) ==
  /\ Alive
  /\ push[h] = "idle"
  /\ ~blocked
  /\ push' = [push EXCEPT ![h] = "checked"]
  /\ \E d \in Item \ (Range(accepted) \union Range(arg)) :
       arg' = [arg EXCEPT ![h] = d]
  /\ UNCHANGED <<blocked, ctl, queue, batch, blanks, proc, close, hist>>

\* RLock; started, so try to send.
PushLock(h) ==
  /\ push[h] = "checked"
  /\ ~WriterHere
  /\ started
  /\ push' = [push EXCEPT ![h] = "sending"]
  /\ UNCHANGED <<blocked, ctl, queue, batch, blanks, proc, arg, close, hist>>

\* RLock; not started: ErrPipelineNotStarted, RUnlock.
PushNotStarted(h) ==
  /\ Alive
  /\ push[h] = "checked"
  /\ ~WriterHere
  /\ ~started
  /\ PushReturns(h)
  /\ UNCHANGED <<blocked, ctl, queue, batch, blanks, proc, close, hist>>

\* The send succeeds; RUnlock.
PushSend(h) ==
  /\ push[h] = "sending"
  /\ Len(queue) < QueueCap
  /\ queue' = Append(queue, arg[h])
  /\ accepted' = Append(accepted, arg[h])
  /\ PushReturns(h)
  /\ UNCHANGED <<blocked, ctl, batch, blanks, proc, close, flushed, phantom>>

\* The channel is full: ErrQueueFull; RUnlock.
PushFull(h) ==
  /\ push[h] = "sending"
  /\ Len(queue) >= QueueCap
  /\ PushReturns(h)
  /\ UNCHANGED <<blocked, ctl, queue, batch, blanks, proc, close, hist>>

-----------------------------------------------------------------------------
(* Start and Close *)

\* The whole of Start under the mutex.  main starts a pipeline once.
Start ==
  /\ proc = "off"
  /\ ~WriterHere /\ ~ReaderHere
  /\ started' = TRUE
  /\ proc' = "select"
  /\ monitor' = "running"
  /\ UNCHANGED <<blocked, queue, closed, cancelled, batch, blanks, pushes,
                 close, hist>>

\* Lock announces a writer; only one writer can have done so.
CloseAnnounce(c) ==
  /\ close[c] = "idle"
  /\ ~WriterHere
  /\ close' = [close EXCEPT ![c] = "announced"]
  /\ UNCHANGED <<blocked, ctl, queue, batch, blanks, proc, pushes, hist>>

\* Mutant of CloseLock: it does not wait for the readers to leave.
CloseLockAtOnce(c) ==
  /\ close[c] = "announced"
  /\ close' = [close EXCEPT ![c] = IF started THEN "locked" ELSE "returned"]
  /\ started' = FALSE
  /\ UNCHANGED <<blocked, queue, closed, cancelled, batch, blanks, proc,
                 monitor, pushes, hist>>

\* The present readers have left: the mutex is held.  Not started: return.
CloseLock(c) ==
  /\ close[c] = "announced"
  /\ ~ReaderHere
  /\ close' = [close EXCEPT ![c] = IF started THEN "locked" ELSE "returned"]
  /\ started' = FALSE
  /\ UNCHANGED <<blocked, queue, closed, cancelled, batch, blanks, proc,
                 monitor, pushes, hist>>

CloseCancel(c) ==
  /\ close[c] = "locked"
  /\ cancelled' = TRUE
  /\ close' = [close EXCEPT ![c] = "cancelled"]
  /\ UNCHANGED <<blocked, started, queue, closed, batch, blanks, proc,
                 monitor, pushes, hist>>

\* Mutant of CloseQueue: the channel is not closed.
CloseLeavesQueueOpen(c) ==
  /\ close[c] = "cancelled"
  /\ close' = [close EXCEPT ![c] = "waiting"]
  /\ UNCHANGED <<blocked, ctl, queue, batch, blanks, proc, pushes, hist>>

CloseQueue(c) ==
  /\ close[c] = "cancelled"
  /\ closed' = TRUE
  /\ close' = [close EXCEPT ![c] = "waiting"]
  /\ UNCHANGED <<blocked, started, queue, cancelled, batch, blanks, proc,
                 monitor, pushes, hist>>

\* wg.Wait returns; localStore.Close; Unlock.
CloseReturn(c) ==
  /\ close[c] = "waiting"
  /\ proc = "done" /\ monitor = "stopped"
  /\ close' = [close EXCEPT ![c] = "returned"]
  /\ UNCHANGED <<blocked, ctl, queue, batch, blanks, proc, pushes, hist>>

-----------------------------------------------------------------------------
(* processor: the select has no priorities, every ready case can be taken *)

\* Mutant of Recv: > for >= in the test for a full batch.
RecvOneMore ==
  /\ proc = "select"
  /\ queue # <<>>
  /\ batch' = Append(batch, Head(queue))
  /\ queue' = Tail(queue)
  /\ proc' = IF BatchLen + 1 > BatchSize THEN "flush" ELSE "select"
  /\ UNCHANGED <<blocked, ctl, blanks, pushes, close, hist>>

Recv ==
  /\ proc = "select"
  /\ queue # <<>>
  /\ batch' = Append(batch, Head(queue))
  /\ queue' = Tail(queue)
  /\ proc' = IF BatchLen + 1 >= BatchSize THEN "flush" ELSE "select"
  /\ UNCHANGED <<blocked, ctl, blanks, pushes, close, hist>>

\* Mutant of RecvNil: the nil passes for a record.
RecvNilAsRecord ==
  /\ proc = "select"
  /\ queue = <<>> /\ closed
  /\ batch' = Append(batch, NoItem)
  /\ proc' = IF BatchLen + 1 >= BatchSize THEN "flush" ELSE "select"
  /\ UNCHANGED <<blocked, ctl, queue, blanks, pushes, close, hist>>

\* A receive from the closed, empty channel yields nil at once, and nil is
\* appended like any record.
RecvNil ==
  /\ proc = "select"
  /\ queue = <<>> /\ closed
  /\ blanks' = blanks + 1
  /\ proc' = IF BatchLen + 1 >= BatchSize THEN "flush" ELSE "select"
  /\ UNCHANGED <<blocked, ctl, queue, batch, pushes, close, hist>>

\* Mutant of TimerFire: it flushes full batches only.
TimerFireIfFull ==
  /\ proc = "select"
  /\ BatchLen >= BatchSize
  /\ proc' = "flush"
  /\ UNCHANGED <<blocked, ctl, queue, batch, blanks, pushes, close, hist>>

\* The timer case with something to flush (with an empty batch it only
\* resets the timer).  The timer is armed whenever the processor selects.
TimerFire ==
  /\ proc = "select"
  /\ BatchLen > 0
  /\ proc' = "flush"
  /\ UNCHANGED <<blocked, ctl, queue, batch, blanks, pushes, close, hist>>

\* flushBatch calls the hook unless the pipeline is blocked, and the first
\* element is nil: no record can follow a nil in a batch, since the channel
\* is closed and empty by then.
HookPanics == HookAsserts /\ ~blocked /\ batch = <<>> /\ blanks > 0

\* The type assertion of BeforeExport on batch[0] panics, and nothing
\* recovers: the process dies, the Close call with it.
FlushPanics ==
  /\ proc \in {"flush", "lastflush"}
  /\ HookPanics
  /\ proc' = "panicked"
  /\ UNCHANGED <<blocked, ctl, queue, batch, blanks, pushes, close, hist>>

\* Mutant of FlushBatch: the slice keeps its records.
FlushKeepsBatch ==
  /\ proc = "flush"
  /\ ~HookPanics
  /\ flushed' = flushed \o batch
  /\ phantom' = (phantom \/ blanks > 0)
  /\ proc' = "select"
  /\ UNCHANGED <<blocked, ctl, queue, batch, blanks, pushes, close, accepted>>

\* flushBatch returns, and the slice is emptied.
FlushBatch ==
  /\ proc = "flush"
  /\ ~HookPanics
  /\ flushed' = flushed \o batch
  /\ phantom' = (phantom \/ blanks > 0)
  /\ batch' = <<>>
  /\ blanks' = 0
  /\ proc' = "select"
  /\ UNCHANGED <<blocked, ctl, queue, pushes, close, accepted>>

\* Mutant of CtxDone: the processor returns without draining the channel.
CtxDoneReturns ==
  /\ proc = "select"
  /\ cancelled
  /\ proc' = "done"
  /\ UNCHANGED <<blocked, ctl, queue, batch, blanks, pushes, close, hist>>

CtxDone ==
  /\ proc = "select"
  /\ cancelled
  /\ proc' = "drain"
  /\ UNCHANGED <<blocked, ctl, queue, batch, blanks, pushes, close, hist>>

\* for data := range queue: blocks on an empty channel until it is closed.
DrainRecv ==
  /\ proc = "drain"
  /\ queue # <<>>
  /\ batch' = Append(batch, Head(queue))
  /\ queue' = Tail(queue)
  /\ UNCHANGED <<blocked, ctl, blanks, proc, pushes, close, hist>>

\* Mutant of DrainEnd: a last batch short of BatchSize is dropped.
DrainEndDropsShort ==
  /\ proc = "drain"
  /\ queue = <<>> /\ closed
  /\ proc' = IF BatchLen >= BatchSize THEN "lastflush" ELSE "done"
  /\ UNCHANGED <<blocked, ctl, queue, batch, blanks, pushes, close, hist>>

DrainEnd ==
  /\ proc = "drain"
  /\ queue = <<>> /\ closed
  /\ proc' = IF BatchLen > 0 THEN "lastflush" ELSE "done"
  /\ UNCHANGED <<blocked, ctl, queue, batch, blanks, pushes, close, hist>>

\* The last flushBatch returns, and so does the processor.
LastFlush ==
  /\ proc = "lastflush"
  /\ ~HookPanics
  /\ flushed' = flushed \o batch
  /\ phantom' = (phantom \/ blanks > 0)
  /\ batch' = <<>>
  /\ blanks' = 0
  /\ proc' = "done"
  /\ UNCHANGED <<blocked, ctl, queue, pushes, close, accepted>>

\* recoveryMonitor takes its ctx.Done case.
MonitorExit ==
  /\ Alive
  /\ monitor = "running"
  /\ cancelled
  /\ monitor' = "stopped"
  /\ UNCHANGED <<blocked, started, queue, closed, cancelled, batch, blanks,
                 proc, pushes, close, hist>>

\* The status word changes between Blocked and another value.  It is written
\* by an exporter goroutine of flushBatch (which only runs while processor is
\* in the call) or by recoveryMonitor; Export says when.
StatusChange ==
  /\ Alive
  /\ proc \in {"flush", "lastflush"} \/ monitor = "running"
  /\ blocked' = ~blocked
  /\ UNCHANGED <<ctl, queue, batch, blanks, proc, pushes, close, hist>>

-----------------------------------------------------------------------------
PushStep(h) == \/ PushCheck(h) \/ PushLock(h) \/ PushNotStarted(h)
               \/ PushSend(h) \/ PushFull(h)

CloseStep(c) == \/ CloseAnnounce(c) \/ CloseLock(c) \/ CloseCancel(c)
                \/ CloseQueue(c) \/ CloseReturn(c)

ProcStep == \/ Recv \/ RecvNil \/ TimerFire \/ FlushBatch \/ FlushPanics
            \/ CtxDone \/ DrainRecv \/ DrainEnd \/ LastFlush

Next ==
  \/ \E h \in Pusher : PushStep(h)
  \/ Start
  \/ \E c \in Closer : CloseStep(c)
  \/ ProcStep
  \/ MonitorExit
  \/ StatusChange

Spec == Init /\ [][Next]_vars

(***************************************************************************)
(* Every goroutine that can run does; a select that is reached again and   *)
(* again takes each case that is ready again and again (Go chooses among   *)
(* the ready cases at random), so its cases are strongly fair.  Nobody is  *)
(* obliged to call Push, Start or Close.  That FlushBatch is fair assumes  *)
(* that hooks and exporters return, or panic.                              *)
(***************************************************************************)
PushFairness(h) == WF_vars(PushLock(h) \/ PushNotStarted(h) \/ PushSend(h)
                           \/ PushFull(h))
CloseFairness(c) == WF_vars(CloseLock(c) \/ CloseCancel(c) \/ CloseQueue(c)
                            \/ CloseReturn(c))
SelectFairness == /\ SF_vars(Recv)
                  /\ SF_vars(TimerFire)
                  /\ SF_vars(CtxDone)
                  /\ WF_vars(FlushBatch \/ FlushPanics \/ DrainRecv \/ DrainEnd
                             \/ LastFlush)

FairSpec ==
  /\ Spec
  /\ \A h \in Pusher : PushFairness(h)
  /\ \A c \in Closer : CloseFairness(c)
  /\ SelectFairness
  /\ WF_vars(MonitorExit)

-----------------------------------------------------------------------------
TypeOK ==
  /\ blocked \in BOOLEAN
  /\ started \in BOOLEAN
  /\ queue \in Seq(Item)
  /\ closed \in BOOLEAN
  /\ cancelled \in BOOLEAN
  /\ batch \in Seq(Item)
  /\ blanks \in Nat
  /\ proc \in {"off", "select", "flush", "drain", "lastflush", "done",
              "panicked"}
  /\ monitor \in {"off", "running", "stopped"}
  /\ push \in [Pusher -> {"idle", "checked", "sending"}]
  /\ arg \in [Pusher -> Item \union {NoItem}]
  /\ close \in [Closer -> {"idle", "announced", "locked", "cancelled",
                           "waiting", "returned"}]
  /\ accepted \in Seq(Item)
  /\ flushed \in Seq(Item)
  /\ phantom \in BOOLEAN

\* No Push call is between its started check and its send once Close has
\* closed the channel: the send would panic.  (Push l.95-101 against Close
\* l.292-300: only the mutex prevents it.)
NoSendOnClosed == closed => ~ReaderHere

\* Every record Push accepted is in exactly one place, and the order of
\* acceptance is kept: handed over, in the processor's batch, or queued.
\* (The two receive paths of processor, and its reuse of batch[:0].)
HandoffExact == accepted = flushed \o batch \o queue

\* When the processor has returned, it has handed over all that was ever
\* accepted and nothing can still be accepted; so when the Close call that
\* stopped the pipeline has returned, no record is left behind.  ("Close
\* waits until all data is processed", core.go l.290.)  A panic of the log
\* id hook on a nil is no different: it comes after all records.
DrainedOnExit ==
  proc \in {"done", "panicked"} => /\ flushed = accepted
                                  /\ ~started
                                  /\ ~ReaderHere

\* A batch handed over while the pipeline is open has at most BatchSize
\* elements; the one handed over at exit at most one short of a batch plus a
\* full channel.  (The >= test of processor, and the unbounded drain loop.)
BatchBound ==
  /\ proc \in {"select", "flush"} => BatchLen <= BatchSize
  /\ proc = "select" => BatchLen < BatchSize
  /\ BatchLen <= BatchSize - 1 + QueueCap
  /\ Len(queue) <= QueueCap

\* Intake implements Handoff: a pipeline has finished when its processor
\* has returned.
Promise == INSTANCE Handoff WITH finished <- (proc = "done")
ImplementsHandoff == Promise!Spec

\* A record whose Push succeeded is handed over sooner or later, whether or
\* not the pipeline is closed meanwhile.
AcceptedIsFlushed ==
  \A d \in Item : d \in Range(accepted) ~> d \in Range(flushed)

\* A Close call that has asked for the mutex returns: "waits until all data
\* is processed" (core.go l.290); unless the log id hook has ended the process
\* on a nil (by then all data was handed over, see DrainedOnExit).
CloseTerminates ==
  \A c \in Closer :
    close[c] = "announced" ~> close[c] = "returned" \/ proc = "panicked"

\* What pipeline_test.go l.108 asserts after Close: the exporter has counted
\* exactly as many elements as Push accepted.
NothingButAccepted == proc = "done" => ~phantom
=============================================================================
