----------------------------- MODULE IntakeProof -----------------------------
(***************************************************************************)
(* Theorems about Intake, for every set of records, callers and closers,   *)
(* every batch size and every channel capacity.                            *)
(*                                                                         *)
(* The argument: the mutex protocol (Protocol) gives that a channel that   *)
(* is closed has no sender and that the processor leaves its select only   *)
(* after the pipeline stopped accepting; with it the position of every     *)
(* accepted record (HandoffExact) survives each step, and what the         *)
(* processor leaves behind when it returns is empty.                       *)
(***************************************************************************)
EXTENDS Intake, SequenceTheorems, TLAPS

\* A queue is its head before its tail.
LEMMA HeadFirst ==
  ASSUME NEW S, NEW q \in Seq(S), q # <<>>,
         NEW d \in S, NEW t \in Seq(S), d = Head(q), t = Tail(q)
  PROVE  q = <<d>> \o t
<1>1. <<d>> \in Seq(S) /\ Len(<<d>>) = 1 /\ <<d>>[1] = d
  BY EmptySeq
<1>2. /\ Len(t) = Len(q) - 1
      /\ \A i \in 1 .. Len(t) : t[i] = q[i + 1]
  BY HeadTailProperties
<1>3. /\ <<d>> \o t \in Seq(S)
      /\ Len(<<d>> \o t) = Len(q)
      /\ \A i \in 1 .. Len(q) :
           (<<d>> \o t)[i] = IF i <= 1 THEN d ELSE t[i - 1]
  BY <1>1, <1>2, ConcatProperties, LenProperties
<1>4. \A i \in 1 .. Len(q) : q[i] = (<<d>> \o t)[i]
  BY <1>2, <1>3, LenProperties
<1> QED  BY <1>3, <1>4, SeqEqual

\* An element moved from the head of a queue to the end of a batch keeps
\* its place in "handed over, then batched, then queued".
LEMMA MoveHead ==
  ASSUME NEW f \in Seq(Item), NEW b \in Seq(Item), NEW d \in Item,
         NEW t \in Seq(Item)
  PROVE  f \o Append(b, d) \o t = f \o b \o (<<d>> \o t)
<1>1. /\ <<d>> \in Seq(Item)
      /\ f \o b \in Seq(Item) /\ b \o <<d>> \in Seq(Item)
  BY EmptySeq, ConcatProperties
<1>2. Append(b, d) = b \o <<d>>
  BY AppendIsConcat
<1>3. f \o (b \o <<d>>) = (f \o b) \o <<d>>
  BY <1>1, ConcatAssociative
<1>4. ((f \o b) \o <<d>>) \o t = (f \o b) \o (<<d>> \o t)
  BY <1>1, ConcatAssociative
<1> QED  BY <1>2, <1>3, <1>4

\* An element appended to the last of three sequences is appended to their
\* concatenation.
LEMMA AppendLast ==
  ASSUME NEW f \in Seq(Item), NEW b \in Seq(Item), NEW q \in Seq(Item),
         NEW d \in Item
  PROVE  f \o b \o Append(q, d) = Append(f \o b \o q, d)
<1>1. /\ f \o b \in Seq(Item) /\ f \o b \o q \in Seq(Item)
      /\ <<d>> \in Seq(Item)
  BY ConcatProperties
<1>2. Append(q, d) = q \o <<d>> /\ Append(f \o b \o q, d) = f \o b \o q \o <<d>>
  BY <1>1, AppendIsConcat
<1> QED  BY <1>1, <1>2, ConcatAssociative

-----------------------------------------------------------------------------
(* The inductive invariant *)

\* A Push call that is under way carries a record.
ArgTyped == \A h \in Pusher : push[h] # "idle" => arg[h] \in Item

\* The mutex protocol between Push, Start, Close and the processor.
Protocol ==
  /\ \A h \in Pusher : push[h] = "sending" => started
  /\ \A c \in Closer :
       /\ close[c] \in {"locked", "cancelled", "waiting"}
            => ~started /\ proc # "off"
       /\ close[c] \in {"cancelled", "waiting"} => cancelled
  /\ started => proc \in {"select", "flush"}
  /\ cancelled => ~started /\ proc # "off"
  /\ closed => cancelled

\* What the processor knows when it drains and when it returns, or panics: a
\* batch with a nil is filled after the channel was closed and emptied.
Draining ==
  /\ blanks > 0 => closed /\ queue = <<>>
  /\ proc \in {"drain", "lastflush", "done", "panicked"} => cancelled
  /\ proc \in {"lastflush", "done", "panicked"} => queue = <<>>
  /\ proc \in {"done", "panicked"} => batch = <<>>

IInv == TypeOK /\ ArgTyped /\ Protocol /\ Draining /\ HandoffExact

USE BatchSizeAssumption, QueueFactorAssumption

LEMMA InitInv == Init => IInv
<1> SUFFICES ASSUME Init PROVE IInv
  OBVIOUS
<1>1. <<>> \in Seq(Item) /\ <<>> \o <<>> \o <<>> = <<>>
  BY EmptySeq, ConcatEmptySeq
<1>2. TypeOK
  BY <1>1 DEF Init, TypeOK
<1>3. ArgTyped /\ Protocol
  BY DEF Init, ArgTyped, Protocol
<1>4. Draining /\ HandoffExact
  BY <1>1 DEF Init, Draining, HandoffExact
<1> QED
  BY <1>2, <1>3, <1>4 DEF IInv

\* Types.
LEMMA TypeStep ==
  ASSUME IInv, Next
  PROVE  TypeOK' /\ ArgTyped'
<1> USE DEF IInv, TypeOK, ArgTyped
<1>1. CASE \E h \in Pusher : PushStep(h)
  <2> PICK h \in Pusher : PushStep(h)
    BY <1>1
  <2>1. CASE PushCheck(h)
    BY <2>1 DEF PushCheck, ctl, hist
  <2>2. CASE PushLock(h)
    BY <2>2 DEF PushLock, ctl, hist
  <2>3. CASE PushNotStarted(h)
    BY <2>3 DEF PushNotStarted, PushReturns, ctl, hist
  <2>4. CASE PushSend(h)
    <3>1. arg[h] \in Item
      BY <2>4 DEF PushSend
    <3>2. queue' \in Seq(Item) /\ accepted' \in Seq(Item)
      BY <2>4, <3>1, AppendProperties DEF PushSend
    <3> QED  BY <2>4, <3>2 DEF PushSend, PushReturns, ctl
  <2>5. CASE PushFull(h)
    BY <2>5 DEF PushFull, PushReturns, ctl, hist
  <2> QED  BY <2>1, <2>2, <2>3, <2>4, <2>5 DEF PushStep
<1>2. CASE Start
  BY <1>2 DEF Start, pushes, hist
<1>3. CASE \E c \in Closer : CloseStep(c)
  <2> PICK c \in Closer : CloseStep(c)
    BY <1>3
  <2>1. CASE CloseAnnounce(c)
    BY <2>1 DEF CloseAnnounce, pushes, ctl, hist
  <2>2. CASE CloseLock(c)
    BY <2>2 DEF CloseLock, pushes, hist
  <2>3. CASE CloseCancel(c)
    BY <2>3 DEF CloseCancel, pushes, hist
  <2>4. CASE CloseQueue(c)
    BY <2>4 DEF CloseQueue, pushes, hist
  <2>5. CASE CloseReturn(c)
    BY <2>5 DEF CloseReturn, pushes, ctl, hist
  <2> QED  BY <2>1, <2>2, <2>3, <2>4, <2>5 DEF CloseStep
<1>4. CASE ProcStep
  <2>1. CASE Recv \/ DrainRecv
    <3>1. Head(queue) \in Item /\ Tail(queue) \in Seq(Item)
      BY <2>1, HeadTailProperties DEF Recv, DrainRecv
    <3>2. Append(batch, Head(queue)) \in Seq(Item)
      BY <3>1, AppendProperties
    <3> QED  BY <2>1, <3>1, <3>2 DEF Recv, DrainRecv, pushes, ctl, hist
  <2>2. CASE FlushBatch \/ LastFlush
    <3>1. flushed \o batch \in Seq(Item) /\ <<>> \in Seq(Item)
      BY ConcatProperties, EmptySeq
    <3>2. phantom' \in BOOLEAN
      BY <2>2 DEF FlushBatch, LastFlush
    <3>3. CASE FlushBatch
      BY <3>1, <3>2, <3>3 DEF FlushBatch, pushes, ctl
    <3>4. CASE LastFlush
      BY <3>1, <3>2, <3>4 DEF LastFlush, pushes, ctl
    <3> QED  BY <2>2, <3>3, <3>4
  <2>3. CASE RecvNil \/ TimerFire \/ CtxDone \/ DrainEnd \/ FlushPanics
    BY <2>3 DEF RecvNil, TimerFire, CtxDone, DrainEnd, FlushPanics, pushes,
                ctl, hist
  <2> QED  BY <1>4, <2>1, <2>2, <2>3 DEF ProcStep
<1>5. CASE MonitorExit
  BY <1>5 DEF MonitorExit, pushes, hist
<1>6. CASE StatusChange
  BY <1>6 DEF StatusChange, pushes, ctl, hist
<1> QED  BY <1>1, <1>2, <1>3, <1>4, <1>5, <1>6 DEF Next

\* The mutex protocol.  The interesting steps are the ones that pass the
\* mutex: PushLock sees no writer, CloseLock and Start see no reader.
LEMMA ProtocolStep ==
  ASSUME IInv, Next
  PROVE  Protocol'
<1> USE DEF IInv, TypeOK, Protocol
<1>1. CASE \E h \in Pusher : PushStep(h)
  BY <1>1 DEF PushStep, PushCheck, PushLock, PushNotStarted, PushSend,
              PushFull, PushReturns, ctl, hist
<1>2. CASE Start
  <2>1. \A c \in Closer : close[c] \notin {"locked", "cancelled", "waiting"}
    BY <1>2 DEF Start, WriterHere, Writing
  <2> QED  BY <1>2, <2>1 DEF Start, pushes
<1>3. CASE \E c \in Closer : CloseStep(c)
  <2> PICK c \in Closer : CloseStep(c)
    BY <1>3
  <2>1. CASE CloseAnnounce(c)
    BY <2>1 DEF CloseAnnounce, pushes, ctl
  <2>2. CASE CloseLock(c)
    BY <2>2 DEF CloseLock, ReaderHere, pushes
  <2>3. CASE CloseCancel(c)
    BY <2>3 DEF CloseCancel, pushes
  <2>4. CASE CloseQueue(c)
    BY <2>4 DEF CloseQueue, pushes
  <2>5. CASE CloseReturn(c)
    BY <2>5 DEF CloseReturn, pushes, ctl
  <2> QED  BY <2>1, <2>2, <2>3, <2>4, <2>5 DEF CloseStep
<1>4. CASE ProcStep
  <2>1. CASE FlushPanics
    <3>1. ~started
      BY <2>1 DEF FlushPanics, HookPanics, Draining
    <3> QED  BY <2>1, <3>1 DEF FlushPanics, pushes, ctl
  <2>2. CASE ProcStep /\ ~FlushPanics
    BY <2>2 DEF ProcStep, Recv, RecvNil, TimerFire, FlushBatch, CtxDone,
                DrainRecv, DrainEnd, LastFlush, pushes, ctl
  <2> QED  BY <1>4, <2>1, <2>2
<1>5. CASE MonitorExit
  BY <1>5 DEF MonitorExit, pushes
<1>6. CASE StatusChange
  BY <1>6 DEF StatusChange, pushes, ctl
<1> QED  BY <1>1, <1>2, <1>3, <1>4, <1>5, <1>6 DEF Next

\* The processor's exit: a send would need started, which cancelled excludes.
LEMMA DrainingStep ==
  ASSUME IInv, Next
  PROVE  Draining'
<1> USE DEF IInv, TypeOK, Protocol, Draining
<1>1. CASE \E h \in Pusher : PushStep(h)
  BY <1>1 DEF PushStep, PushCheck, PushLock, PushNotStarted, PushSend,
              PushFull, ctl
<1>2. CASE Start
  BY <1>2 DEF Start
<1>3. CASE \E c \in Closer : CloseStep(c)
  BY <1>3 DEF CloseStep, CloseAnnounce, CloseLock, CloseCancel, CloseQueue,
              CloseReturn, ctl
<1>4. CASE ProcStep
  <2>1. batch \in Seq(Item) /\ Len(batch) \in Nat
    BY LenProperties
  <2>2. CASE DrainEnd
    <3>1. BatchLen = 0 => Len(batch) = 0
      BY <2>1 DEF BatchLen
    <3>2. Len(batch) = 0 => batch = <<>>
      BY <2>1, EmptySeq
    <3> QED  BY <2>1, <2>2, <3>1, <3>2 DEF DrainEnd, BatchLen, ctl
  <2>3. CASE Recv \/ RecvNil \/ TimerFire \/ FlushBatch \/ FlushPanics
             \/ CtxDone \/ DrainRecv \/ LastFlush
    BY <2>3 DEF Recv, RecvNil, TimerFire, FlushBatch, FlushPanics, HookPanics,
                CtxDone, DrainRecv, LastFlush, ctl
  <2> QED  BY <1>4, <2>2, <2>3 DEF ProcStep
<1>5. CASE MonitorExit
  BY <1>5 DEF MonitorExit
<1>6. CASE StatusChange
  BY <1>6 DEF StatusChange, ctl
<1> QED  BY <1>1, <1>2, <1>3, <1>4, <1>5, <1>6 DEF Next

\* Where every accepted record is.
LEMMA HandoffStep ==
  ASSUME IInv, Next
  PROVE  HandoffExact'
<1> USE DEF IInv, TypeOK, HandoffExact
<1>1. CASE \E h \in Pusher : PushStep(h)
  <2> PICK h \in Pusher : PushStep(h)
    BY <1>1
  <2>1. CASE PushSend(h)
    <3>1. arg[h] \in Item
      BY <2>1 DEF PushSend, ArgTyped
    <3>2. flushed \o batch \o Append(queue, arg[h]) = Append(accepted, arg[h])
      BY <3>1, AppendLast
    <3> QED  BY <2>1, <3>2 DEF PushSend
  <2>2. CASE PushCheck(h) \/ PushLock(h) \/ PushNotStarted(h) \/ PushFull(h)
    BY <2>2 DEF PushCheck, PushLock, PushNotStarted, PushFull, hist
  <2> QED  BY <2>1, <2>2 DEF PushStep
<1>2. CASE Start
  BY <1>2 DEF Start, hist
<1>3. CASE \E c \in Closer : CloseStep(c)
  BY <1>3 DEF CloseStep, CloseAnnounce, CloseLock, CloseCancel, CloseQueue,
              CloseReturn, hist
<1>4. CASE ProcStep
  <2>1. CASE Recv \/ DrainRecv
    <3>1. queue # <<>> /\ queue' = Tail(queue)
          /\ batch' = Append(batch, Head(queue))
      BY <2>1 DEF Recv, DrainRecv
    <3>2. /\ Head(queue) \in Item /\ queue' \in Seq(Item)
          /\ flushed \in Seq(Item) /\ batch \in Seq(Item)
      BY <3>1, HeadTailProperties
    <3>3. queue = <<Head(queue)>> \o queue'
      BY <3>1, <3>2, HeadFirst
    <3>4. flushed \o Append(batch, Head(queue)) \o queue'
            = flushed \o batch \o (<<Head(queue)>> \o queue')
      BY ONLY <3>2, MoveHead
    <3>5. flushed \o batch' \o queue' = flushed \o batch \o queue
      BY <3>1, <3>3, <3>4
    <3> QED  BY <2>1, <3>5 DEF Recv, DrainRecv, hist
  <2>2. CASE FlushBatch \/ LastFlush
    <3>1. (flushed \o batch) \o <<>> = flushed \o batch
      BY ConcatProperties, ConcatEmptySeq
    <3> QED  BY <2>2, <3>1 DEF FlushBatch, LastFlush
  <2>3. CASE RecvNil \/ TimerFire \/ CtxDone \/ DrainEnd \/ FlushPanics
    BY <2>3 DEF RecvNil, TimerFire, CtxDone, DrainEnd, FlushPanics, hist
  <2> QED  BY <1>4, <2>1, <2>2, <2>3 DEF ProcStep
<1>5. CASE MonitorExit
  BY <1>5 DEF MonitorExit, hist
<1>6. CASE StatusChange
  BY <1>6 DEF StatusChange, hist
<1> QED  BY <1>1, <1>2, <1>3, <1>4, <1>5, <1>6 DEF Next

\* IInv is an invariant of the specification.
THEOREM Invariance == Spec => []IInv
<1>1. IInv /\ [Next]_vars => IInv'
  <2> SUFFICES ASSUME IInv, [Next]_vars PROVE IInv'
    OBVIOUS
  <2>1. CASE Next
    BY <2>1, TypeStep, ProtocolStep, DrainingStep, HandoffStep DEF IInv
  <2>2. CASE UNCHANGED vars
    BY <2>2 DEF vars, IInv, TypeOK, ArgTyped, Protocol, Draining, HandoffExact
  <2> QED  BY <2>1, <2>2
<1> QED  BY InitInv, <1>1, PTL DEF Spec

\* Every variable keeps its type (TypeOK), for every instance.
THEOREM TypeCorrect == Spec => []TypeOK
<1>1. IInv => TypeOK
  BY DEF IInv
<1> QED  BY Invariance, <1>1, PTL

\* No Push call can send on the channel Close has closed.
THEOREM SendSafe == Spec => []NoSendOnClosed
<1>1. IInv => NoSendOnClosed
  BY DEF IInv, Protocol, NoSendOnClosed, ReaderHere
<1> QED  BY Invariance, <1>1, PTL

\* Every accepted record is in exactly one place, in order.
THEOREM Conservation == Spec => []HandoffExact
<1>1. IInv => HandoffExact
  BY DEF IInv
<1> QED  BY Invariance, <1>1, PTL

\* A processor that has returned, or died of a nil at the head of a batch,
\* has handed over everything ever accepted.
THEOREM Drained == Spec => []DrainedOnExit
<1>1. IInv => DrainedOnExit
  <2> SUFFICES ASSUME IInv, proc \in {"done", "panicked"}
               PROVE flushed = accepted /\ ~started /\ ~ReaderHere
    BY DEF DrainedOnExit
  <2>1. queue = <<>> /\ batch = <<>> /\ cancelled
    BY DEF IInv, Draining
  <2>2. flushed \in Seq(Item) /\ accepted = flushed \o <<>> \o <<>>
    BY <2>1 DEF IInv, TypeOK, HandoffExact
  <2>3. flushed = accepted
    BY <2>2, ConcatEmptySeq
  <2> QED  BY <2>1, <2>3 DEF IInv, Protocol, ReaderHere
<1> QED  BY Invariance, <1>1, PTL

-----------------------------------------------------------------------------
(* Bounds *)

\* How long the processor's slice can be, where it is.
Bounded ==
  /\ Len(queue) <= QueueCap
  /\ proc \in {"off", "done"} => BatchLen = 0
  /\ proc = "select" => BatchLen < BatchSize
  /\ proc = "flush" => BatchLen <= BatchSize
  /\ proc = "drain" => BatchLen + Len(queue) <= BatchSize - 1 + QueueCap
  /\ proc \in {"lastflush", "panicked"} => BatchLen <= BatchSize - 1 + QueueCap

\* The channel has room for a record.
LEMMA CapPositive == QueueCap \in Nat /\ QueueCap >= 1
<1>1. BatchSize * QueueFactor \in Nat /\ BatchSize * QueueFactor >= 1
  OBVIOUS
<1> QED  BY <1>1 DEF QueueCap

\* What each way of moving a record does to the lengths.
LEMMA Lengths ==
  ASSUME IInv
  PROVE  /\ Len(queue) \in Nat /\ Len(batch) \in Nat /\ blanks \in Nat
         /\ \A d \in Item : /\ Len(Append(queue, d)) = Len(queue) + 1
                            /\ Len(Append(batch, d)) = Len(batch) + 1
         /\ queue # <<>> => /\ Len(Tail(queue)) = Len(queue) - 1
                            /\ Len(queue) >= 1
                            /\ Head(queue) \in Item
         /\ Len(<<>>) = 0
  BY AppendProperties, HeadTailProperties, LenProperties, EmptySeq
     DEF IInv, TypeOK

\* The bounds survive every step.  Nothing is sent while the processor
\* drains, because it drains only after the pipeline stopped accepting.
LEMMA BoundedStep ==
  ASSUME IInv, Bounded, Next
  PROVE  Bounded'
<1>1. CASE \E h \in Pusher : PushStep(h)
  <2> PICK h \in Pusher : PushStep(h)
    BY <1>1
  <2>1. CASE PushSend(h)
    <3>1. arg[h] \in Item /\ proc \in {"select", "flush"}
      BY <2>1 DEF PushSend, IInv, ArgTyped, Protocol
    <3>2. Len(queue') <= QueueCap
      BY <2>1, <3>1, Lengths, CapPositive DEF PushSend
    <3> QED  BY <2>1, <3>1, <3>2 DEF PushSend, Bounded, BatchLen
  <2>2. CASE PushCheck(h) \/ PushLock(h) \/ PushNotStarted(h) \/ PushFull(h)
    BY <2>2 DEF PushCheck, PushLock, PushNotStarted, PushFull, Bounded,
                BatchLen
  <2> QED  BY <2>1, <2>2 DEF PushStep
<1>2. CASE Start
  BY <1>2 DEF Start, Bounded, BatchLen
<1>3. CASE \E c \in Closer : CloseStep(c)
  BY <1>3 DEF CloseStep, CloseAnnounce, CloseLock, CloseCancel, CloseQueue,
              CloseReturn, Bounded, BatchLen
<1>4. CASE ProcStep
  <2>1. CASE Recv
    BY <2>1, Lengths, CapPositive DEF Recv, Bounded, BatchLen
  <2>2. CASE RecvNil
    BY <2>2, Lengths, CapPositive DEF RecvNil, Bounded, BatchLen
  <2>3. CASE DrainRecv
    BY <2>3, Lengths, CapPositive DEF DrainRecv, Bounded, BatchLen
  <2>4. CASE DrainEnd
    BY <2>4, Lengths, CapPositive DEF DrainEnd, Bounded, BatchLen
  <2>5. CASE FlushBatch \/ LastFlush
    BY <2>5, Lengths DEF FlushBatch, LastFlush, Bounded, BatchLen
  <2>6. CASE TimerFire \/ CtxDone \/ FlushPanics
    BY <2>6, Lengths, CapPositive
       DEF TimerFire, CtxDone, FlushPanics, Bounded, BatchLen
  <2> QED  BY <1>4, <2>1, <2>2, <2>3, <2>4, <2>5, <2>6 DEF ProcStep
<1>5. CASE MonitorExit
  BY <1>5 DEF MonitorExit, Bounded, BatchLen
<1>6. CASE StatusChange
  BY <1>6 DEF StatusChange, Bounded, BatchLen
<1> QED  BY <1>1, <1>2, <1>3, <1>4, <1>5, <1>6 DEF Next

\* No batch handed over is longer than the code intends.
THEOREM BatchesBounded == Spec => []BatchBound
<1>1. Init => Bounded
  BY CapPositive, EmptySeq DEF Init, Bounded, BatchLen
<1>2. IInv /\ Bounded /\ [Next]_vars => Bounded'
  <2>1. ASSUME IInv, Bounded, Next PROVE Bounded'
    BY <2>1, BoundedStep
  <2>2. ASSUME Bounded, UNCHANGED vars PROVE Bounded'
    BY <2>2 DEF vars, Bounded, BatchLen
  <2> QED  BY <2>1, <2>2
<1>3. IInv /\ Bounded => BatchBound
  <2> SUFFICES ASSUME IInv, Bounded PROVE BatchBound
    OBVIOUS
  <2>1. BatchLen \in Nat /\ Len(queue) \in Nat
    BY Lengths DEF BatchLen
  <2>2. proc \in {"off", "select", "flush", "drain", "lastflush", "done",
                 "panicked"}
    BY DEF IInv, TypeOK
  <2> QED  BY <2>1, <2>2, CapPositive DEF Bounded, BatchBound
<1> QED  BY <1>1, <1>2, <1>3, Invariance, PTL DEF Spec

-----------------------------------------------------------------------------
(* Refinement of Handoff *)

\* What has been handed over and batched is a prefix of what was accepted.
LEMMA PrefixOfAccepted ==
  ASSUME NEW f \in Seq(Item), NEW b \in Seq(Item), NEW q \in Seq(Item),
         b # <<>>
  PROVE  /\ f \o b = SubSeq(f \o b \o q, 1, Len(f) + Len(b))
         /\ Len(f) + Len(b) \in (Len(f) + 1) .. Len(f \o b \o q)
<1> DEFINE s == f \o b
           n == Len(f) + Len(b)
<1>1. s \in Seq(Item) /\ Len(s) = n
  BY ConcatProperties
<1>2. Len(f) \in Nat /\ Len(q) \in Nat /\ Len(b) \in Nat \ {0}
  BY LenProperties, EmptySeq
<1>3. 1 \in 1 .. Len(s) /\ n \in 1 .. Len(s)
  BY <1>1, <1>2
<1>4. SubSeq(s \o q, 1, n) = SubSeq(s, 1, n)
  BY <1>1, <1>3, SubSeqOfConcat1
<1>5. SubSeq(s, 1, n) = s
  BY <1>1, SubSeqFull
<1>6. Len(s \o q) = n + Len(q)
  BY <1>1, ConcatProperties
<1>7. n \in (Len(f) + 1) .. Len(s \o q)
  BY <1>2, <1>6
<1> QED  BY <1>4, <1>5, <1>7

\* Every step of Intake is a step of Handoff or none: a send accepts, a flush
\* of records hands over, the processor's return finishes.
LEMMA RefinementStep ==
  ASSUME IInv, Next
  PROVE  [Promise!Next]_(Promise!vars)
<1> USE DEF Promise!Next, Promise!vars
<1>0. /\ accepted \in Seq(Item) /\ flushed \in Seq(Item)
      /\ batch \in Seq(Item) /\ queue \in Seq(Item)
      /\ accepted = flushed \o batch \o queue
  BY DEF IInv, TypeOK, HandoffExact
<1>1. CASE \E h \in Pusher : PushStep(h)
  <2> PICK h \in Pusher : PushStep(h)
    BY <1>1
  <2>1. CASE PushSend(h)
    <3>1. arg[h] \in Item /\ proc # "done"
      BY <2>1 DEF PushSend, IInv, ArgTyped, Protocol
    <3>2. Promise!Accept
      BY <2>1, <3>1 DEF PushSend, Promise!Accept
    <3> QED  BY <3>2
  <2>2. CASE PushCheck(h) \/ PushLock(h) \/ PushNotStarted(h) \/ PushFull(h)
    BY <2>2 DEF PushCheck, PushLock, PushNotStarted, PushFull, hist
  <2> QED  BY <2>1, <2>2 DEF PushStep
<1>2. CASE Start
  BY <1>2 DEF Start, hist
<1>3. CASE \E c \in Closer : CloseStep(c)
  BY <1>3 DEF CloseStep, CloseAnnounce, CloseLock, CloseCancel, CloseQueue,
              CloseReturn, hist
<1>4. CASE ProcStep
  <2>1. CASE FlushBatch
    <3>1. CASE batch = <<>>
      BY <1>0, <2>1, <3>1, ConcatEmptySeq DEF FlushBatch
    <3>2. CASE batch # <<>>
      <4>1. /\ flushed \o batch
                 = SubSeq(accepted, 1, Len(flushed) + Len(batch))
            /\ Len(flushed) + Len(batch)
                 \in (Len(flushed) + 1) .. Len(accepted)
        BY <1>0, <3>2, PrefixOfAccepted
      <4>2. Promise!HandOver
        BY <2>1, <4>1 DEF FlushBatch, Promise!HandOver
      <4> QED  BY <4>2
    <3> QED  BY <3>1, <3>2
  <2>2. CASE LastFlush
    <3>1. queue = <<>>
      BY <2>2 DEF LastFlush, IInv, Draining
    <3>2. flushed \o batch = accepted
      BY <1>0, <3>1, ConcatProperties, ConcatEmptySeq
    <3>3. Promise!Finish
      BY <2>2, <3>2 DEF LastFlush, Promise!Finish
    <3> QED  BY <3>3
  <2>3. CASE DrainEnd
    <3>1. CASE BatchLen > 0
      BY <2>3, <3>1 DEF DrainEnd, hist
    <3>2. CASE ~(BatchLen > 0)
      <4>1. Len(batch) \in Nat /\ blanks \in Nat
        BY <1>0, LenProperties DEF IInv, TypeOK
      <4>2. batch = <<>>
        BY <1>0, <3>2, <4>1, EmptySeq DEF BatchLen
      <4>3. flushed = accepted
        BY <1>0, <2>3, <4>2, ConcatEmptySeq DEF DrainEnd
      <4>4. Promise!Finish
        BY <2>3, <3>2, <4>3 DEF DrainEnd, Promise!Finish, hist
      <4> QED  BY <4>4
    <3> QED  BY <3>1, <3>2
  <2>4. CASE Recv \/ RecvNil \/ TimerFire \/ FlushPanics \/ CtxDone
             \/ DrainRecv
    BY <2>4 DEF Recv, RecvNil, TimerFire, FlushPanics, CtxDone, DrainRecv,
                hist
  <2> QED  BY <1>4, <2>1, <2>2, <2>3, <2>4 DEF ProcStep
<1>5. CASE MonitorExit
  BY <1>5 DEF MonitorExit, hist
<1>6. CASE StatusChange
  BY <1>6 DEF StatusChange, hist
<1> QED  BY <1>1, <1>2, <1>3, <1>4, <1>5, <1>6 DEF Next

\* Intake implements Handoff: what a pipeline promises its callers.
THEOREM Refinement == Spec => ImplementsHandoff
<1>1. Init => Promise!Init
  BY DEF Init, Promise!Init
<1>2. IInv /\ [Next]_vars => [Promise!Next]_(Promise!vars)
  <2>1. ASSUME IInv, Next PROVE [Promise!Next]_(Promise!vars)
    BY <2>1, RefinementStep
  <2>2. ASSUME UNCHANGED vars PROVE UNCHANGED Promise!vars
    BY <2>2 DEF vars, Promise!vars
  <2> QED  BY <2>1, <2>2
<1> QED  BY <1>1, <1>2, Invariance, PTL DEF Spec, ImplementsHandoff, Promise!Spec
=============================================================================
