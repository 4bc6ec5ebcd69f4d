------------------------------ MODULE TaskQueue ------------------------------
(***************************************************************************)
(* The queue of due tasks (pkg/scheduler/task.go): a binary heap over a    *)
(* slice, kept by container/heap with the Less of taskHeap, and a          *)
(* condition variable.  The wheel's goroutine pushes, the scheduler loop   *)
(* pops; both hold the mutex throughout, except in Wait.                   *)
(*                                                                         *)
(* A task is in the queue at most once: the wheel hands it over, and it    *)
(* comes back to the wheel only after it was popped.                       *)
(***************************************************************************)
EXTENDS Integers, Sequences, Functions

CONSTANTS Task, Priority

ASSUME PriorityAssumption == Priority \in [Task -> Int]

VARIABLES
  heap,          \* taskHeap
  loop           \* the popper: away, in Wait, or signalled

queueVars == <<heap, loop>>

\* taskHeap.Less on two positions (from 1) of h.
Less(h, i, j) ==
  IF Priority[h[i]] = Priority[h[j]] THEN i < j
                                     ELSE Priority[h[i]] > Priority[h[j]]

\* Mutant of Swap: two assignments, one after the other.
SwapInTurn(h, i, j) == [h EXCEPT ![i] = h[j], ![j] = h[j]]

Swap(h, i, j) == [h EXCEPT ![i] = h[j], ![j] = h[i]]

\* A slice and the index of the element container/heap is sifting in it.
Sifting == [h : Seq(Task), at : Nat]

\* container/heap.up: one turn of its loop; one that changes nothing is its
\* break.
UpTurn[s \in Sifting] ==
  LET parent == s.at \div 2
  IN  IF s.at = 1 \/ ~Less(s.h, s.at, parent) THEN s
      ELSE [h |-> Swap(s.h, s.at, parent), at |-> parent]

\* Every turn leaves a level behind, so Len(h) of them are enough.
Up(h, j) ==
  LET s[k \in 0 .. Len(h)] == IF k = 0 THEN [h |-> h, at |-> j]
                                       ELSE UpTurn[s[k - 1]]
  IN  s[Len(h)].h

\* container/heap.down, from the root and among the first n: one turn.
DownTurn(n) ==
  [s \in Sifting |->
     LET left  == 2 * s.at
         child == IF left < n /\ Less(s.h, left + 1, left) THEN left + 1
                                                           ELSE left
     IN  IF left > n \/ ~Less(s.h, child, s.at) THEN s
         ELSE [h |-> Swap(s.h, s.at, child), at |-> child]]

Down(h, n) ==
  LET s[k \in 0 .. Len(h)] == IF k = 0 THEN [h |-> h, at |-> 1]
                                       ELSE DownTurn(n)[s[k - 1]]
  IN  s[Len(h)].h

Init == heap = <<>> /\ loop = "away"

\* Mutant of PushTask: signals only if there was a task before.
PushSignalsLate(t) ==
  /\ t \notin Range(heap)
  /\ heap' = Up(Append(heap, t), Len(heap) + 1)
  /\ loop' = IF loop = "waiting" /\ heap # <<>> THEN "signalled" ELSE loop

\* heap.Push, then Signal, which wakes the popper if it waits.
PushTask(t) ==
  /\ t \notin Range(heap)
  /\ heap' = Up(Append(heap, t), Len(heap) + 1)
  /\ loop' = IF loop = "waiting" THEN "signalled" ELSE loop

\* Pop finds the heap empty: Wait gives up the mutex.
PopWait ==
  /\ loop \in {"away", "signalled"}
  /\ heap = <<>>
  /\ loop' = "waiting"
  /\ UNCHANGED heap

\* Mutant of HeapPop: the last element goes to the root and stays there.
HeapPopUnsifted ==
  LET n == Len(heap)
  IN  SubSeq(Swap(heap, 1, n), 1, n - 1)

\* Mutant of HeapPop: the element swapped to the end is sifted with the rest.
HeapPopOffByOne ==
  LET n == Len(heap)
  IN  SubSeq(Down(Swap(heap, 1, n), n), 1, n - 1)

\* heap.Pop: swap root and last, sift down among the others, cut the last off.
HeapPop ==
  LET n == Len(heap)
  IN  SubSeq(Down(Swap(heap, 1, n), n - 1), 1, n - 1)

PopTask ==
  /\ loop \in {"away", "signalled"}
  /\ heap # <<>>
  /\ heap' = HeapPop
  /\ loop' = "away"

Next == PopWait \/ PopTask \/ \E t \in Task : PushTask(t)

\* The loop comes back to Pop, and a goroutine that can run does.
Spec == Init /\ [][Next]_queueVars /\ WF_queueVars(PopWait \/ PopTask)

-----------------------------------------------------------------------------
\* No task is in the slice twice.
TypeOK ==
  /\ heap \in Seq(Task) /\ IsInjective(heap)
  /\ loop \in {"away", "waiting", "signalled"}

\* The slice is a heap: no element precedes its parent.  What container/heap
\* needs of Less holds although Less looks at positions as well.
HeapOrdered ==
  \A k \in 2 .. Len(heap) : ~(Priority[heap[k]] > Priority[heap[k \div 2]])

\* The heap is the queue of WaitQueue: no task is lost or doubled by the
\* swaps, and Pop returns a task that none of the waiting ones outranks.
Q == INSTANCE WaitQueue WITH queue <- Range(heap)
ImplementsWaitQueue == Q!Serve

\* A waiting popper does not sleep while there is a task: no wake-up is lost.
NoLostWakeup == heap # <<>> ~> loop = "away"
=============================================================================
