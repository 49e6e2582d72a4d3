------------------------------- MODULE LockQueue -------------------------------
(***************************************************************************)
(* LockQueue<T, Size> with a size: the ring of cells, its two indices and  *)
(* its counter.  Every method is one critical section of m_mutex, and any  *)
(* thread may call it; which one does makes no difference to the queue.    *)
(*                                                                         *)
(* The three ways to push (copy, move, Emplace) store the same element.    *)
(* Pop's ASSERT, that the queue is not empty, is a guard, as is a TryPop   *)
(* that finds something: one that finds nothing changes nothing.           *)
(***************************************************************************)
EXTENDS Naturals

CONSTANTS Size, Items

VARIABLES cells,      \* m_queue
          headIndex, tailIndex, count,
          alive       \* CRASH has not been called

vars == <<cells, headIndex, tailIndex, count, alive>>

NextIndex(index) == (index + 1) % Size

Init ==
    /\ cells \in [0 .. Size - 1 -> Items]
    /\ headIndex = 0 /\ tailIndex = 0 /\ count = 0
    /\ alive = TRUE

\* The test in front of every push, as the code has it.
Refused == count < Size

Push(item) ==
    /\ alive
    /\ IF Refused
       THEN alive' = FALSE /\ UNCHANGED <<cells, headIndex, tailIndex, count>>
       ELSE /\ cells' = [cells EXCEPT ![tailIndex] = item]
            /\ tailIndex' = NextIndex(tailIndex)
            /\ count' = count + 1
            /\ UNCHANGED <<headIndex, alive>>

IsEmpty == count = 0

\* Pop and TryPop.
Pop ==
    /\ alive /\ ~IsEmpty
    /\ headIndex' = NextIndex(headIndex)
    /\ count' = count - 1
    /\ UNCHANGED <<cells, tailIndex, alive>>

Next == Pop \/ \E item \in Items : Push(item)

Spec == Init /\ [][Next]_vars

--------------------------------------------------------------------------------
(* Properties.                                                             *)

\* What the message of the crash says, "Queue overflow.": a push ends the process
\* only when every cell holds an element (LockQueue.inl:20-21, 31-32, 43-44).
OverflowMeansFull == ~alive => count = Size
================================================================================
