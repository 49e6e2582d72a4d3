----------------------------- MODULE FixedLockStack -----------------------------
(***************************************************************************)
(* LockStack<T, Size>, the stack on an array.  Several threads use it; the *)
(* steps inside an operation are those another thread could see if it did  *)
(* not have to wait for m_mutex: the top index is tested and moved first,  *)
(* the slot is accessed after it.                                          *)
(*                                                                         *)
(* The build is the one the repository makes, without DEBUG: the ASSERTs   *)
(* of Push and Pop are no code, so a Push on a full stack and a Pop on an  *)
(* empty one go on outside the array, which is undefined.  misused records *)
(* that a caller has done so.  Until then it implements the stack that     *)
(* grows.                                                                  *)
(***************************************************************************)
EXTENDS Naturals, Sequences

CONSTANTS Threads, Items,
          Size,       \* the template parameter
          IndexRange, \* the values of the index, 2^32
          Nothing,    \* what a slot holds that was never filled or was moved from
          NoThread    \* the owner of an unlocked mutex

ASSUME StackAssumption ==
    /\ Size \in Nat \ {0} /\ IndexRange \in Nat /\ Size < IndexRange
    /\ Nothing \notin Items /\ NoThread \notin Threads

VARIABLES topIndex,  \* m_topIndex
          slots,     \* m_stack
          mutex,     \* m_mutex: the thread that locked it
          pc,        \* where in an operation each thread is
          arg,       \* the item a Push was called with
          held, seen, \* the items a thread owns, and the size it was told last
          misused    \* history: a Push has found the stack full or a Pop has found it empty

vars == <<topIndex, slots, mutex, pc, arg, held, seen, misused>>

Indices == 0 .. Size - 1
Ops     == {"push", "pop", "tryPop", "getSize"}

\* A thread owns what it holds and what it is about to push.
Owned(t) == held[t] \cup ({arg[t]} \ {Nothing})

\* Every item is in one place: a slot or a thread's hands.
OwnedOnce ==
    /\ \A x \in Items : (\E i \in Indices : slots[i] = x) \/ (\E t \in Threads : x \in Owned(t))
    /\ \A i, j \in Indices : slots[i] = slots[j] /\ slots[i] # Nothing => i = j
    /\ \A t, u \in Threads : Owned(t) \cap Owned(u) # {} => t = u
    /\ \A i \in Indices, t \in Threads : slots[i] \notin Owned(t)
    /\ \A t \in Threads : arg[t] \notin held[t]

\* The default constructor, or the one that makes Size items.
Init ==
    /\ slots \in [Indices -> Items \cup {Nothing}]
    /\ \/ topIndex = 0 /\ \A i \in Indices : slots[i] = Nothing
       \/ topIndex = Size /\ \A i \in Indices : slots[i] # Nothing
    /\ mutex = NoThread
    /\ pc = [t \in Threads |-> "idle"]
    /\ arg = [t \in Threads |-> Nothing]
    /\ held \in [Threads -> SUBSET Items]
    /\ OwnedOnce
    /\ seen = [t \in Threads |-> 0]
    /\ misused = FALSE

At(t, label)   == pc[t] = label
Goto(t, label) == pc' = [pc EXCEPT ![t] = label]

\* Mutant: nothing is locked.
LockNothing(t) == UNCHANGED mutex

\* lock_guard's constructor ...
Lock(t) == mutex = NoThread /\ mutex' = t

\* ... and its destructor, at every return.
Return(t) == mutex' = NoThread /\ Goto(t, "idle")

--------------------------------------------------------------------------------

\* A call that has the lock.
CallPush(t) ==
    \E x \in held[t] :
        /\ At(t, "idle") /\ Lock(t) /\ Goto(t, "push")
        /\ arg' = [arg EXCEPT ![t] = x]
        /\ held' = [held EXCEPT ![t] = @ \ {x}]
        /\ UNCHANGED <<topIndex, slots, seen, misused>>

Call(t, op) ==
    /\ At(t, "idle") /\ Lock(t) /\ Goto(t, op)
    /\ UNCHANGED <<topIndex, slots, arg, held, seen, misused>>

\* Mutant: an index that goes below 0.
DownOn(i) == i - 1

\* ++ and -- of a UINT32.
Up(i)   == IF i = IndexRange - 1 THEN 0 ELSE i + 1
Down(i) == IF i = 0 THEN IndexRange - 1 ELSE i - 1

\* m_stack[m_topIndex++] = data: the index moves first, whatever it is.
PushIndex(t) ==
    /\ At(t, "push")
    /\ topIndex' = Up(topIndex)
    /\ misused' = (misused \/ topIndex >= Size)
    /\ Goto(t, "store")
    /\ UNCHANGED <<slots, mutex, arg, held, seen>>

\* A write outside the array fills no slot; what it destroys is not modelled.
Store(t) ==
    /\ At(t, "store")
    /\ slots' = [i \in Indices |-> IF i = Down(topIndex) THEN arg[t] ELSE slots[i]]
    /\ arg' = [arg EXCEPT ![t] = Nothing]
    /\ Return(t)
    /\ UNCHANGED <<topIndex, held, seen, misused>>

\* --m_topIndex of Pop, which has made no test, and of TryPop, which has.
PopIndex(t) ==
    /\ At(t, "pop") \/ At(t, "found")
    /\ topIndex' = Down(topIndex)
    /\ misused' = (misused \/ (At(t, "pop") /\ topIndex = 0))
    /\ Goto(t, "take")
    /\ UNCHANGED <<slots, mutex, arg, held, seen>>

\* A read outside the array gives anything.
Readable == IF topIndex \in Indices THEN {slots[topIndex]} ELSE Items \cup {Nothing}

\* Mutant: the item is copied out.
TakeCopy(t) ==
    /\ At(t, "take")
    /\ \E x \in Readable : held' = [held EXCEPT ![t] = @ \cup ({x} \ {Nothing})]
    /\ Return(t)
    /\ UNCHANGED <<slots, topIndex, arg, seen, misused>>

\* The item is moved out of its slot.
Take(t) ==
    /\ At(t, "take")
    /\ \E x \in Readable : held' = [held EXCEPT ![t] = @ \cup ({x} \ {Nothing})]
    /\ slots' = [i \in Indices |-> IF i = topIndex THEN Nothing ELSE slots[i]]
    /\ Return(t)
    /\ UNCHANGED <<topIndex, arg, seen, misused>>

\* TryPop's test, and its early return.
TryPopFound(t) ==
    /\ At(t, "tryPop") /\ topIndex # 0
    /\ Goto(t, "found")
    /\ UNCHANGED <<topIndex, slots, mutex, arg, held, seen, misused>>

TryPopEmpty(t) ==
    /\ At(t, "tryPop") /\ topIndex = 0
    /\ seen' = [seen EXCEPT ![t] = 0]
    /\ Return(t)
    /\ UNCHANGED <<topIndex, slots, arg, held, misused>>

\* GetSize; IsEmpty tells less.
GetSize(t) ==
    /\ At(t, "getSize")
    /\ seen' = [seen EXCEPT ![t] = topIndex]
    /\ Return(t)
    /\ UNCHANGED <<topIndex, slots, arg, held, misused>>

Enter(t) == CallPush(t) \/ \E op \in Ops \ {"push"} : Call(t, op)

\* A thread inside an operation goes on.
Continue(t) ==
    \/ PushIndex(t) \/ Store(t)
    \/ TryPopFound(t) \/ TryPopEmpty(t) \/ PopIndex(t) \/ Take(t)
    \/ GetSize(t)

Next == \E t \in Threads : Enter(t) \/ Continue(t)

Spec == Init /\ [][Next]_vars

--------------------------------------------------------------------------------
\* The index is a UINT32, which is all that holds of it once the stack is misused.
TypeOK ==
    /\ topIndex \in 0 .. IndexRange - 1
    /\ slots \in [Indices -> Items \cup {Nothing}]
    /\ mutex \in Threads \cup {NoThread}
    /\ pc \in [Threads -> Ops \cup {"idle", "store", "found", "take"}]
    /\ arg \in [Threads -> Items \cup {Nothing}]
    /\ held \in [Threads -> SUBSET Items]
    /\ seen \in [Threads -> 0 .. IndexRange - 1]
    /\ misused \in BOOLEAN

\* Only a Push that finds the stack full or a Pop that finds it empty leads outside the
\* array: without one every access is to a slot, and TryPop, which needs no care of its
\* caller, still finds the item its test has seen (LockStack.inl:28, 53, 61-64).
AccessInside ==
    \A t \in Threads :
        ~misused =>
            /\ At(t, "store") => Down(topIndex) \in Indices
            /\ At(t, "found") => topIndex > 0
            /\ At(t, "take")  => topIndex \in Indices /\ slots[topIndex] # Nothing

\* A slot that was popped keeps no second owner, so no item is handed out twice, and
\* none is lost, until the stack is misused (LockStack.inl:29, 54, 64).
OneOwner == misused \/ OwnedOnce

\* While an index has moved and its slot has not followed, the stack's height is
\* the one before.
Height ==
    IF \E t \in Threads : At(t, "store") THEN Down(topIndex)
    ELSE IF \E t \in Threads : At(t, "take") THEN Up(topIndex)
    ELSE topIndex

Content == [i \in 1 .. Height |-> slots[i - 1]]

Stack == INSTANCE LockStack WITH stack <- Content, held <- [t \in Threads |-> Owned(t)]

\* However the threads interleave, the array behaves like the stack that grows until
\* it is misused: a pop returns the item pushed last, TryPop finds nothing only on an
\* empty stack, and GetSize is never told an index whose slot is not there yet
\* (LockStack.inl:24-80).
ImplementsStack == Stack!StackInit /\ [][misused' \/ Stack!StackNext]_(Stack!stackVars)
================================================================================
