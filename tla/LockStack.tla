------------------------------- MODULE LockStack -------------------------------
(***************************************************************************)
(* LockStack<T, 0>, the stack that grows: a vector behind a mutex that     *)
(* every operation holds from its first line to its last, so an operation  *)
(* is one step.  FixedLockStack shows the same for its finer steps.  The   *)
(* items are owned, like the session pool's pointers: pushing moves an     *)
(* item out of a thread's hands and popping moves it in.                   *)
(***************************************************************************)
EXTENDS Naturals, Sequences

CONSTANTS Threads, Items

VARIABLES stack,   \* m_stack
          held,    \* the items each thread owns
          seen     \* the size each thread was told last

stackVars == <<stack, held, seen>>

Top == stack[Len(stack)]

\* The default constructor, or the one that fills the stack.
StackInit ==
    /\ stack \in Seq(Items)
    /\ held \in [Threads -> SUBSET Items]
    /\ seen = [t \in Threads |-> 0]

\* Push and Emplace.
Push(t) ==
    \E x \in held[t] :
        /\ stack' = Append(stack, x)
        /\ held' = [held EXCEPT ![t] = @ \ {x}]
        /\ UNCHANGED seen

\* Pop, which asserts that there is an item, and TryPop when it finds one.
PopTop(t) ==
    /\ stack # <<>>
    /\ held' = [held EXCEPT ![t] = @ \cup {Top}]
    /\ stack' = SubSeq(stack, 1, Len(stack) - 1)
    /\ UNCHANGED seen

\* GetSize and IsEmpty, and TryPop when it finds nothing.
TellSize(t) == seen' = [seen EXCEPT ![t] = Len(stack)] /\ UNCHANGED <<stack, held>>

StackNext == \E t \in Threads : Push(t) \/ PopTop(t) \/ TellSize(t)

StackSpec == StackInit /\ [][StackNext]_stackVars
================================================================================
