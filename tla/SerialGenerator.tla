---------------------------- MODULE SerialGenerator ----------------------------
(***************************************************************************)
(* SerialGenerator::CreateSerial.  Each generator has its own server and   *)
(* thread number and its own state, and is used by one thread.  A serial   *)
(* is four bit fields side by side: the second, the server, the thread and *)
(* a counter that starts again with every new second.                      *)
(*                                                                         *)
(* The wall clock may show anything at each call: it stands still, skips,  *)
(* is set back, and is cut to 32 bits.  The counter is as narrow as its    *)
(* type and wraps.                                                         *)
(***************************************************************************)
EXTENDS Integers, Sequences

CONSTANTS Servers, Threads,  \* the numbers in use, each below FieldRange
          FieldRange,        \* 2^8, the range of m_kServerID and m_kThreadID
          IdRange,           \* 2^16, the range of m_baseId
          Seconds,           \* what time(nullptr) may give, cut to 32 bits
          MaxCalls           \* bound of the model: calls of one generator

ASSUME SerialAssumption ==
    /\ FieldRange \in Nat \ {0} /\ IdRange \in Nat \ {0} /\ MaxCalls \in Nat
    /\ Servers \subseteq 0 .. FieldRange - 1 /\ Threads \subseteq 0 .. FieldRange - 1
    /\ Seconds \subseteq Nat

Generators == Servers \X Threads
Ids        == 0 .. IdRange - 1
Calls      == [second : Seconds, id : Ids]

VARIABLES lastTime,  \* m_lastTime of each generator
          baseId,    \* m_baseId of each generator
          calls      \* history: the second and the counter of each serial, in order

vars == <<lastTime, baseId, calls>>

Init ==
    /\ lastTime = [g \in Generators |-> 0]
    /\ baseId = [g \in Generators |-> 0]
    /\ calls = [g \in Generators |-> <<>>]

\* A field put to the right of the bits so far: the shift and the bitwise or.
Beside(bits, range, field) == bits * range + field

\* Mutant: the thread's field lies over the counter's.
PackOverlapping(t, g, id) == Beside(Beside(t, FieldRange, g[1]), FieldRange * IdRange, g[2] + id)

\* Every field is as wide as its type.
Pack(t, g, id) == Beside(Beside(Beside(t, FieldRange, g[1]), FieldRange, g[2]), IdRange, id)

\* Mutant: the counter never wraps.
IncrementedOn(id) == id + 1

Incremented(id) == (id + 1) % IdRange

\* The counter of a serial made in second t.
IdAt(g, t) == IF lastTime[g] = t THEN baseId[g] ELSE 0

\* Mutant: the new second is not remembered.
CreateSerialForgets(g, t) ==
    /\ Len(calls[g]) < MaxCalls
    /\ baseId' = [baseId EXCEPT ![g] = Incremented(IdAt(g, t))]
    /\ calls' = [calls EXCEPT ![g] = Append(calls[g], [second |-> t, id |-> IdAt(g, t)])]
    /\ UNCHANGED lastTime

CreateSerial(g, t) ==
    /\ Len(calls[g]) < MaxCalls
    /\ lastTime' = [lastTime EXCEPT ![g] = t]
    /\ baseId' = [baseId EXCEPT ![g] = Incremented(IdAt(g, t))]
    /\ calls' = [calls EXCEPT ![g] = Append(calls[g], [second |-> t, id |-> IdAt(g, t)])]

Next == \E g \in Generators, t \in Seconds : CreateSerial(g, t)

Spec == Init /\ [][Next]_vars

--------------------------------------------------------------------------------
(* Properties.                                                             *)

\* The counter stays in its sixteen bits (SerialGenerator.h:19-22).
TypeOK ==
    /\ lastTime \in [Generators -> Nat]
    /\ baseId \in [Generators -> Ids]
    /\ calls \in [Generators -> Seq(Calls)]

\* The serial that the i-th call of a generator returned.
Serial(g, i) == Pack(calls[g][i].second, g, calls[g][i].id)

\* Two generators never return the same serial, whatever their clocks and
\* counters do: they share nothing but the layout (SerialGenerator.cpp:21).
GeneratorsDisjoint ==
    \A g, h \in Generators : \A i \in DOMAIN calls[g], j \in DOMAIN calls[h] :
        Serial(g, i) = Serial(h, j) => g = h

\* A generator repeats a serial only if it made as many as the counter can tell
\* apart within one second, or if the clock left the second and came back to it
\* (SerialGenerator.cpp:14-21).  Any other clock, skipping or set back, is harmless.
RepeatsExplained ==
    \A g \in Generators : \A i, j \in DOMAIN calls[g] :
        i < j /\ Serial(g, i) = Serial(g, j) =>
            \/ j - i >= IdRange
            \/ \E k \in i .. j : calls[g][k].second # calls[g][i].second
================================================================================
