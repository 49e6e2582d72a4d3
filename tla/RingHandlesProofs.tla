--------------------------- MODULE RingHandlesProofs ---------------------------
(***************************************************************************)
(* Proofs about RingHandles, for any number of handles and buffers.        *)
(***************************************************************************)
EXTENDS RingHandles, TLAPS

USE HandlesAssumption DEF HandlesAssumption

\* The three invariants hold each other up: a settled or overwritten reservation is
\* counted once because it had one holder, and it has one holder because whoever gave
\* it away is empty.
IInv == TypeOK /\ OneHolder /\ SettledOnce

LEMMA Initially == Init => IInv
BY DEF Init, IInv, TypeOK, OneHolder, SettledOnce, Held, IsValid, IsLive

\* What the two invariants are about.
Untouched == UNCHANGED <<owner, isActive, granted, settled, lost>>

LEMMA UntouchedKeeps == OneHolder /\ SettledOnce /\ Untouched => (OneHolder /\ SettledOnce)'
BY DEF OneHolder, SettledOnce, Held, Untouched

\* A move between two handles, the target of which is empty or not.
LEMMA MoveKeeps ==
    ASSUME IInv, NEW h \in Handles, NEW g \in Handles, owner' = Moved(h, g),
           lost' = [b \in Buffers |-> IF owner[h] = b THEN lost[b] + 1 ELSE lost[b]],
           UNCHANGED <<isActive, granted, settled>>
    PROVE  (OneHolder /\ SettledOnce)'
<1> USE DEF IInv, TypeOK
<1>1. /\ owner'[g] = NoBuffer /\ (h # g => owner'[h] = owner[g])
      /\ \A k \in Handles \ {h, g} : owner'[k] = owner[k]
  BY DEF Moved
<1>2. \A b \in Buffers : \A k, l \in Handles : owner'[k] = b /\ owner'[l] = b => k = l
  BY <1>1 DEF OneHolder
<1>3. \A b \in Buffers : owner[h] = b => ~Held(b)' /\ Held(b) /\ lost'[b] = lost[b] + 1
  BY <1>1 DEF OneHolder, Held
<1>4. \A b \in Buffers : owner[h] # b => (Held(b)' <=> Held(b)) /\ lost'[b] = lost[b]
  <2> SUFFICES ASSUME NEW b \in Buffers, owner[h] # b PROVE Held(b)' <=> Held(b)
    OBVIOUS
  <2>1. ASSUME NEW k \in Handles, owner[k] = b PROVE Held(b)'
    BY <1>1, <2>1 DEF Held
  <2>2. ASSUME NEW k \in Handles, owner'[k] = b PROVE Held(b)
    BY <1>1, <2>2 DEF Held
  <2>3. QED BY <2>1, <2>2 DEF Held
<1>5. OneHolder'
  <2> SUFFICES ASSUME NEW b \in Buffers
               PROVE  (Held(b)' => isActive'[b]) /\ (isActive'[b] /\ ~Held(b)' => lost'[b] > 0)
    BY <1>2 DEF OneHolder
  <2>1. lost[b] \in Nat /\ isActive'[b] = isActive[b]
    OBVIOUS
  <2>2. (Held(b) => isActive[b]) /\ (isActive[b] /\ ~Held(b) => lost[b] > 0)
    BY DEF OneHolder
  <2>3. CASE owner[h] = b
    BY <1>3, <2>1, <2>3
  <2>4. CASE owner[h] # b
    BY <1>4, <2>1, <2>2, <2>4
  <2>5. QED BY <2>3, <2>4
<1>6. SettledOnce'
  <2> SUFFICES ASSUME NEW b \in Buffers
               PROVE  granted'[b] = settled'[b] + lost'[b] + (IF Held(b)' THEN 1 ELSE 0)
    BY DEF SettledOnce
  <2>1. /\ granted[b] = settled[b] + lost[b] + (IF Held(b) THEN 1 ELSE 0)
        /\ granted'[b] = granted[b] /\ settled'[b] = settled[b]
        /\ lost[b] \in Nat /\ settled[b] \in Nat
    BY DEF SettledOnce
  <2>2. CASE owner[h] = b
    BY <1>3, <2>1, <2>2
  <2>3. CASE owner[h] # b
    BY <1>4, <2>1, <2>3
  <2>4. QED BY <2>2, <2>3
<1>7. QED BY <1>5, <1>6

\* Settling changes one owner, to none.
LEMMA SettleTypes ==
    ASSUME TypeOK, NEW h \in Handles, IsValid(h), Settle(h),
           phase' \in [Handles -> {"unborn", "live", "dead"}],
           \A k \in Handles \ {h} : phase'[k] = phase[k]
    PROVE  TypeOK'
<1> USE DEF TypeOK, IsValid, Settle
<1>1. /\ owner[h] \in Buffers /\ owner'[h] = NoBuffer
      /\ \A k \in Handles \ {h} : owner'[k] = owner[k]
  OBVIOUS
<1>2. settled' \in [Buffers -> Nat] /\ isActive' \in [Buffers -> BOOLEAN]
  BY <1>1
<1>3. \A k \in Handles : ~IsLive(k)' => ~IsValid(k)'
  BY <1>1 DEF IsLive
<1>4. QED BY <1>1, <1>2, <1>3

\* Settling ends the reservation of its one holder.
LEMMA SettleEnds ==
    ASSUME IInv, NEW h \in Handles, IsValid(h), Settle(h)
    PROVE  (OneHolder /\ SettledOnce)'
<1> USE DEF IInv, TypeOK, IsValid, Settle
<1>1. /\ owner[h] \in Buffers /\ owner'[h] = NoBuffer
      /\ \A k \in Handles \ {h} : owner'[k] = owner[k]
  OBVIOUS
<1>2. \A b \in Buffers : \A k, l \in Handles : owner'[k] = b /\ owner'[l] = b => k = l
  BY <1>1 DEF OneHolder
<1>3. \A b \in Buffers : owner[h] = b =>
          Held(b) /\ ~Held(b)' /\ ~isActive'[b] /\ settled'[b] = settled[b] + 1
  BY <1>1 DEF OneHolder, Held
<1>4. \A b \in Buffers : owner[h] # b =>
          (Held(b)' <=> Held(b)) /\ isActive'[b] = isActive[b] /\ settled'[b] = settled[b]
  BY <1>1 DEF Held
<1>5. OneHolder'
  BY <1>1, <1>2, <1>3, <1>4 DEF OneHolder
<1>6. SettledOnce'
  <2> SUFFICES ASSUME NEW b \in Buffers
               PROVE  granted'[b] = settled'[b] + lost'[b] + (IF Held(b)' THEN 1 ELSE 0)
    BY DEF SettledOnce
  <2>1. /\ granted[b] = settled[b] + lost[b] + (IF Held(b) THEN 1 ELSE 0)
        /\ granted'[b] = granted[b] /\ lost'[b] = lost[b]
        /\ lost[b] \in Nat /\ settled[b] \in Nat
    BY DEF SettledOnce
  <2>2. CASE owner[h] = b
    BY <1>3, <2>1, <2>2
  <2>3. CASE owner[h] # b
    BY <1>4, <2>1, <2>3
  <2>4. QED BY <2>2, <2>3
<1>7. QED BY <1>5, <1>6

LEMMA Step == IInv /\ [Next]_vars => IInv'
<1> SUFFICES ASSUME IInv, [Next]_vars PROVE IInv'
  OBVIOUS
<1>0. TypeOK /\ OneHolder /\ SettledOnce
  BY DEF IInv
<1>1. ASSUME NEW h \in Handles, NEW b \in Buffers, Create(h, b) PROVE IInv'
  <2>1. TypeOK'
    BY <1>0, <1>1 DEF Create, Born, TypeOK, IsLive, IsValid
  <2>2. /\ owner[h] = NoBuffer /\ owner'[h] = b
        /\ \A k \in Handles \ {h} : owner'[k] = owner[k]
    BY <1>0, <1>1 DEF Create, Born, TypeOK, IsLive, IsValid
  <2>3. /\ ~Held(b) /\ Held(b)' /\ isActive'[b] /\ granted'[b] = granted[b] + 1
        /\ \A c \in Buffers \ {b} :
              (Held(c)' <=> Held(c)) /\ isActive'[c] = isActive[c] /\ granted'[c] = granted[c]
    BY <1>0, <1>1, <2>2 DEF Create, TypeOK, Held
  <2>4. OneHolder'
    BY <1>0, <1>1, <2>2, <2>3 DEF Create, OneHolder, Held
  <2>5. SettledOnce'
    BY <1>0, <1>1, <2>3 DEF Create, TypeOK, SettledOnce
  <2>6. QED BY <2>1, <2>4, <2>5 DEF IInv
<1>2. ASSUME NEW h \in Handles, CreateEmpty(h) PROVE IInv'
  <2>1. TypeOK'
    BY <1>0, <1>2 DEF CreateEmpty, Born, ends, TypeOK, IsLive, IsValid
  <2>2. QED BY <1>0, <1>2, <2>1, UntouchedKeeps DEF CreateEmpty, ends, Untouched, IInv
<1>3. ASSUME NEW h \in Handles, NEW g \in Handles, MoveConstruct(h, g) PROVE IInv'
  <2>1. ~IsValid(h)
    BY <1>0, <1>3 DEF MoveConstruct, Born, TypeOK, IsLive
  <2>2. TypeOK'
    BY <1>0, <1>3 DEF MoveConstruct, Moved, Born, ends, TypeOK, IsLive, IsValid
  <2>3. lost' = [b \in Buffers |-> IF owner[h] = b THEN lost[b] + 1 ELSE lost[b]]
    BY <1>0, <1>3, <2>1 DEF MoveConstruct, ends, IsValid, TypeOK
  <2>4. QED BY <1>3, <2>2, <2>3, MoveKeeps DEF MoveConstruct, ends, IInv
<1>4. ASSUME NEW h \in Handles, NEW g \in Handles, MoveAssign(h, g) PROVE IInv'
  <2>1. TypeOK'
    BY <1>0, <1>4 DEF MoveAssign, Moved, TypeOK, IsLive, IsValid
  <2>2. QED BY <1>4, <2>1, MoveKeeps DEF MoveAssign, IInv
<1>5. ASSUME NEW h \in Handles, Commit(h) \/ GiveUp(h) PROVE IInv'
  <2>1. IsLive(h) /\ IsValid(h) /\ Settle(h) /\ UNCHANGED phase
    BY <1>5 DEF Commit, GiveUp
  <2>2. QED BY <2>1, SettleEnds, SettleTypes, <1>0 DEF IInv, TypeOK, IsLive
<1>6. ASSUME NEW h \in Handles, Destroy(h) PROVE IInv'
  <2>1. phase' \in [Handles -> {"unborn", "live", "dead"}]
        /\ \A k \in Handles \ {h} : phase'[k] = phase[k]
    BY <1>0, <1>6 DEF Destroy, TypeOK
  <2>2. CASE IsValid(h)
    BY <1>0, <1>6, <2>1, <2>2, SettleEnds, SettleTypes DEF Destroy, IInv
  <2>3. CASE ~IsValid(h)
    <3>1. Untouched
      BY <1>6, <2>3 DEF Destroy, ends, Untouched
    <3>2. TypeOK'
      BY <1>0, <2>1, <2>3, <3>1 DEF Untouched, TypeOK, IsLive, IsValid
    <3>3. QED BY <1>0, <3>1, <3>2, UntouchedKeeps DEF IInv
  <2>4. QED BY <2>2, <2>3
<1>7. CASE UNCHANGED vars
  <2>1. TypeOK'
    BY <1>0, <1>7 DEF vars, ends, TypeOK, IsLive, IsValid
  <2>2. QED BY <1>0, <1>7, <2>1, UntouchedKeeps DEF vars, ends, Untouched, IInv
<1>8. QED BY <1>1, <1>2, <1>3, <1>4, <1>5, <1>6, <1>7 DEF Next

LEMMA Inductive == Spec => []IInv
BY Initially, Step, PTL DEF Spec

\* Type correctness, and no handle outside its scope is valid
\* (RingBuffer.cpp:8-75, 82-150).
THEOREM HandlesTypeCorrect == Spec => []TypeOK
BY Inductive, PTL DEF IInv

\* Whatever is moved where, a reservation has one holder, and a flag without one is
\* left by a move assignment that overwrote a holder (RingBuffer.cpp:31-49, 105-123).
THEOREM OneHolderOnly == Spec => []OneHolder
BY Inductive, PTL DEF IInv

\* Every granted reservation is settled once, overwritten once, or still held
\* (RingBuffer.cpp:23-68, 322-388).
THEOREM NothingSettledTwice == Spec => []SettledOnce
BY Inductive, PTL DEF IInv

\* What the ASSERTs of the move assignment would let through.
PassesAsserts(h, g) == IsValid(g) /\ owner[h] = owner[g]

\* With ASSERTs compiled in, the only move assignment that would get past them is one
\* of a handle to itself, which clears it and loses the reservation: an empty target has
\* no owner, and no other handle has the same one (RingBuffer.cpp:40-49, 114-123).
OnlySelfMovePasses == \A h, g \in Handles : PassesAsserts(h, g) => h = g

THEOREM NoMovePassesItsAssert == Spec => []OnlySelfMovePasses
<1>1. IInv => OnlySelfMovePasses
  BY DEF IInv, TypeOK, OneHolder, OnlySelfMovePasses, PassesAsserts, IsValid
<1>2. QED BY <1>1, Inductive, PTL

--------------------------------------------------------------------------------
(* The steps behind ReservationEnds.                                       *)

\* Scopes open and close once, and the end of the scope of a handle that holds a
\* reservation ends the reservation, wherever it was moved from.
ScopeTakesReservation ==
    \A h \in Handles :
        /\ phase[h] = "dead" => phase'[h] = "dead"
        /\ IsLive(h) => \/ IsLive(h)'
                        \/ phase'[h] = "dead" /\ (IsValid(h) => ~isActive'[owner[h]])

\* A reservation that was granted and neither settled nor overwritten is in the hands
\* of a handle in its scope, and of one only.
HolderInScope ==
    \A b \in Buffers :
        granted[b] # settled[b] + lost[b] =>
            \E h \in Handles : IsLive(h) /\ \A g \in Handles : owner[g] = b <=> g = h

LEMMA ScopeStep == IInv /\ [Next]_vars => ScopeTakesReservation
<1> SUFFICES ASSUME IInv, [Next]_vars PROVE ScopeTakesReservation
  OBVIOUS
<1> USE DEF IInv, TypeOK, IsLive
<1>1. ASSUME NEW h \in Handles, Born(h) PROVE ScopeTakesReservation
  <2>1. phase'[h] = "live" /\ \A k \in Handles \ {h} : phase'[k] = phase[k]
    BY <1>1 DEF Born
  <2>2. QED BY <1>1, <2>1 DEF Born, ScopeTakesReservation
<1>2. ASSUME UNCHANGED phase PROVE ScopeTakesReservation
  BY <1>2 DEF ScopeTakesReservation
<1>3. ASSUME NEW h \in Handles, Destroy(h) PROVE ScopeTakesReservation
  <2>1. phase[h] = "live" /\ phase'[h] = "dead"
        /\ \A k \in Handles \ {h} : phase'[k] = phase[k]
    BY <1>3 DEF Destroy
  <2>2. IsValid(h) => ~isActive'[owner[h]]
    BY <1>3 DEF Destroy, Settle, IsValid
  <2>3. QED BY <2>1, <2>2 DEF ScopeTakesReservation
<1>4. CASE \E h \in Handles : Born(h)
  BY <1>1, <1>4
<1>5. CASE \E h \in Handles : Destroy(h)
  BY <1>3, <1>5
<1>6. CASE UNCHANGED phase
  BY <1>2, <1>6
<1>7. QED
  BY <1>4, <1>5, <1>6 DEF Next, Create, CreateEmpty, MoveConstruct, MoveAssign,
     Commit, GiveUp, vars

\* A reservation that no commit, give-up or move assignment has ended is in the hands
\* of one handle, whose destructor is still to run (RingBuffer.cpp:23-49, 97-123): a
\* move loses no reservation but the one the target held.
THEOREM ReservationHasDestructor == Spec => []HolderInScope
<1>1. IInv => HolderInScope
  <2> SUFFICES ASSUME IInv, NEW b \in Buffers, granted[b] # settled[b] + lost[b]
               PROVE  \E h \in Handles : IsLive(h) /\ \A g \in Handles : owner[g] = b <=> g = h
    BY DEF HolderInScope
  <2>1. granted[b] = settled[b] + lost[b] + (IF Held(b) THEN 1 ELSE 0)
        /\ settled[b] \in Nat /\ lost[b] \in Nat
    BY DEF IInv, TypeOK, SettledOnce
  <2>2. PICK h \in Handles : owner[h] = b
    BY <2>1 DEF Held
  <2>3. IsLive(h)
    BY <2>2 DEF IInv, TypeOK, IsValid
  <2>4. QED BY <2>2, <2>3 DEF IInv, OneHolder
<1>2. QED BY <1>1, Inductive, PTL

\* The end of the holder's scope clears the flag, and no scope opens again
\* (RingBuffer.cpp:23-29, 97-103).  With finitely many handles, whose scopes all
\* end, this is why every reservation that is not overwritten ends.
THEOREM ScopeEndsReservation == Spec => [][ScopeTakesReservation]_vars
BY ScopeStep, Inductive, PTL DEF Spec
================================================================================
