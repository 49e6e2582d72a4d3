------------------------------ MODULE RingHandles ------------------------------
(***************************************************************************)
(* The handles RingBufferWriter and RingBufferReader as C++ objects.       *)
(* RingBuffer follows the one active span; here several handle variables   *)
(* are constructed, moved, committed, given up and destroyed, and the      *)
(* question is which of them holds the reservation and whether the buffer  *)
(* agrees.  The two classes have the same code and never meet: the handles *)
(* here are all writers, or all readers, of several buffers.               *)
(*                                                                         *)
(* The build is the one the repository makes, without DEBUG: the ASSERTs   *)
(* are no code.  The move operations test nothing, so a handle may be      *)
(* moved to itself, onto one that holds a reservation, or when it is       *)
(* empty.  Two demands are left to the caller and are guards here: one     *)
(* writer and one reader of a buffer at a time, and no commit or give-up   *)
(* through an empty handle, which would go through nullptr.                *)
(***************************************************************************)
EXTENDS Naturals, FiniteSets

CONSTANTS Handles,   \* handle variables, each with one lifetime
          Buffers,   \* the ring buffers
          NoBuffer   \* nullptr

ASSUME HandlesAssumption == NoBuffer \notin Buffers

VARIABLES phase,     \* of a handle: "unborn", "live", "dead"
          owner,     \* m_owner, m_ptr and m_size, which are set and cleared together
          isActive,  \* m_isActiveWriter, m_isActiveReader
          granted,   \* history: reservations the buffer has granted
          settled,   \* history: commits and give-ups the buffer has carried out
          lost       \* history: reservations a move assignment has overwritten

ends == <<granted, settled, lost>>
vars == <<phase, owner, isActive, ends>>

IsValid(h) == owner[h] # NoBuffer
IsLive(h)  == phase[h] = "live"
Held(b)    == \E h \in Handles : owner[h] = b

\* Every variable starts outside its scope, with what the default constructor sets.
Init ==
    /\ phase = [h \in Handles |-> "unborn"]
    /\ owner = [h \in Handles |-> NoBuffer]
    /\ isActive = [b \in Buffers |-> FALSE]
    /\ granted = [b \in Buffers |-> 0]
    /\ settled = [b \in Buffers |-> 0] /\ lost = [b \in Buffers |-> 0]

Born(h) == phase[h] = "unborn" /\ phase' = [phase EXCEPT ![h] = "live"]

\* CreateWriter, CreateReader and the All forms, when they reserve.  The flag is set
\* whatever it was: after a reservation was lost it is still up.
Create(h, b) ==
    /\ ~Held(b)
    /\ Born(h)
    /\ owner' = [owner EXCEPT ![h] = b]
    /\ isActive' = [isActive EXCEPT ![b] = TRUE]
    /\ granted' = [granted EXCEPT ![b] = @ + 1]
    /\ UNCHANGED <<settled, lost>>

\* When they do not, the handle is what the default constructor makes: empty.
CreateEmpty(h) == Born(h) /\ UNCHANGED <<owner, isActive, ends>>

--------------------------------------------------------------------------------
(* Moves.                                                                  *)

\* Mutant: other.Clear() is missing.
Copied(h, g) == [owner EXCEPT ![h] = owner[g]]

\* The fields are copied, then other is cleared, which is h itself when g is.
Moved(h, g) == [owner EXCEPT ![h] = owner[g], ![g] = NoBuffer]

MoveConstruct(h, g) ==
    /\ IsLive(g)
    /\ Born(h)
    /\ owner' = Moved(h, g)
    /\ UNCHANGED <<isActive, ends>>

\* What h held is overwritten, and its buffer is not told.
MoveAssign(h, g) ==
    /\ IsLive(h) /\ IsLive(g)
    /\ owner' = Moved(h, g)
    /\ lost' = [b \in Buffers |-> IF owner[h] = b THEN lost[b] + 1 ELSE lost[b]]
    /\ UNCHANGED <<phase, isActive, granted, settled>>

--------------------------------------------------------------------------------
(* The end of a reservation.                                               *)

\* Mutant: the handle stays valid.
SettleKeeps(h) ==
    /\ isActive' = [isActive EXCEPT ![owner[h]] = FALSE]
    /\ settled' = [settled EXCEPT ![owner[h]] = @ + 1]
    /\ UNCHANGED <<owner, granted, lost>>

\* CommitWrite, CommitRead, GiveUpWriter, GiveUpReader, of the handle's owner.
Settle(h) ==
    /\ isActive' = [isActive EXCEPT ![owner[h]] = FALSE]
    /\ settled' = [settled EXCEPT ![owner[h]] = @ + 1]
    /\ owner' = [owner EXCEPT ![h] = NoBuffer]
    /\ UNCHANGED <<granted, lost>>

Commit(h) == IsLive(h) /\ IsValid(h) /\ Settle(h) /\ UNCHANGED phase

GiveUp(h) == IsLive(h) /\ IsValid(h) /\ Settle(h) /\ UNCHANGED phase

\* Mutant: the destructor forgets the reservation.
DestroySilently(h) ==
    /\ IsLive(h)
    /\ phase' = [phase EXCEPT ![h] = "dead"]
    /\ UNCHANGED <<owner, isActive, ends>>

\* The destructor commits what the handle still holds.
Destroy(h) ==
    /\ IsLive(h)
    /\ phase' = [phase EXCEPT ![h] = "dead"]
    /\ IF IsValid(h) THEN Settle(h) ELSE UNCHANGED <<owner, isActive, ends>>

Next ==
    \/ \E h \in Handles, b \in Buffers : Create(h, b)
    \/ \E h, g \in Handles : MoveConstruct(h, g) \/ MoveAssign(h, g)
    \/ \E h \in Handles : CreateEmpty(h) \/ Commit(h) \/ GiveUp(h) \/ Destroy(h)

Spec == Init /\ [][Next]_vars

\* Every variable's scope ends.
FairSpec == Spec /\ \A h \in Handles : WF_vars(Destroy(h))

--------------------------------------------------------------------------------
\* Handles, flags and histories only have values of their kinds, and what a
\* handle outside its scope was left with is never a reservation.
TypeOK ==
    /\ phase \in [Handles -> {"unborn", "live", "dead"}]
    /\ owner \in [Handles -> Buffers \cup {NoBuffer}]
    /\ isActive \in [Buffers -> BOOLEAN]
    /\ granted \in [Buffers -> Nat] /\ settled \in [Buffers -> Nat] /\ lost \in [Buffers -> Nat]
    /\ \A h \in Handles : ~IsLive(h) => ~IsValid(h)

\* Wherever a reservation is moved, one handle holds it and never two, and the buffer's
\* active flag is up while it does.  A flag that is up without a holder, so that no
\* destructor will clear it, is only left by a move assignment to a handle that held
\* the reservation, be it from itself (RingBuffer.cpp:31-49, 105-123).
OneHolder ==
    \A b \in Buffers :
        /\ \A h, g \in Handles : owner[h] = b /\ owner[g] = b => h = g
        /\ Held(b) => isActive[b]
        /\ isActive[b] /\ ~Held(b) => lost[b] > 0

\* A granted reservation meets one end: it is committed or given up once, not by a
\* handle and its destructor both, nor by two handles after a move; or it is overwritten
\* by a move assignment, and then by nothing else (RingBuffer.cpp:23-68, 322-388).
SettledOnce ==
    \A b \in Buffers : granted[b] = settled[b] + lost[b] + (IF Held(b) THEN 1 ELSE 0)

\* As scopes end, every reservation ends and the flag goes down with it, through
\* whichever handles it was moved, unless a move assignment overwrites it on the way
\* (RingBuffer.cpp:23-29, 40-49, 97-103).
ReservationEnds ==
    \A b \in Buffers, n \in 0 .. Cardinality(Handles) :
        Held(b) /\ lost[b] = n ~> ~isActive[b] \/ lost[b] > n
================================================================================
