------------------------------ MODULE SessionPool ------------------------------
(***************************************************************************)
(* What the engine promises about its sessions: a session is taken for one *)
(* connection attempt at a time and then either comes back or is connected *)
(* for good.  Nobody takes a session twice, none comes back twice, and a   *)
(* connected one is never handed to another client.                        *)
(***************************************************************************)
CONSTANT Sessions

VARIABLES free,       \* in the pool
          taken,      \* on the way to a connection
          connected   \* given to a client

poolVars == <<free, taken, connected>>

PoolInit == free = Sessions /\ taken = {} /\ connected = {}

Take(s) ==
    /\ s \in free
    /\ free' = free \ {s} /\ taken' = taken \cup {s}
    /\ UNCHANGED connected

GiveBack(s) ==
    /\ s \in taken
    /\ taken' = taken \ {s} /\ free' = free \cup {s}
    /\ UNCHANGED connected

Connect(s) ==
    /\ s \in taken
    /\ taken' = taken \ {s} /\ connected' = connected \cup {s}
    /\ UNCHANGED free

PoolNext == \E s \in Sessions : Take(s) \/ GiveBack(s) \/ Connect(s)

PoolSpec == PoolInit /\ [][PoolNext]_poolVars
================================================================================
