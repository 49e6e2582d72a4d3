------------------------------ MODULE SendChannel ------------------------------
(***************************************************************************)
(* What BoostSession::Send promises to its callers: an ordered channel.    *)
(* Buffers are named by the order in which they were accepted.  They reach *)
(* the connection in that order, each once, with nothing left out; only a  *)
(* broken connection may discard, and then nothing is delivered any more.  *)
(***************************************************************************)
EXTENDS Naturals, Sequences

CONSTANT Capacity    \* accepted buffers that may be waiting at the same time

VARIABLES accepted,  \* how many buffers Send has accepted
          pending,   \* accepted, not yet handed to the connection, in order
          wire,      \* handed to the connection, in order
          broken     \* the connection (or the process) is gone

chanVars == <<accepted, pending, wire, broken>>

ChanInit == accepted = 0 /\ pending = <<>> /\ wire = <<>> /\ broken = FALSE

Suffix(s, n) == SubSeq(s, n + 1, Len(s))

\* Send returned true.  A broken channel still accepts: see Discard.
Accept ==
    /\ Len(pending) < Capacity
    /\ accepted' = accepted + 1
    /\ pending' = Append(pending, accepted + 1)
    /\ UNCHANGED <<wire, broken>>

Deliver ==
    /\ ~broken
    /\ pending # <<>>
    /\ wire' = Append(wire, Head(pending))
    /\ pending' = Tail(pending)
    /\ UNCHANGED <<accepted, broken>>

\* The connection goes away, with any part of what it still held.
Break ==
    /\ ~broken
    /\ broken' = TRUE
    /\ \E n \in 0 .. Len(pending) : pending' = Suffix(pending, n)
    /\ UNCHANGED <<accepted, wire>>

Discard ==
    /\ broken
    /\ \E n \in 1 .. Len(pending) : pending' = Suffix(pending, n)
    /\ UNCHANGED <<accepted, wire, broken>>

ChanNext == Accept \/ Deliver \/ Break \/ Discard

ChanSpec == ChanInit /\ [][ChanNext]_chanVars

\* No accepted buffer is kept for ever: it is delivered or discarded.
Progress == WF_chanVars(Deliver \/ Discard)
================================================================================
