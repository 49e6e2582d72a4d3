------------------------------- MODULE ByteStream -------------------------------
(***************************************************************************)
(* What a RingBuffer promises: a first-in, first-out stream of bytes that  *)
(* one writer extends and one reader looks at before it consumes.          *)
(***************************************************************************)
EXTENDS Naturals, Sequences

CONSTANTS Bytes, Capacity

VARIABLES stream,   \* bytes written and not yet consumed, oldest first
          view      \* the bytes the reader is looking at

streamVars == <<stream, view>>

StreamInit == stream = <<>> /\ view = <<>>

Write ==
    /\ \E n \in 1 .. Capacity - Len(stream) : \E s \in [1 .. n -> Bytes] : stream' = stream \o s
    /\ UNCHANGED view

Look ==
    /\ view = <<>>
    /\ \E n \in 1 .. Len(stream) : view' = SubSeq(stream, 1, n)
    /\ UNCHANGED stream

Consume ==
    /\ \E n \in 1 .. Len(view) : stream' = SubSeq(stream, n + 1, Len(stream))
    /\ view' = <<>>

PutBack == view # <<>> /\ view' = <<>> /\ UNCHANGED stream

StreamNext == Write \/ Look \/ Consume \/ PutBack

StreamSpec == StreamInit /\ [][StreamNext]_streamVars
================================================================================
