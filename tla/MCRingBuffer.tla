------------------------------ MODULE MCRingBuffer ------------------------------
(* Small rings of RingBuffer: two byte values tell any two bytes apart. *)
EXTENDS RingBuffer
================================================================================
