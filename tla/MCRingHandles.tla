----------------------------- MODULE MCRingHandles -----------------------------
(* A small instance of RingHandles: two buffers, and handles enough for a *)
(* grant on each, an empty handle, moves between all of them, and a       *)
(* reservation after one that was overwritten.                            *)
EXTENDS RingHandles
================================================================================
