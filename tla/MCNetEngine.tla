------------------------------ MODULE MCNetEngine ------------------------------
(* Small instances of NetEngine. *)
EXTENDS NetEngine

CONSTANTS main, w1, w2, s1, s2, a, b
================================================================================
