------------------------------ MODULE MCLockQueue ------------------------------
(* Small instances of LockQueue. *)
EXTENDS LockQueue

CONSTANTS x, y
================================================================================
