------------------------------ MODULE MCLockStack ------------------------------
(* A small instance of FixedLockStack: more items than slots, so that a push *)
(* finds the array full, and an index that wraps soon after.                 *)
EXTENDS FixedLockStack
================================================================================
