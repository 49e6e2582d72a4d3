--------------------------- MODULE MCSerialGenerator ---------------------------
(* Small instances of SerialGenerator: two servers with two threads each. *)
EXTENDS SerialGenerator
================================================================================
