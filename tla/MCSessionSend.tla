---------------------------- MODULE MCSessionSend ----------------------------
(* A small instance of SessionSend. *)
EXTENDS SessionSend
==============================================================================
