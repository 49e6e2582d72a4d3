------------------------------ MODULE MCRecvBuffer ------------------------------
(* Small receive buffers of RecvBuffer. *)
EXTENDS RecvBuffer
================================================================================
