-------------------------- MODULE MC_TelemetrySender --------------------------
(* The numbers of the .cfg files: a deque longer than a batch, and enough      *)
(* messages to fill it while a batch is out and to go on while it is put back. *)
EXTENDS TelemetrySender
=============================================================================
