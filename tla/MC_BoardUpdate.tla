---------------------------- MODULE MC_BoardUpdate ---------------------------
(* Two threads of the server, and one merge. *)
EXTENDS BoardUpdate

CONSTANTS t1, t2
TwoThreads == {t1, t2}
=============================================================================
