--------------------------- MODULE MCParkedCalls ---------------------------
(* A small instance of ParkedCalls for TLC. *)
EXTENDS ParkedCalls
=============================================================================
