--------------------------- MODULE MCToolSearch ---------------------------
(* A small instance of ToolSearch for TLC. *)
EXTENDS ToolSearch
=============================================================================
