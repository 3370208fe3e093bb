----------------------------- MODULE MCRecords -----------------------------
(* A small instance of Records for TLC. *)
EXTENDS Records, TLC

\* Actions differ in nothing but being asked for; the run checks invariants only.
Symmetry == Permutations(Action)
=============================================================================
