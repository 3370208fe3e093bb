--------------------------- MODULE MCDiscoverPane ---------------------------
(* A small instance of DiscoverPane for TLC. *)
EXTENDS DiscoverPane
=============================================================================
