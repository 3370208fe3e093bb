--------------------------- MODULE MCOAuthSignIn ---------------------------
(* A small instance of OAuthSignIn for TLC. *)
EXTENDS OAuthSignIn, TLC

Servers == Permutations(Name)     \* their names do not matter
=============================================================================
