------------------------- MODULE MCServerLifecycle -------------------------
(* A small instance of ServerLifecycle for TLC. *)
EXTENDS ServerLifecycle

\* Every install, enable and uninstall is answered, also those that joined an index
\* job they did not start (lifecycle.ts reindex).  Nothing tells two handlers apart,
\* so that one speaks for all.
RequestsAnswered == Answered(CHOOSE c \in Client : TRUE)
=============================================================================
