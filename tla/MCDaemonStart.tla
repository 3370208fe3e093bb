---------------------------- MODULE MCDaemonStart ----------------------------
(* A small instance of DaemonStart for TLC: hosts of one release. *)
EXTENDS DaemonStart

MCVersion == [s \in Shim |-> 2]
=============================================================================
