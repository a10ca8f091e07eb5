----------------------------- MODULE MCShutdown -----------------------------
(* Shutdown on small instances.                                             *)
EXTENDS Shutdown

CONSTANTS q1, q2
=============================================================================
