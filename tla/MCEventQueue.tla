---------------------------- MODULE MCEventQueue ----------------------------
(* EventQueue on a small instance: two handlers, two background threads and *)
(* three nodes.  No symmetry, as liveness is checked.                       *)
EXTENDS EventQueue
=============================================================================
