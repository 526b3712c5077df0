--------------------------- MODULE MCOutputQueue ---------------------------
(* OutputQueue on a small instance.                                         *)
EXTENDS OutputQueue
============================================================================
