--------------------------- MODULE MCRunControl ----------------------------
(* RunControl on a small instance. *)
EXTENDS RunControl
=============================================================================
