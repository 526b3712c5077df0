----------------------------- MODULE MCProtocol -----------------------------
(* Protocol on a small instance: the first command of the one channel and   *)
(* the second of the other fall into the same bucket.                       *)
EXTENDS Protocol, TLC

CONSTANTS c1, c2

Base == (c1 :> 0) @@ (c2 :> 1)
Symmetry == Permutations(Cmds)
=============================================================================
