----------------------------- MODULE MCAsyncReq -----------------------------
(* AsyncReq on a small instance; workers, channels and background requests  *)
(* are interchangeable.                                                     *)
EXTENDS AsyncReq, TLC

TheObjs == {"async", "channel"}
Symmetry == Permutations(Workers) \cup Permutations(Chans) \cup Permutations(BgReqs)
=============================================================================
