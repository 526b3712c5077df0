------------------------------ MODULE MCCache ------------------------------
(* Cache on a small instance: two clients of one channel and one client     *)
(* without a channel.                                                       *)
EXTENDS Cache, TLC

CONSTANTS c1, c2, c3, ch1

ChannelOfClient == (c1 :> ch1) @@ (c2 :> ch1) @@ (c3 :> NULL)
============================================================================
