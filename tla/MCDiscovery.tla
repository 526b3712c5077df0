---------------------------- MODULE MCDiscovery -----------------------------
(* Discovery with agents on two hosts and one fault, and with two agents on *)
(* one host and two faults in combination.                                  *)
EXTENDS Discovery

TheHosts == <<1, 1, 2>>
TheScenarios == {[agents |-> {1, 2, 3}, faults |-> 1], [agents |-> {1, 2}, faults |-> 2]}
=============================================================================
