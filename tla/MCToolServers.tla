---------------------------- MODULE MCToolServers ----------------------------
(* Starts of an org with a bootstrapped and a remote server, and of others that *)
(* have the first one alone, for TLC.                                           *)
EXTENDS ToolServers, TLC

CONSTANTS c1, c2, c3, github, remote

MCSpecsOf == [c \in Starts |-> IF c = c1 THEN <<github, remote>> ELSE <<github>>]
==============================================================================
