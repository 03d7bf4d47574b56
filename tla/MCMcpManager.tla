---------------------------- MODULE MCMcpManager ----------------------------
(* An instance of McpManager for TLC. *)
EXTENDS McpManager

CONSTANTS s1, s2, c1, c2, c3, l1

TwoServers   == {s1, s2}
ThreeClients == {c1, c2, c3}
OneLister    == {l1}
=============================================================================
