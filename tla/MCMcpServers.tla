---- MODULE MCMcpServers ----
(***************************************************************************)
(* Small instances of McpServers for TLC.                                  *)
(***************************************************************************)
EXTENDS McpServers, TLC

CONSTANTS s1, s2, a1, a2

Symmetry == Permutations(Servers) \cup Permutations(Addresses)
====
