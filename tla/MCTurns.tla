---- MODULE MCTurns ----
(***************************************************************************)
(* Small instances of Turns for TLC.                                       *)
(***************************************************************************)
EXTENDS Turns, TLC

CONSTANTS t1, t2, t3, u1, web

Symmetry == Permutations(Turns)
====
