---------------------------- MODULE MCHashKeys ----------------------------
(* A small instance of HashKeys for TLC. *)
EXTENDS HashKeys, TLC

CONSTANTS c1, c2, c3, f1, f2, o1, o2, o3
MCConns == {c1, c2, c3}
MCFields == {f1, f2}
MCObjs == {o1, o2, o3}
Symmetry == Permutations(MCConns) \cup Permutations(MCFields) \cup Permutations(MCObjs)
=============================================================================
