----------------------------- MODULE MCSnapshot -----------------------------
(* Small instances of Snapshot for TLC. *)
EXTENDS Snapshot, TLC

CONSTANTS t1, t2, k1, k2
MCThreads == {t1, t2}
MCKeys1 == {k1}
MCKeys2 == {k1, k2}

\* The slots are interchangeable, and so are the keys.
Symmetry2 == Permutations(MCThreads) \cup Permutations(MCKeys2)
=============================================================================
