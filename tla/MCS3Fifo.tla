------------------------------ MODULE MCS3Fifo ------------------------------
(* A shard whose main queue holds fewer keys than there are, shared by two connections. *)
EXTENDS S3Fifo, TLC

CONSTANTS t1, t2, k1, k2
Two == {t1, t2}
K2 == {k1, k2}
Symmetry == Permutations(Threads) \cup Permutations(Keys)
=============================================================================
