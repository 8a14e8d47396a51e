------------------------------- MODULE MCAof -------------------------------
(* Small instances of Aof for TLC. *)
EXTENDS Aof, TLC

CONSTANTS c1, c2, r1, r2, k1, k2
TwoConns == {c1, c2}
TwoJobs == {r1, r2}
OneJob == {r1}
K1 == {k1}
K2 == {k1, k2}
\* Each connection writes a key of its own, or both write one.
Private == {<<c1, k1>>, <<c2, k2>>}
Shared == {<<c1, k1>>, <<c2, k1>>}
Anything == {"append", "walk", "rename", "reopen", "final"}
SyncOnly == {"sync"}
Jobs == Permutations(TwoJobs)
=============================================================================
