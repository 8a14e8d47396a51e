------------------------------ MODULE MCServer ------------------------------
(* Two connections, one of which reaches the limit: one that talks and one that says little. *)
EXTENDS Server

CONSTANTS c1, c2
Two == {c1, c2}
Halves == [c \in Two |-> IF c = c1 THEN 3 ELSE 0]
=============================================================================
