----------------------------- MODULE MCKeyspace -----------------------------
(* Small instances of Keyspace for TLC: who sends what, per run. *)
EXTENDS Keyspace, TLC

CONSTANTS c1, c2, x, k1, k2, k3
Two == {c1, c2}
K1 == {k1}
K3 == {k1, k2, k3}

Cmd(name, args) == [name |-> name, args |-> args, ttl |-> 0, px |-> 0, cond |-> "", delta |-> 0]
Set(k, v) == Cmd("SET", <<<<k, v>>>>)
SetEx(k, v, t) == [Set(k, v) EXCEPT !.ttl = t]
SetPx(k, v, ms) == [Set(k, v) EXCEPT !.px = ms]
SetIf(k, v, c) == [Set(k, v) EXCEPT !.cond = c]
Get(k) == Cmd("GET", <<<<k, 0>>>>)
Del(k) == Cmd("DEL", <<<<k, 0>>>>)
Incr(k, d) == [Cmd("INCR", <<<<k, 0>>>>) EXCEPT !.delta = d]
Expire(k, t) == [Cmd("EXPIRE", <<<<k, 0>>>>) EXCEPT !.ttl = t]
Persist(k) == Cmd("PERSIST", <<<<k, 0>>>>)
Flush == Cmd("FLUSH", <<>>)

\* Every command, on one key.
AllCommands == {SetEx(k1, Text, 1), SetPx(k1, Text, 1), SetPx(k1, Text, 1000), Get(k1), Del(k1),
                Expire(k1, 1), Expire(k1, 0), Persist(k1), Incr(k1, 1), Incr(k1, -2),
                Cmd("MSET", <<<<k1, Text>>, <<k1, 1>>>>), Flush}
\* SETs of three keys against the limit, with and without conditions, expiry and DEL.
LimitCommands == {Set(k1, Text), SetEx(k2, Text, 1), Set(k3, 1), SetIf(k3, Text, "NX"), SetIf(k1, 1, "XX"),
                  SetIf(k2, 1, "bad"),
                  Get(k2), Cmd("DEL", <<<<k1, 0>>, <<k2, 0>>>>)}
IncrOnly == {Incr(k1, 1)}

Symmetry2 == Permutations(Two)
=============================================================================
