---------------------------- MODULE MCAlgorithms ----------------------------
(* The bounded inputs of Algorithms. *)
EXTENDS Algorithms

CONSTANTS ka, kb

SeqsTo(S, n) == UNION {[1..i -> S] : i \in 0..n}

MCAlphabet == {ka, kb, Star, One}
MCGlobKeys == SeqsTo({ka, kb, Star}, 4)
MCGlobPatterns == SeqsTo(MCAlphabet, 4)

\* Two shards, COUNT 1 or 2, 3 or 6 entries looked at: a call can stop in a shard, at its
\* last entry and at its boundary, because it is full and because it has looked long enough.
MCStores == SeqsTo({"match", "other"}, 4) \X SeqsTo({"match", "expired"}, 3)

\* Arguments that look like framing; one of ten bytes, for a length of two digits.
Payloads == {<<>>, <<CR, LF>>, <<DOLLAR, 49>>, <<STAR>>}
Long == <<CR, LF, DOLLAR, 49, CR, LF, STAR, 49, CR, LF>>
MCCommands == {<<p, q>> : p, q \in Payloads} \cup {<<>>, <<<<CR, LF>>>>, <<Long>>}
MCDigitStrings == {<<48>>, <<49>>, <<50>>, <<49, 48>>}

MCNumerals == SeqsTo({MINUS, 48, 49, 50, 55, 56, CR}, 4)

MCRequests == {Request("SET", 1, 0), Request("SET", -2, 2), Request("INCRBY", 1, 0), Request("DEL", 0, 0),
               Request("EXPIRE", 0, 1), Request("EXPIRE", 0, 0), Request("PERSIST", 0, 0)}
=============================================================================
