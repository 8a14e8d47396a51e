-------------------------------- MODULE Scan --------------------------------
(***************************************************************************)
(* ShardedStore::scan of src/store.rs, one entry a step, and the iteration  *)
(* a client makes with it: it begins with some cursor, 0 for the whole      *)
(* store, and sends the cursor it gets back until that is 0.                *)
(*                                                                          *)
(* A shard is the sequence of its entries in the order in which DashMap     *)
(* iterates over it; an entry is "match" (live, and matches the pattern),   *)
(* "other" (live, does not match) or "expired".  Nothing is written between *)
(* the calls: an insertion or a removal shifts the positions.               *)
(***************************************************************************)
EXTENDS Integers, Sequences, Functions

CONSTANTS
    CursorBase,   \* 1_000_000_000 in the code
    MinCount,     \* COUNT is clamped to MinCount..MaxCount (10 and 1000 in the code)
    MaxCount,
    Stores,       \* contents of the shards
    Hints,        \* values of COUNT
    Cursors       \* cursors an iteration begins with

\* A shard of more than CursorBase entries would not fit the encoding of the cursor.
ASSUME ScanAssumption ==
    /\ CursorBase \in Nat \ {0} /\ MinCount \in Nat \ {0} /\ MaxCount \in Nat /\ MinCount <= MaxCount
    /\ Stores \subseteq Seq(Seq({"match", "other", "expired"}))
    /\ \A st \in Stores : \A i \in 1..Len(st) : Len(st[i]) <= CursorBase
    /\ Hints \subseteq Nat /\ Cursors \subseteq Nat

VARIABLES
    shards,
    start,              \* the cursor the iteration began with
    cursor,             \* the cursor the client has
    phase,              \* "client": between two calls; "scan": in a call; "done"
    asked, count,       \* cursor and clamped COUNT of the call
    shard, position,    \* current_shard, current_position
    checked, found,     \* keys_checked, result.len()
    returned,           \* every key put in a result so far, as <<shard, position>>
    stops               \* history: the entries at which a full call stopped

scanVars == <<shards, start, cursor, phase, asked, count, shard, position, checked, found, returned, stops>>

ScanStart(st, c) ==
    /\ shards = st /\ start = c /\ cursor = c /\ phase = "client"
    /\ asked = c /\ count = 0 /\ shard = 0 /\ position = 0 /\ checked = 0 /\ found = 0
    /\ returned = <<>> /\ stops = {}

ScanInit == \E st \in Stores, c \in Cursors : ScanStart(st, c)

\* COUNT, clamped.
Clamp(hint) == IF hint < MinCount THEN MinCount ELSE IF hint > MaxCount THEN MaxCount ELSE hint

\* Mutant of Resume: the same position is handed out again although it was consumed.
ResumeBefore(s, pos) == s * CursorBase + (IF pos = 0 THEN 0 ELSE pos - 1)

\* The cursor handed out by a call that stopped at entry pos of shard s (both from 0).
Resume(s, pos) ==
    IF pos + 1 < Len(shards[s + 1]) THEN s * CursorBase + pos + 1
    ELSE IF s + 1 < Len(shards) THEN (s + 1) * CursorBase
    ELSE 0

\* The call returns the cursor c.
Return(c) == cursor' = c /\ phase' = (IF c = 0 THEN "done" ELSE "client")

BeginCall(hint) ==
    /\ phase = "client"
    /\ asked' = cursor /\ count' = Clamp(hint) /\ checked' = 0 /\ found' = 0
    /\ shard' = cursor \div CursorBase /\ position' = cursor % CursorBase
    /\ IF cursor \div CursorBase >= Len(shards) THEN Return(0) ELSE phase' = "scan" /\ cursor' = cursor
    /\ UNCHANGED <<shards, start, returned, stops>>

InShard == phase = "scan" /\ shard < Len(shards) /\ position < Len(shards[shard + 1])
Full == found >= count \/ checked >= count * 3

StopFull ==
    /\ InShard /\ Full
    /\ Return(Resume(shard, position)) /\ stops' = stops \cup {<<shard, position>>}
    /\ UNCHANGED <<shards, start, asked, count, shard, position, checked, found, returned>>

LookAt ==
    /\ InShard /\ ~Full
    /\ checked' = checked + 1 /\ position' = position + 1
    /\ IF shards[shard + 1][position + 1] = "match"
       THEN found' = found + 1 /\ returned' = Append(returned, <<shard, position>>)
       ELSE UNCHANGED <<found, returned>>
    /\ UNCHANGED <<shards, start, cursor, phase, asked, count, shard, stops>>

NextShard ==
    /\ phase = "scan" /\ shard < Len(shards) /\ position >= Len(shards[shard + 1])
    /\ shard' = shard + 1 /\ position' = 0
    /\ UNCHANGED <<shards, start, cursor, phase, asked, count, checked, found, returned, stops>>

Exhausted ==
    /\ phase = "scan" /\ shard >= Len(shards)
    /\ Return(0)
    /\ UNCHANGED <<shards, start, asked, count, shard, position, checked, found, returned, stops>>

ScanNext == (\E n \in Hints : BeginCall(n)) \/ StopFull \/ LookAt \/ NextShard \/ Exhausted

ScanSpec == ScanInit /\ [][ScanNext]_scanVars

----------------------------------------------------------------------------

\* Where an entry is, as a cursor.
Place(e) == e[1] * CursorBase + e[2]

\* The live keys that match the pattern.
Matching ==
    {e \in (0..Len(shards) - 1) \X (0..CursorBase - 1) :
        e[2] < Len(shards[e[1] + 1]) /\ shards[e[1] + 1][e[2] + 1] = "match"}

\* An iteration of SCAN over a store that nobody changes, with any COUNT in each call,
\* returns only live matching keys behind the cursor it began with, and none of them twice.
\* When it ends it has returned every one of them, except perhaps keys at which a full call
\* stopped: the cursor of a full call points behind an entry that it did not look at, where
\* docs/EXAMPLES.md:501 has it "Safely scan all keys".  It does end: the cursor handed out
\* is greater than the one it was asked with, and inside the store.
ScanExact ==
    LET due == {e \in Matching : start <= Place(e)}
    IN /\ IsInjective(returned) /\ Range(returned) \subseteq due
       /\ phase = "done" => due \ stops \subseteq Range(returned)
       /\ phase = "client" /\ stops # {} => asked < cursor /\ cursor < Len(shards) * CursorBase
=============================================================================
