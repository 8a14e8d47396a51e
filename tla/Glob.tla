-------------------------------- MODULE Glob --------------------------------
(***************************************************************************)
(* matches_pattern of src/store.rs, the glob of SCAN MATCH: a loop with one *)
(* remembered star, one round per step.  Glob is what a pattern means; the  *)
(* loop is to agree.  A byte is a value; Star and One are the bytes * and   *)
(* ?, which a key may contain too.                                          *)
(***************************************************************************)
EXTENDS Integers, Sequences

CONSTANTS
    Alphabet, Star, One,
    GlobKeys, GlobPatterns   \* the keys and the patterns of SCAN MATCH

ASSUME GlobAssumption == GlobKeys \subseteq Seq(Alphabet) /\ GlobPatterns \subseteq Seq(Alphabet)

VARIABLES
    key, pattern,       \* the arguments
    key_idx, pat_idx,   \* the next byte of each
    star_pos,           \* where the last star was; 0: none yet
    key_backup,         \* the byte of the key at which that star was last tried
    verdict             \* "open", "match" or "differ"

globInput == <<key, pattern>>
globVars == <<key, pattern, key_idx, pat_idx, star_pos, key_backup, verdict>>

GlobStart(k, p) ==
    /\ key = k /\ pattern = p
    /\ key_idx = 1 /\ pat_idx = 1
    /\ star_pos = 0 /\ key_backup = 0
    /\ verdict = "open"

GlobInit == \E k \in GlobKeys, p \in GlobPatterns : GlobStart(k, p)

AtStar == pat_idx <= Len(pattern) /\ pattern[pat_idx] = Star
AtByte == pat_idx <= Len(pattern) /\ pattern[pat_idx] \in {One, key[key_idx]}

\* A round of the loop over the key.
InKey == verdict = "open" /\ key_idx <= Len(key)

MeetStar ==
    /\ InKey /\ AtStar
    /\ star_pos' = pat_idx /\ key_backup' = key_idx /\ pat_idx' = pat_idx + 1
    /\ UNCHANGED <<globInput, key_idx, verdict>>

MeetByte ==
    /\ InKey /\ ~AtStar /\ AtByte
    /\ key_idx' = key_idx + 1 /\ pat_idx' = pat_idx + 1
    /\ UNCHANGED <<globInput, star_pos, key_backup, verdict>>

\* Mutant of Retry: the key is not wound back to where the star was tried.
RetryForward ==
    /\ InKey /\ ~AtStar /\ ~AtByte /\ star_pos # 0
    /\ pat_idx' = star_pos + 1 /\ key_backup' = key_backup + 1 /\ key_idx' = key_idx + 1
    /\ UNCHANGED <<globInput, star_pos, verdict>>

\* Back to the last star, which takes one more byte of the key.
Retry ==
    /\ InKey /\ ~AtStar /\ ~AtByte /\ star_pos # 0
    /\ pat_idx' = star_pos + 1 /\ key_backup' = key_backup + 1 /\ key_idx' = key_backup + 1
    /\ UNCHANGED <<globInput, star_pos, verdict>>

GiveUp ==
    /\ InKey /\ ~AtStar /\ ~AtByte /\ star_pos = 0
    /\ verdict' = "differ"
    /\ UNCHANGED <<globInput, key_idx, pat_idx, star_pos, key_backup>>

\* The key is used up: trailing stars stand for nothing, and then the pattern has to end.
SkipStar ==
    /\ verdict = "open" /\ key_idx > Len(key) /\ AtStar
    /\ pat_idx' = pat_idx + 1
    /\ UNCHANGED <<globInput, key_idx, star_pos, key_backup, verdict>>

Conclude ==
    /\ verdict = "open" /\ key_idx > Len(key) /\ ~AtStar
    /\ verdict' = IF pat_idx = Len(pattern) + 1 THEN "match" ELSE "differ"
    /\ UNCHANGED <<globInput, key_idx, pat_idx, star_pos, key_backup>>

GlobNext == MeetStar \/ MeetByte \/ Retry \/ GiveUp \/ SkipStar \/ Conclude

GlobSpec == GlobInit /\ [][GlobNext]_globVars

----------------------------------------------------------------------------

\* f lays the pattern from its byte j on along the key from its byte i on: f[x] is the
\* first byte of the key that byte x of the pattern stands for.  A star stands for any
\* run of bytes, One for one byte, and any other byte for itself.
Lays(f, k, p, i, j) ==
    /\ f[j] = i /\ f[Len(p) + 1] = Len(k) + 1
    /\ \A x, y \in j..Len(p) + 1 : x <= y => f[x] <= f[y]
    /\ \A x \in j..Len(p) :
         p[x] # Star => f[x] <= Len(k) /\ f[x + 1] = f[x] + 1 /\ p[x] \in {One, k[f[x]]}

Matches(k, p, i, j) == \E f \in [j..Len(p) + 1 -> i..Len(k) + 1] : Lays(f, k, p, i, j)

\* What a pattern means.
Glob(k, p) == Matches(k, p, 1, 1)

\* The loop of matches_pattern, which remembers one star only, decides exactly what the
\* pattern means: no retry is missed when stars follow one another or the key itself
\* contains * and ?.
GlobExact == verdict # "open" => (verdict = "match" <=> Glob(key, pattern))

\* matches_pattern ends on every input: a round that does not decide moves the last star
\* forward, or the byte at which it is tried, or the place in the pattern, in this order
\* of weight, and all of them are bounded by the lengths of the arguments.
GlobAdvances ==
    [][/\ star_pos' \in 0..Len(pattern) /\ key_backup' \in 0..Len(key) + 1 /\ pat_idx' \in 1..Len(pattern) + 1
       /\ \/ verdict' # "open"
          \/ star_pos' > star_pos
          \/ star_pos' = star_pos /\ key_backup' > key_backup
          \/ star_pos' = star_pos /\ key_backup' = key_backup /\ pat_idx' > pat_idx]_globVars
=============================================================================
