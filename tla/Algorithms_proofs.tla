-------------------------- MODULE Algorithms_proofs --------------------------
(***************************************************************************)
(* Proofs about glob matching, recovery and SCAN, for inputs of any length. *)
(* An algorithm is a loop, and its induction is the one over its rounds.    *)
(***************************************************************************)
EXTENDS Glob, Recovery, Scan, SequenceTheorems, WellFoundedInduction, TLAPS

LEMMA LeastNat ==
    ASSUME NEW T \in SUBSET Nat, T # {}
    PROVE  \E x \in T : \A y \in T : x <= y
<1>1. PICK x \in T : \A y \in T : ~(<<y, x>> \in OpToRel(<, Nat))
  BY WFMin, NatLessThanWellFounded, Zenon
<1>2. \A y \in T : ~(y < x)
  BY <1>1, Zenon DEF OpToRel
<1> QED BY <1>2

----------------------------------------------------------------------------
(* What a pattern means. *)

NoStar(p, j, h) == \A x \in j..h - 1 : p[x] # Star

\* A part of the pattern without stars takes one byte of the key for each of its own.
LEMMA RunAdvances ==
    ASSUME NEW k, NEW p, Len(k) \in Nat, Len(p) \in Nat, NEW i \in 1..Len(k) + 1, NEW j \in 1..Len(p) + 1,
           NEW f \in [j..Len(p) + 1 -> i..Len(k) + 1], Lays(f, k, p, i, j),
           NEW h \in j..Len(p) + 1, NoStar(p, j, h)
    PROVE  \A x \in j..h : f[x] = i + (x - j)
<1> DEFINE T == {x \in Nat : x \in j..h /\ f[x] # i + (x - j)}
<1>0. j..h \subseteq Nat
  OBVIOUS
<1> SUFFICES ASSUME T # {} PROVE FALSE
  BY <1>0, Zenon
<1>1. PICK x \in T : \A y \in T : x <= y
  BY LeastNat, Zenon
<1>2. f[j] = i
  BY Zenon DEF Lays
<1>3. CASE x = j
  BY <1>1, <1>2, <1>3
<1>4. CASE x # j
  <2>1. x - 1 \in j..h - 1 /\ x - 1 \in j..h /\ x - 1 \in j..Len(p) /\ x - 1 \in Nat /\ ~(x <= x - 1) /\ (x - 1) + 1 = x
    BY <1>1, <1>4
  <2>2. f[x - 1] = i + ((x - 1) - j)
    BY <1>1, <2>1, Zenon
  <2>3. f[(x - 1) + 1] = f[x - 1] + 1
    BY <2>1, Zenon DEF Lays, NoStar
  <2>4. f[x] = i + (x - j)
    BY <1>1, <2>1, <2>2, <2>3
  <2> QED BY <1>1, <2>4
<1> QED BY <1>3, <1>4

\* The rest of a match is a match.
LEMMA MatchesRest ==
    ASSUME NEW k, NEW p, Len(k) \in Nat, Len(p) \in Nat, NEW i \in 1..Len(k) + 1, NEW j \in 1..Len(p) + 1,
           NEW f \in [j..Len(p) + 1 -> i..Len(k) + 1], Lays(f, k, p, i, j),
           NEW h \in j..Len(p) + 1
    PROVE  f[h] \in i..Len(k) + 1 /\ Matches(k, p, f[h], h)
<1> DEFINE g == [x \in h..Len(p) + 1 |-> f[x]]
<1>1. f[h] \in i..Len(k) + 1 /\ h \in 1..Len(p) + 1
  OBVIOUS
<1>2. \A x \in h..Len(p) + 1 : x \in j..Len(p) + 1
  OBVIOUS
<1>3. \A x \in h..Len(p) + 1 : f[x] \in f[h]..Len(k) + 1
  <2> SUFFICES ASSUME NEW x \in h..Len(p) + 1 PROVE f[x] \in f[h]..Len(k) + 1
    OBVIOUS
  <2>1. h <= x /\ x \in j..Len(p) + 1 /\ f[x] \in i..Len(k) + 1
    BY <1>2
  <2>2. f[h] <= f[x]
    BY <2>1, Zenon DEF Lays
  <2> QED BY <1>1, <2>1, <2>2
<1>4. g \in [h..Len(p) + 1 -> f[h]..Len(k) + 1]
  BY <1>3, Zenon
<1>5. \A x \in h..Len(p) : x \in j..Len(p) /\ x \in h..Len(p) + 1 /\ x + 1 \in h..Len(p) + 1
  OBVIOUS
<1>6. h \in h..Len(p) + 1 /\ Len(p) + 1 \in h..Len(p) + 1
  OBVIOUS
<1>7. Lays(g, k, p, f[h], h)
  BY <1>2, <1>5, <1>6, Zenon DEF Lays
<1> QED BY <1>1, <1>4, <1>7, Zenon DEF Matches

\* Bytes that fit one by one can be put before a match.
LEMMA RunMatches ==
    ASSUME NEW k, NEW p, Len(k) \in Nat, Len(p) \in Nat, NEW i \in 1..Len(k) + 1, NEW j \in 1..Len(p) + 1,
           NEW h \in j..Len(p) + 1, i + (h - j) <= Len(k) + 1,
           \A x \in j..h - 1 : p[x] # Star /\ p[x] \in {One, k[i + (x - j)]},
           Matches(k, p, i + (h - j), h)
    PROVE  Matches(k, p, i, j)
<1>1. PICK f \in [h..Len(p) + 1 -> i + (h - j)..Len(k) + 1] : Lays(f, k, p, i + (h - j), h)
  BY Zenon DEF Matches
<1> DEFINE g == [x \in j..Len(p) + 1 |-> IF x < h THEN i + (x - j) ELSE f[x]]
<1>2. \A x \in h..Len(p) + 1 : f[x] \in i + (h - j)..Len(k) + 1
  BY <1>1, SMTT(30)
<1>3. ASSUME NEW x \in j..Len(p) + 1, x < h PROVE g[x] = i + (x - j) /\ x \in j..h - 1
  BY <1>3
<1>4. ASSUME NEW x \in h..Len(p) + 1 PROVE g[x] = f[x] /\ x \in j..Len(p) + 1
  OBVIOUS
<1>5. f[h] = i + (h - j) /\ f[Len(p) + 1] = Len(k) + 1 /\ h \in h..Len(p) + 1 /\ Len(p) + 1 \in h..Len(p) + 1
  <2>1. h \in h..Len(p) + 1 /\ Len(p) + 1 \in h..Len(p) + 1
    OBVIOUS
  <2> QED BY <1>1, <2>1, Zenon DEF Lays
<1>6. g \in [j..Len(p) + 1 -> i..Len(k) + 1]
  <2> SUFFICES ASSUME NEW x \in j..Len(p) + 1 PROVE (IF x < h THEN i + (x - j) ELSE f[x]) \in i..Len(k) + 1
    OBVIOUS
  <2>1. CASE x < h
    BY <2>1
  <2>2. CASE ~(x < h)
    <3>1. x \in h..Len(p) + 1
      BY <2>2
    <3>2. f[x] \in i + (h - j)..Len(k) + 1
      BY <1>2, <3>1, Zenon
    <3> QED BY <2>2, <3>2
  <2> QED BY <2>1, <2>2
<1> HIDE DEF g
<1>7. g[j] = i /\ g[Len(p) + 1] = Len(k) + 1
  <2>1. j \in j..Len(p) + 1
    OBVIOUS
  <2>2. CASE j < h
    BY <1>3, <1>4, <1>5, <2>1, <2>2
  <2>3. CASE j = h
    BY <1>4, <1>5, <2>1, <2>3
  <2> QED BY <2>2, <2>3
<1>8. ASSUME NEW x \in j..Len(p) + 1, NEW y \in j..Len(p) + 1, x <= y PROVE g[x] <= g[y]
  <2>1. CASE y < h
    <3>1. x < h
      BY <1>8, <2>1
    <3>2. g[x] = i + (x - j) /\ g[y] = i + (y - j)
      BY <1>3, <2>1, <3>1, Zenon
    <3> QED BY <1>8, <3>2
  <2>2. CASE x < h /\ ~(y < h)
    <3>1. y \in h..Len(p) + 1
      BY <2>2
    <3>2. g[y] \in i + (h - j)..Len(k) + 1
      BY <1>2, <1>4, <3>1, SMTT(30)
    <3> QED BY <1>3, <2>2, <3>2, SMTT(30)
  <2>3. CASE ~(x < h)
    <3>1. x \in h..Len(p) + 1 /\ y \in h..Len(p) + 1
      BY <1>8, <2>3
    <3> QED BY <1>1, <1>4, <1>8, <3>1, Zenon DEF Lays
  <2> QED BY <2>1, <2>2, <2>3
<1>9. ASSUME NEW x \in j..Len(p), p[x] # Star
      PROVE  g[x] <= Len(k) /\ g[x + 1] = g[x] + 1 /\ p[x] \in {One, k[g[x]]}
  <2>1. CASE x < h
    <3>1. g[x] = i + (x - j) /\ x \in j..h - 1
      BY <1>3, <2>1
    <3>2. g[x + 1] = i + ((x + 1) - j)
      <4>1. CASE x + 1 < h
        <5>1. x + 1 \in j..Len(p) + 1
          OBVIOUS
        <5> QED BY <1>3, <4>1, <5>1
      <4>2. CASE x + 1 = h
        BY <1>4, <1>5, <4>2, Zenon
      <4> QED BY <2>1, <4>1, <4>2
    <3>3. p[x] \in {One, k[g[x]]}
      BY <3>1, Zenon
    <3>4. i + (x - j) <= Len(k) /\ i + ((x + 1) - j) = (i + (x - j)) + 1
      BY <2>1, SMTT(30)
    <3> QED BY <3>1, <3>2, <3>3, <3>4, Zenon
  <2>2. CASE ~(x < h)
    <3>1. x \in h..Len(p) /\ x \in h..Len(p) + 1 /\ x + 1 \in h..Len(p) + 1
      BY <2>2
    <3>2. f[x] <= Len(k) /\ f[x + 1] = f[x] + 1 /\ p[x] \in {One, k[f[x]]}
      BY <1>1, <1>9, <3>1, Zenon DEF Lays
    <3> QED BY <1>4, <3>1, <3>2, SMTT(30)
  <2> QED BY <2>1, <2>2
<1>10. Lays(g, k, p, i, j)
  BY <1>7, <1>8, <1>9, Zenon DEF Lays
<1> QED BY <1>6, <1>10, Zenon DEF Matches

\* A match passes a part without stars.
LEMMA MatchesRun ==
    ASSUME NEW k, NEW p, Len(k) \in Nat, Len(p) \in Nat, NEW i \in 1..Len(k) + 1, NEW j \in 1..Len(p) + 1,
           NEW h \in j..Len(p) + 1, NoStar(p, j, h),
           Matches(k, p, i, j)
    PROVE  i + (h - j) <= Len(k) + 1 /\ Matches(k, p, i + (h - j), h)
<1>1. PICK f \in [j..Len(p) + 1 -> i..Len(k) + 1] : Lays(f, k, p, i, j)
  BY Zenon DEF Matches
<1>2. h \in j..h
  OBVIOUS
<1>3. f[h] = i + (h - j)
  <2>1. \A x \in j..h : f[x] = i + (x - j)
    BY <1>1, RunAdvances
  <2> QED BY <1>2, <2>1, Zenon
<1>4. f[h] \in i..Len(k) + 1 /\ Matches(k, p, f[h], h)
  BY <1>1, MatchesRest, Zenon
<1> QED BY <1>3, <1>4

\* A star stands for any run of bytes.
LEMMA StarMatches ==
    ASSUME NEW k, NEW p, Len(k) \in Nat, Len(p) \in Nat, NEW i \in 1..Len(k) + 1, NEW j \in 1..Len(p),
           p[j] = Star
    PROVE  Matches(k, p, i, j) <=> \E t \in i..Len(k) + 1 : Matches(k, p, t, j + 1)
<1>0. j \in 1..Len(p) + 1 /\ j + 1 \in 1..Len(p) + 1 /\ j + 1 \in j..Len(p) + 1
  OBVIOUS
<1>1. ASSUME Matches(k, p, i, j) PROVE \E t \in i..Len(k) + 1 : Matches(k, p, t, j + 1)
  <2>1. PICK f \in [j..Len(p) + 1 -> i..Len(k) + 1] : Lays(f, k, p, i, j)
    BY <1>1, Zenon DEF Matches
  <2> QED BY <1>0, <2>1, MatchesRest, Zenon
<1>2. ASSUME NEW t \in i..Len(k) + 1, Matches(k, p, t, j + 1) PROVE Matches(k, p, i, j)
  <2>1. PICK f \in [j + 1..Len(p) + 1 -> t..Len(k) + 1] : Lays(f, k, p, t, j + 1)
    BY <1>2, Zenon DEF Matches
  <2> DEFINE g == [x \in j..Len(p) + 1 |-> IF x = j THEN i ELSE f[x]]
  <2>2. \A x \in j..Len(p) + 1 : x # j => x \in j + 1..Len(p) + 1
    OBVIOUS
  <2>3. \A x \in j + 1..Len(p) + 1 : x # j /\ x \in j..Len(p) + 1 /\ f[x] \in t..Len(k) + 1
    BY <2>1
  <2>4. \A x \in j + 1..Len(p) + 1 : g[x] = f[x]
    BY <2>3, Zenon
  <2>5. j \in j..Len(p) + 1 /\ g[j] = i
    OBVIOUS
  <2>6. ASSUME NEW x \in j..Len(p) + 1 PROVE g[x] \in i..Len(k) + 1
    <3>1. CASE x = j
      BY <2>5, <3>1
    <3>2. CASE x # j
      <4>1. g[x] = f[x] /\ f[x] \in t..Len(k) + 1
        BY <2>2, <2>3, <2>4, <3>2, Zenon
      <4> QED BY <4>1
    <3> QED BY <3>1, <3>2
  <2>7. g \in [j..Len(p) + 1 -> i..Len(k) + 1]
    BY <2>6, Zenon
  <2> HIDE DEF g
  <2>8. ASSUME NEW x \in j..Len(p) + 1, NEW y \in j..Len(p) + 1, x <= y PROVE g[x] <= g[y]
    <3>1. CASE x = j
      BY <2>5, <2>6, <3>1
    <3>2. CASE x # j
      <4>1. y # j
        BY <2>8, <3>2
      <4> QED BY <2>1, <2>2, <2>4, <2>8, <3>2, <4>1, Zenon DEF Lays
    <3> QED BY <3>1, <3>2
  <2>9. ASSUME NEW x \in j..Len(p), p[x] # Star
        PROVE  g[x] <= Len(k) /\ g[x + 1] = g[x] + 1 /\ p[x] \in {One, k[g[x]]}
    <3>1. x \in j + 1..Len(p) /\ x \in j + 1..Len(p) + 1 /\ x + 1 \in j + 1..Len(p) + 1
      BY <2>9
    <3> QED BY <2>1, <2>4, <2>9, <3>1, Zenon DEF Lays
  <2>10. g[Len(p) + 1] = Len(k) + 1
    <3>1. Len(p) + 1 \in j + 1..Len(p) + 1
      OBVIOUS
    <3> QED BY <2>1, <2>4, <3>1, Zenon DEF Lays
  <2>11. Lays(g, k, p, i, j)
    BY <2>5, <2>8, <2>9, <2>10, Zenon DEF Lays
  <2> QED BY <2>7, <2>11, Zenon DEF Matches
<1> QED BY <1>1, <1>2, Zenon

\* Where the next byte does not fit, or one of the two ends alone, there is no match.
LEMMA NoMatch ==
    ASSUME NEW k, NEW p, Len(k) \in Nat, Len(p) \in Nat, NEW i \in 1..Len(k) + 1, NEW j \in 1..Len(p) + 1,
           \/ j <= Len(p) /\ p[j] # Star /\ (i > Len(k) \/ p[j] \notin {One, k[i]})
           \/ j > Len(p) /\ i <= Len(k)
    PROVE  ~Matches(k, p, i, j)
<1> SUFFICES ASSUME NEW f \in [j..Len(p) + 1 -> i..Len(k) + 1], Lays(f, k, p, i, j) PROVE FALSE
  BY Zenon DEF Matches
<1>1. f[j] = i /\ f[Len(p) + 1] = Len(k) + 1
  BY Zenon DEF Lays
<1>2. CASE j > Len(p) /\ i <= Len(k)
  <2>1. j = Len(p) + 1 /\ i # Len(k) + 1
    BY <1>2
  <2> QED BY <1>1, <2>1, Zenon
<1>3. CASE j <= Len(p) /\ p[j] # Star /\ (i > Len(k) \/ p[j] \notin {One, k[i]})
  <2>1. j \in j..Len(p)
    BY <1>3
  <2>2. i <= Len(k) /\ p[j] \in {One, k[i]}
    BY <1>1, <1>3, <2>1, Zenon DEF Lays
  <2> QED BY <1>3, <2>2
<1> QED BY <1>2, <1>3

\* Nothing is left of both.
LEMMA BothEnd ==
    ASSUME NEW k, NEW p, Len(k) \in Nat, Len(p) \in Nat
    PROVE  Matches(k, p, Len(k) + 1, Len(p) + 1)
<1> DEFINE j == Len(p) + 1
           f == [x \in j..j |-> Len(k) + 1]
<1>1. f \in [j..j -> Len(k) + 1..Len(k) + 1]
  OBVIOUS
<1>2. f[j] = Len(k) + 1
  OBVIOUS
<1>3. \A x, y \in j..j : f[x] <= f[y]
  OBVIOUS
<1>4. j..Len(p) = {}
  OBVIOUS
<1>5. Lays(f, k, p, Len(k) + 1, j)
  BY <1>2, <1>3, <1>4, Zenon DEF Lays
<1> QED BY <1>1, <1>5, Zenon DEF Matches

----------------------------------------------------------------------------
(* The loop of matches_pattern. *)

GlobTyped ==
    /\ key \in Seq(Alphabet) /\ pattern \in Seq(Alphabet)
    /\ key_idx \in 1..Len(key) + 1 /\ pat_idx \in 1..Len(pattern) + 1
    /\ star_pos \in 0..Len(pattern) /\ star_pos < pat_idx
    /\ key_backup \in 0..Len(key) + 1
    /\ verdict \in {"open", "match", "differ"}

\* The bytes between the last star and the present place fit the key from key_backup on.
Fitting ==
    /\ key_backup >= 1
    /\ key_idx = key_backup + (pat_idx - (star_pos + 1))
    /\ \A x \in star_pos + 1..pat_idx - 1 :
         pattern[x] # Star /\ pattern[x] \in {One, key[key_backup + (x - (star_pos + 1))]}

\* Before the first star there is nothing to choose; after a star, what was in front of it
\* is settled, and the rest has to fit from key_backup on or from a later byte.
Undecided ==
    IF star_pos = 0 THEN Glob(key, pattern) <=> Matches(key, pattern, key_idx, pat_idx)
    ELSE /\ Fitting
         /\ Glob(key, pattern) <=>
              \E t \in key_backup..Len(key) + 1 : Matches(key, pattern, t, star_pos + 1)

GlobInv ==
    /\ GlobTyped
    /\ verdict = "open" /\ key_idx <= Len(key) => Undecided
    /\ verdict = "open" /\ key_idx > Len(key) =>
         (Glob(key, pattern) <=> Matches(key, pattern, Len(key) + 1, pat_idx))
    /\ GlobExact

LEMMA Lengths ==
    ASSUME GlobTyped
    PROVE  Len(key) \in Nat /\ Len(pattern) \in Nat
  BY LenProperties DEF GlobTyped

\* At a star position the bytes since then are passed by a match.
LEMMA FromStar ==
    ASSUME GlobTyped, star_pos # 0, Fitting,
           NEW t \in key_backup..Len(key) + 1, Matches(key, pattern, t, star_pos + 1)
    PROVE  /\ t + (pat_idx - (star_pos + 1)) \in key_idx..Len(key) + 1
           /\ Matches(key, pattern, t + (pat_idx - (star_pos + 1)), pat_idx)
<1> DEFINE d == pat_idx - (star_pos + 1)
<1>1. /\ Len(key) \in Nat /\ Len(pattern) \in Nat
      /\ star_pos + 1 \in 1..Len(pattern) + 1 /\ pat_idx \in star_pos + 1..Len(pattern) + 1
      /\ t \in 1..Len(key) + 1
  BY Lengths DEF GlobTyped, Fitting
<1>2. NoStar(pattern, star_pos + 1, pat_idx)
  BY Zenon DEF Fitting, NoStar
<1>3. t + d <= Len(key) + 1 /\ Matches(key, pattern, t + d, pat_idx)
  BY <1>1, <1>2, MatchesRun
<1>4. t + d >= key_idx /\ t + d \in Int
  BY <1>1 DEF Fitting, GlobTyped
<1> QED BY <1>1, <1>3, <1>4 DEF GlobTyped

\* And a match from the present place on goes back to the star.
LEMMA ToStar ==
    ASSUME GlobTyped, star_pos # 0, Fitting, Matches(key, pattern, key_idx, pat_idx)
    PROVE  Matches(key, pattern, key_backup, star_pos + 1)
<1> DEFINE d == pat_idx - (star_pos + 1)
<1>1. /\ Len(key) \in Nat /\ Len(pattern) \in Nat
      /\ star_pos + 1 \in 1..Len(pattern) + 1 /\ pat_idx \in star_pos + 1..Len(pattern) + 1
      /\ key_backup \in 1..Len(key) + 1 /\ key_backup + d = key_idx /\ key_backup + d <= Len(key) + 1
  BY Lengths DEF GlobTyped, Fitting
<1>2. Matches(key, pattern, key_backup + d, pat_idx)
  BY <1>1, Zenon
<1>3. \A x \in star_pos + 1..pat_idx - 1 :
        pattern[x] # Star /\ pattern[x] \in {One, key[key_backup + (x - (star_pos + 1))]}
  BY Zenon DEF Fitting
<1> QED BY <1>1, <1>2, <1>3, RunMatches, Zenon

\* When the key is used up, only the present place counts.
LEMMA KeyEnds ==
    ASSUME GlobTyped, Undecided, key_idx > Len(key)
    PROVE  Glob(key, pattern) <=> Matches(key, pattern, Len(key) + 1, pat_idx)
<1>1. key_idx = Len(key) + 1 /\ Len(key) \in Nat
  BY Lengths DEF GlobTyped
<1>2. CASE star_pos = 0
  BY <1>1, <1>2, Zenon DEF Undecided
<1>3. CASE star_pos # 0
  <2>1. Fitting /\ (Glob(key, pattern) <=> \E t \in key_backup..Len(key) + 1 : Matches(key, pattern, t, star_pos + 1))
    BY <1>3, Zenon DEF Undecided
  <2>2. ASSUME NEW t \in key_backup..Len(key) + 1, Matches(key, pattern, t, star_pos + 1)
        PROVE  Matches(key, pattern, Len(key) + 1, pat_idx)
    <3> DEFINE u == t + (pat_idx - (star_pos + 1))
    <3>1. u \in key_idx..Len(key) + 1 /\ Matches(key, pattern, u, pat_idx)
      BY <1>3, <2>1, <2>2, FromStar
    <3>2. u = Len(key) + 1
      BY <1>1, <3>1
    <3> QED BY <3>1, <3>2, Zenon
  <2>3. ASSUME Matches(key, pattern, Len(key) + 1, pat_idx)
        PROVE  \E t \in key_backup..Len(key) + 1 : Matches(key, pattern, t, star_pos + 1)
    <3>1. Matches(key, pattern, key_backup, star_pos + 1)
      BY <1>1, <1>3, <2>1, <2>3, ToStar
    <3>2. key_backup \in key_backup..Len(key) + 1
      BY <1>1 DEF GlobTyped
    <3> QED BY <3>1, <3>2, Zenon
  <2> QED BY <2>1, <2>2, <2>3, Zenon
<1> QED BY <1>2, <1>3

LEMMA GlobBegins ==
    ASSUME GlobInit
    PROVE  GlobInv
<1>1. PICK k \in GlobKeys, p \in GlobPatterns : GlobStart(k, p)
  BY Zenon DEF GlobInit
<1>2. GlobTyped
  BY <1>1, GlobAssumption, LenProperties DEF GlobStart, GlobTyped
<1>3. Undecided /\ verdict = "open"
  BY <1>1, Zenon DEF GlobStart, Undecided, Glob
<1> QED BY <1>2, <1>3, KeyEnds, Zenon DEF GlobInv, GlobExact

\* A round that leaves the verdict open keeps the invariant if it keeps Undecided.
LEMMA OpenInv == GlobTyped /\ Undecided /\ verdict = "open" => GlobInv
<1> SUFFICES ASSUME GlobTyped, Undecided, verdict = "open" PROVE GlobInv
  OBVIOUS
<1> QED BY KeyEnds, Zenon DEF GlobInv, GlobExact

LEMMA StillOpen == (GlobTyped /\ Undecided /\ verdict = "open" => GlobInv)'
  BY OpenInv, PTL

LEMMA MeetStarStep ==
    ASSUME GlobInv, MeetStar
    PROVE  GlobInv'
<1> USE DEF GlobInv, MeetStar, InKey, AtStar, globInput
<1>1. /\ GlobTyped /\ Undecided /\ Len(key) \in Nat /\ Len(pattern) \in Nat
      /\ pat_idx \in 1..Len(pattern) /\ pattern[pat_idx] = Star
      /\ key_idx \in 1..Len(key) + 1
  BY Lengths DEF GlobTyped
<1>2. GlobTyped'
  BY <1>1 DEF GlobTyped
<1>3. \A u \in 1..Len(key) + 1 :
        Matches(key, pattern, u, pat_idx) <=> \E t \in u..Len(key) + 1 : Matches(key, pattern, t, pat_idx + 1)
  BY <1>1, StarMatches
<1>4. Glob(key, pattern) <=> \E t \in key_idx..Len(key) + 1 : Matches(key, pattern, t, pat_idx + 1)
  <2>1. CASE star_pos = 0
    BY <1>1, <1>3, <2>1, Zenon DEF Undecided
  <2>2. CASE star_pos # 0
    <3>1. Fitting /\ (Glob(key, pattern) <=> \E t \in key_backup..Len(key) + 1 : Matches(key, pattern, t, star_pos + 1))
      BY <1>1, <2>2, Zenon DEF Undecided
    <3>2. ASSUME NEW t \in key_backup..Len(key) + 1, Matches(key, pattern, t, star_pos + 1)
          PROVE  \E v \in key_idx..Len(key) + 1 : Matches(key, pattern, v, pat_idx + 1)
      <4> DEFINE u == t + (pat_idx - (star_pos + 1))
      <4>1. u \in key_idx..Len(key) + 1 /\ Matches(key, pattern, u, pat_idx)
        BY <1>1, <2>2, <3>1, <3>2, FromStar
      <4> HIDE DEF u
      <4>2. u \in 1..Len(key) + 1 /\ \A v \in u..Len(key) + 1 : v \in key_idx..Len(key) + 1
        BY <1>1, <4>1
      <4> QED BY <1>3, <4>1, <4>2, Zenon
    <3>3. ASSUME NEW t \in key_idx..Len(key) + 1, Matches(key, pattern, t, pat_idx + 1)
          PROVE  \E v \in key_backup..Len(key) + 1 : Matches(key, pattern, v, star_pos + 1)
      <4>1. Matches(key, pattern, key_idx, pat_idx)
        BY <1>1, <1>3, <3>3, Zenon
      <4>2. Matches(key, pattern, key_backup, star_pos + 1)
        BY <1>1, <2>2, <3>1, <4>1, ToStar
      <4>3. key_backup \in key_backup..Len(key) + 1
        BY <1>1 DEF GlobTyped
      <4> QED BY <4>2, <4>3, Zenon
    <3> QED BY <3>1, <3>2, <3>3, Zenon
  <2> QED BY <2>1, <2>2
<1>5. Fitting'
  BY <1>1 DEF Fitting
<1>6. Undecided'
  <2>1. star_pos' # 0 /\ star_pos' = pat_idx /\ key_backup' = key_idx /\ key' = key /\ pattern' = pattern
    BY <1>1
  <2>2. Glob(key, pattern)' <=> (\E t \in key_backup..Len(key) + 1 : Matches(key, pattern, t, star_pos + 1))'
    BY <1>4, <2>1, Zenon
  <2> QED BY <1>5, <2>1, <2>2, Zenon DEF Undecided
<1>7. verdict' = "open"
  BY Zenon
<1> QED BY <1>2, <1>6, <1>7, StillOpen

LEMMA MeetByteStep ==
    ASSUME GlobInv, MeetByte
    PROVE  GlobInv'
<1> USE DEF GlobInv, MeetByte, InKey, AtStar, AtByte, globInput
<1>1. /\ GlobTyped /\ Undecided /\ Len(key) \in Nat /\ Len(pattern) \in Nat
      /\ pat_idx \in 1..Len(pattern) /\ key_idx \in 1..Len(key)
      /\ pattern[pat_idx] # Star /\ pattern[pat_idx] \in {One, key[key_idx]}
  BY Lengths DEF GlobTyped
<1>2. GlobTyped'
  BY <1>1, SMTT(30) DEF GlobTyped
<1>3. CASE star_pos = 0
  <2>1. Matches(key, pattern, key_idx, pat_idx) <=> Matches(key, pattern, key_idx + 1, pat_idx + 1)
    <3>1. /\ pat_idx + 1 \in pat_idx..Len(pattern) + 1 /\ key_idx + ((pat_idx + 1) - pat_idx) = key_idx + 1
          /\ key_idx \in 1..Len(key) + 1 /\ pat_idx \in 1..Len(pattern) + 1
          /\ \A x \in pat_idx..(pat_idx + 1) - 1 : x = pat_idx
          /\ key_idx + (pat_idx - pat_idx) = key_idx /\ key_idx + 1 <= Len(key) + 1
      BY <1>1
    <3>2. NoStar(pattern, pat_idx, pat_idx + 1)
      BY <1>1, <3>1, Zenon DEF NoStar
    <3>3. \A x \in pat_idx..(pat_idx + 1) - 1 : pattern[x] # Star /\ pattern[x] \in {One, key[key_idx + (x - pat_idx)]}
      BY <1>1, <3>1, Zenon
    <3>4. ASSUME Matches(key, pattern, key_idx, pat_idx) PROVE Matches(key, pattern, key_idx + 1, pat_idx + 1)
      BY <1>1, <3>1, <3>2, <3>4, MatchesRun, SMTT(30)
    <3>5. ASSUME Matches(key, pattern, key_idx + 1, pat_idx + 1) PROVE Matches(key, pattern, key_idx, pat_idx)
      BY <1>1, <3>1, <3>3, <3>5, RunMatches, Zenon
    <3> QED BY <3>4, <3>5
  <2> QED BY <1>1, <1>2, <1>3, <2>1, StillOpen DEF Undecided
<1>4. CASE star_pos # 0
  <2>1. Fitting
    BY <1>1, <1>4, Zenon DEF Undecided
  <2>2. Fitting'
    <3>1. ASSUME NEW x \in star_pos + 1..pat_idx, x # pat_idx PROVE x \in star_pos + 1..pat_idx - 1
      BY <1>1, <3>1 DEF GlobTyped
    <3>2. key_backup + (pat_idx - (star_pos + 1)) = key_idx /\ (pat_idx + 1) - 1 = pat_idx
      BY <1>1, <2>1 DEF Fitting, GlobTyped
    <3>3. \A x \in star_pos + 1..pat_idx :
            pattern[x] # Star /\ pattern[x] \in {One, key[key_backup + (x - (star_pos + 1))]}
      BY <1>1, <2>1, <3>1, <3>2, Zenon DEF Fitting
    <3>4. key_backup >= 1 /\ key_idx + 1 = key_backup + ((pat_idx + 1) - (star_pos + 1))
      BY <1>1, <2>1 DEF Fitting, GlobTyped
    <3> QED BY <3>2, <3>3, <3>4, Zenon DEF Fitting
  <2>3. Undecided'
    BY <1>1, <1>4, <2>2, Zenon DEF Undecided
  <2> QED BY <1>1, <1>2, <2>3, StillOpen, Zenon
<1> QED BY <1>3, <1>4

LEMMA RetryStep ==
    ASSUME GlobInv, Retry
    PROVE  GlobInv'
<1> USE DEF GlobInv, Retry, InKey, AtStar, AtByte, globInput
<1>1. /\ GlobTyped /\ Undecided /\ Len(key) \in Nat /\ Len(pattern) \in Nat
      /\ pat_idx \in 1..Len(pattern) + 1 /\ key_idx \in 1..Len(key) + 1 /\ key_idx <= Len(key)
      /\ pat_idx <= Len(pattern) => pattern[pat_idx] # Star /\ pattern[pat_idx] \notin {One, key[key_idx]}
  BY Lengths, SMTT(30) DEF GlobTyped
<1>2. Fitting /\ (Glob(key, pattern) <=> \E t \in key_backup..Len(key) + 1 : Matches(key, pattern, t, star_pos + 1))
  BY <1>1, Zenon DEF Undecided
<1>3. key_backup \in 1..Len(key)
  BY <1>1, <1>2 DEF GlobTyped, Fitting
<1>4. ~Matches(key, pattern, key_backup, star_pos + 1)
  <2>1. ~Matches(key, pattern, key_idx, pat_idx)
    <3>1. \/ pat_idx <= Len(pattern) /\ pattern[pat_idx] # Star /\ (key_idx > Len(key) \/ pattern[pat_idx] \notin {One, key[key_idx]})
          \/ pat_idx > Len(pattern) /\ key_idx <= Len(key)
      BY <1>1
    <3> QED BY <1>1, <3>1, NoMatch
  <2> SUFFICES ASSUME Matches(key, pattern, key_backup, star_pos + 1) PROVE FALSE
    OBVIOUS
  <2>2. key_backup \in key_backup..Len(key) + 1 /\ key_backup + (pat_idx - (star_pos + 1)) = key_idx
    BY <1>2, <1>3 DEF Fitting
  <2>3. Matches(key, pattern, key_backup + (pat_idx - (star_pos + 1)), pat_idx)
    BY <1>1, <1>2, <2>2, FromStar
  <2> QED BY <2>1, <2>2, <2>3, Zenon
<1>5. GlobTyped'
  BY <1>1, <1>3 DEF GlobTyped
<1>6. Fitting'
  BY <1>1, <1>3 DEF Fitting, GlobTyped
<1>7. Glob(key, pattern) <=> \E t \in key_backup + 1..Len(key) + 1 : Matches(key, pattern, t, star_pos + 1)
  <2>1. \A t \in key_backup..Len(key) + 1 : t = key_backup \/ t \in key_backup + 1..Len(key) + 1
    BY <1>3
  <2>2. \A t \in key_backup + 1..Len(key) + 1 : t \in key_backup..Len(key) + 1
    BY <1>3
  <2> QED BY <1>2, <1>4, <2>1, <2>2, Zenon
<1>8. Undecided' /\ verdict' = "open"
  BY <1>6, <1>7, Zenon DEF Undecided
<1> QED BY <1>5, <1>8, StillOpen, Zenon

LEMMA GiveUpStep ==
    ASSUME GlobInv, GiveUp
    PROVE  GlobInv'
<1> USE DEF GlobInv, GiveUp, InKey, AtStar, AtByte, globInput
<1>1. /\ GlobTyped /\ Undecided /\ Len(key) \in Nat /\ Len(pattern) \in Nat
      /\ pat_idx \in 1..Len(pattern) + 1 /\ key_idx \in 1..Len(key) + 1 /\ key_idx <= Len(key)
      /\ pat_idx <= Len(pattern) => pattern[pat_idx] # Star /\ pattern[pat_idx] \notin {One, key[key_idx]}
  BY Lengths DEF GlobTyped
<1>2. ~Matches(key, pattern, key_idx, pat_idx)
  <2>1. \/ pat_idx <= Len(pattern) /\ pattern[pat_idx] # Star /\ (key_idx > Len(key) \/ pattern[pat_idx] \notin {One, key[key_idx]})
        \/ pat_idx > Len(pattern) /\ key_idx <= Len(key)
    BY <1>1
  <2> QED BY <1>1, <2>1, NoMatch
<1>3. ~Glob(key, pattern)
  BY <1>1, <1>2, Zenon DEF Undecided
<1>4. GlobTyped'
  BY <1>1 DEF GlobTyped
<1>5. verdict' = "differ" /\ "differ" # "open" /\ "differ" # "match"
  OBVIOUS
<1>6. GlobExact'
  BY <1>3, <1>5, Zenon DEF GlobExact
<1> QED BY <1>4, <1>5, <1>6, Zenon

LEMMA TailStep ==
    ASSUME GlobInv, SkipStar \/ Conclude
    PROVE  GlobInv'
<1> USE DEF GlobInv, AtStar, globInput
<1>1. /\ GlobTyped /\ Len(key) \in Nat /\ Len(pattern) \in Nat /\ key_idx = Len(key) + 1
      /\ pat_idx \in 1..Len(pattern) + 1 /\ Len(key) + 1 \in 1..Len(key) + 1 /\ ~(key_idx <= Len(key))
      /\ Glob(key, pattern) <=> Matches(key, pattern, Len(key) + 1, pat_idx)
  BY Lengths DEF GlobTyped, SkipStar, Conclude
<1>2. CASE SkipStar
  <2>1. pat_idx \in 1..Len(pattern) /\ pattern[pat_idx] = Star
    BY <1>1, <1>2 DEF SkipStar
  <2>2. \A t \in Len(key) + 1..Len(key) + 1 : t = Len(key) + 1
    BY <1>1
  <2>3. Len(key) + 1 \in Len(key) + 1..Len(key) + 1
    BY <1>1
  <2>4. Matches(key, pattern, Len(key) + 1, pat_idx)
          <=> \E t \in Len(key) + 1..Len(key) + 1 : Matches(key, pattern, t, pat_idx + 1)
    BY <1>1, <2>1, StarMatches
  <2>5. Glob(key, pattern) <=> Matches(key, pattern, Len(key) + 1, pat_idx + 1)
    BY <1>1, <2>2, <2>3, <2>4, Zenon
  <2>6. GlobTyped'
    BY <1>1, <1>2, <2>1 DEF GlobTyped, SkipStar
  <2>7. verdict' = "open" /\ key_idx' = key_idx /\ key' = key /\ pattern' = pattern /\ pat_idx' = pat_idx + 1
    BY <1>2, Zenon DEF SkipStar
  <2> QED BY <1>1, <2>5, <2>6, <2>7, Zenon DEF GlobExact
<1>3. CASE Conclude
  <2>1. Glob(key, pattern) <=> pat_idx = Len(pattern) + 1
    <3>1. CASE pat_idx = Len(pattern) + 1
      BY <1>1, <3>1, BothEnd, Zenon
    <3>2. CASE pat_idx # Len(pattern) + 1
      <4>1. pat_idx <= Len(pattern) /\ pattern[pat_idx] # Star /\ Len(key) + 1 > Len(key)
        BY <1>1, <1>3, <3>2 DEF Conclude
      <4>2. ~Matches(key, pattern, Len(key) + 1, pat_idx)
        BY <1>1, <4>1, NoMatch
      <4> QED BY <1>1, <3>2, <4>2
    <3> QED BY <3>1, <3>2
  <2>2. /\ verdict' = IF pat_idx = Len(pattern) + 1 THEN "match" ELSE "differ"
        /\ key' = key /\ pattern' = pattern
    BY <1>3, Zenon DEF Conclude
  <2>3. GlobTyped' /\ verdict' # "open"
    BY <1>1, <1>3, <2>2 DEF GlobTyped, Conclude
  <2>4. verdict' = "match" <=> pat_idx = Len(pattern) + 1
    BY <2>2
  <2> QED BY <2>1, <2>2, <2>3, <2>4, Zenon DEF GlobExact
<1> QED BY <1>2, <1>3

LEMMA GlobInvariant == GlobSpec => []GlobInv
<1>1. GlobInv /\ [GlobNext]_globVars => GlobInv'
  <2> SUFFICES ASSUME GlobInv, [GlobNext]_globVars PROVE GlobInv'
    OBVIOUS
  <2>1. CASE UNCHANGED globVars
    BY <2>1, Zenon DEF globVars, GlobInv, GlobTyped, Undecided, Fitting, GlobExact
  <2> QED
    BY <2>1, MeetStarStep, MeetByteStep, RetryStep, GiveUpStep, TailStep, Zenon DEF GlobNext
<1> QED BY <1>1, GlobBegins, PTL DEF GlobSpec

\* matches_pattern decides, for keys and patterns of any length over any alphabet, what
\* the pattern means, although it goes back to its last star only.
THEOREM GlobDecides == GlobSpec => []GlobExact
<1>1. GlobInv => GlobExact
  BY Zenon DEF GlobInv
<1> QED BY <1>1, GlobInvariant, PTL

\* The loop ends on every key and pattern: each round moves its bounded locals forward.
THEOREM GlobEnds == GlobSpec => GlobAdvances
<1> DEFINE A == /\ star_pos' \in 0..Len(pattern) /\ key_backup' \in 0..Len(key) + 1 /\ pat_idx' \in 1..Len(pattern) + 1
                /\ \/ verdict' # "open"
                   \/ star_pos' > star_pos
                   \/ star_pos' = star_pos /\ key_backup' > key_backup
                   \/ star_pos' = star_pos /\ key_backup' = key_backup /\ pat_idx' > pat_idx
<1>1. ASSUME GlobInv, GlobInv', GlobNext PROVE A
  <2>1. key' = key /\ pattern' = pattern
    BY <1>1, Zenon DEF GlobNext, MeetStar, MeetByte, Retry, GiveUp, SkipStar, Conclude, globInput
  <2>2. star_pos' \in 0..Len(pattern) /\ key_backup' \in 0..Len(key) + 1 /\ pat_idx' \in 1..Len(pattern) + 1
    BY <1>1, <2>1, Zenon DEF GlobInv, GlobTyped
  <2>3. Len(pattern) \in Nat /\ Len(key) \in Nat /\ GlobTyped
    BY <1>1, Lengths DEF GlobInv
  <2>4. /\ \/ verdict' # "open"
           \/ star_pos' > star_pos
           \/ star_pos' = star_pos /\ key_backup' > key_backup
           \/ star_pos' = star_pos /\ key_backup' = key_backup /\ pat_idx' > pat_idx
    BY <1>1, <2>3 DEF GlobTyped, GlobNext, MeetStar, MeetByte, Retry, GiveUp, SkipStar, Conclude
  <2> QED BY <2>2, <2>4
<1>2. GlobInv /\ GlobInv' /\ [GlobNext]_globVars => [A]_globVars
  BY <1>1
<1> QED BY <1>2, GlobInvariant, PTL DEF GlobSpec, GlobAdvances

----------------------------------------------------------------------------
(* Recursive functions on 0..n: there is one, and two that meet stay together. *)

Steps(f, S, e, N, F) == f \in [0..N -> S] /\ f[0] = e /\ \A i \in 1..N : f[i] = F[<<f[i - 1], i>>]

LEMMA Recursion ==
    ASSUME NEW S, NEW e \in S, NEW N \in Nat, NEW F \in [S \X (1..N) -> S]
    PROVE  \E f : Steps(f, S, e, N, F)
<1> DEFINE Upto(n) == \E f : Steps(f, S, e, n, F)
           T == {n \in Nat : n <= N /\ ~Upto(n)}
<1> SUFFICES ASSUME T # {} PROVE FALSE
  <2>1. N \notin T => Upto(N)
    OBVIOUS
  <2> QED BY <2>1, Zenon
<1>1. PICK n \in T : \A m \in T : n <= m
  BY LeastNat, Zenon
<1>2. CASE n = 0
  <2> DEFINE f == [i \in 0..0 |-> e]
  <2>1. f \in [0..0 -> S] /\ f[0] = e /\ \A i \in 1..0 : f[i] = F[<<f[i - 1], i>>]
    OBVIOUS
  <2>2. Upto(0)
    BY <2>1, Zenon DEF Steps
  <2> QED BY <1>1, <1>2, <2>2, Zenon
<1>3. CASE n # 0
  <2>1. n - 1 \in Nat /\ ~(n <= n - 1) /\ n - 1 <= N /\ n \in 1..N /\ n - 1 \in 0..n - 1 /\ n \notin 0..n - 1
    BY <1>1, <1>3
  <2>2. Upto(n - 1)
    BY <1>1, <2>1, Zenon
  <2>3. PICK g \in [0..n - 1 -> S] : g[0] = e /\ \A i \in 1..n - 1 : g[i] = F[<<g[i - 1], i>>]
    BY <2>2, Zenon DEF Steps
  <2> DEFINE last == F[<<g[n - 1], n>>]
             f == [i \in 0..n |-> IF i = n THEN last ELSE g[i]]
  <2>4. g[n - 1] \in S
    BY <2>1, <2>3, Zenon
  <2>5. last \in S
    BY <2>1, <2>4, Zenon
  <2>6. \A i \in 0..n : i = n \/ i \in 0..n - 1
    BY <2>1
  <2>7. f \in [0..n -> S]
    BY <2>3, <2>5, <2>6, Zenon
  <2>8. n \in 0..n /\ 0 \in 0..n /\ n # 0 /\ \A i \in 1..n : i \in 0..n /\ i - 1 \in 0..n /\ i - 1 # n /\ (i # n => i \in 1..n - 1)
    BY <2>1, <1>3
  <2>9. f[n] = last /\ f[0] = e /\ \A i \in 0..n : i # n => f[i] = g[i]
    BY <2>3, <2>8, Zenon
  <2> HIDE DEF f
  <2>10. ASSUME NEW i \in 1..n PROVE f[i] = F[<<f[i - 1], i>>]
    <3>1. CASE i = n
      BY <2>8, <2>9, <3>1, Zenon
    <3>2. CASE i # n
      BY <2>3, <2>8, <2>9, <3>2, Zenon
    <3> QED BY <3>1, <3>2
  <2>11. Upto(n)
    BY <2>7, <2>9, <2>10, Zenon DEF Steps
  <2> QED BY <1>1, <2>11, Zenon
<1> QED BY <1>2, <1>3

Alike(f, g, a, n) == \A i \in a..n : f[i] = g[i]
GoOnAlike(f, g, a, n) == \A i \in a + 1..n : f[i - 1] = g[i - 1] => f[i] = g[i]

\* Two functions that agree at a and go on in the same way agree up to n.
LEMMA StayTogether ==
    ASSUME NEW f, NEW g, NEW a \in Nat, NEW n \in Nat, f[a] = g[a], GoOnAlike(f, g, a, n)
    PROVE  Alike(f, g, a, n)
<1> DEFINE T == {i \in Nat : i \in a..n /\ f[i] # g[i]}
<1>0. a..n \subseteq Nat
  OBVIOUS
<1> SUFFICES ASSUME T # {} PROVE FALSE
  BY <1>0, Zenon DEF Alike
<1>1. PICK i \in T : \A j \in T : i <= j
  BY LeastNat, Zenon
<1>2. i # a
  BY <1>1, Zenon
<1>3. i \in a + 1..n /\ i - 1 \in a..n /\ i - 1 \in Nat /\ ~(i <= i - 1)
  BY <1>1, <1>2
<1>4. f[i - 1] = g[i - 1]
  BY <1>1, <1>3, Zenon
<1> QED BY <1>1, <1>3, <1>4, Zenon DEF GoOnAlike

----------------------------------------------------------------------------
(* Recovery *)

\* What an entry made at time t or earlier can be.
EntryAt(t) == [v: I64, exp: {Never} \cup 0..t + MaxTtl]

LEMMA GoneType ==
    ASSUME NEW t \in Nat
    PROVE  Gone \in EntryAt(t)
BY RecoveryAssumption DEF Gone, EntryAt, I64

LEMMA ExecuteType ==
    ASSUME NEW t \in Nat, NEW e \in EntryAt(t), NEW c \in RequestType
    PROVE  Execute(e, c, t) \in EntryAt(t)
<1> DEFINE Expiries == {Never} \cup 0..t + MaxTtl
<1>1. c.name \in {"SET", "INCRBY", "DEL", "EXPIRE", "PERSIST"} /\ c.v \in I64 /\ c.ttl \in 0..MaxTtl
  BY DEF RequestType
<1>2. MaxTtl \in Nat /\ MaxValue \in Nat /\ Never \in Expiries /\ 0 \in Expiries /\ t + c.ttl \in Expiries /\ 0 \in I64
  BY <1>1, RecoveryAssumption DEF I64
<1>3. e.v \in I64 /\ e.exp \in Expiries
  BY DEF EntryAt
<1>4. Added(e.v, c.v) \in I64
  BY <1>1, <1>3, Zenon DEF Added
<1>5. \A v \in I64 : \A x \in Expiries : [v |-> v, exp |-> x] \in EntryAt(t)
  BY DEF EntryAt
<1>6. e = [v |-> e.v, exp |-> e.exp]
  BY DEF EntryAt
<1> HIDE DEF Expiries
<1> QED BY <1>1, <1>2, <1>3, <1>4, <1>5, <1>6 DEF Execute, Gone

\* Refused or evicted, a command leaves an entry.
Outcomes == {"done", "evicted", "refused"}

LEMMA MetType ==
    ASSUME NEW t \in Nat, NEW e \in EntryAt(t), NEW c \in RequestType, NEW how \in Outcomes
    PROVE  Met(e, c, how, t) \in EntryAt(t)
<1>1. Execute(e, c, t) \in EntryAt(t) /\ Gone \in EntryAt(t)
  BY ExecuteType, GoneType, Zenon
<1> QED BY <1>1 DEF Met, Outcomes

MeetsAll(f, e, s, how, t) ==
    f \in [0..Len(s) -> EntryAt(t)] /\ f[0] = e /\ \A i \in 1..Len(s) : f[i] = Met(f[i - 1], s[i], how[i], t)

\* Executing the log is well defined, whatever becomes of the commands.
LEMMA ReplayAsDef ==
    ASSUME NEW t \in Nat, NEW e \in EntryAt(t), NEW s \in Seq(RequestType),
           NEW how, \A i \in 1..Len(s) : how[i] \in Outcomes
    PROVE  \E f : MeetsAll(f, e, s, how, t) /\ ReplayAs(e, s, how, t) = f[Len(s)]
<1> DEFINE n == Len(s)
           F == [p \in EntryAt(t) \X (1..n) |-> Met(p[1], s[p[2]], how[p[2]], t)]
           Is(f) == f = [i \in 0..n |-> IF i = 0 THEN e ELSE Met(f[i - 1], s[i], how[i], t)]
<1>1. n \in Nat /\ \A i \in 1..n : s[i] \in RequestType
  BY LenProperties, ElementOfSeq
<1>2. F \in [EntryAt(t) \X (1..n) -> EntryAt(t)]
  <2>1. \A p \in EntryAt(t) \X (1..n) : p[1] \in EntryAt(t) /\ p[2] \in 1..n
    OBVIOUS
  <2>2. \A p \in EntryAt(t) \X (1..n) : Met(p[1], s[p[2]], how[p[2]], t) \in EntryAt(t)
    BY <1>1, <2>1, MetType, Zenon
  <2> QED BY <2>2, Zenon
<1>3. \A x \in EntryAt(t) : \A i \in 1..n : F[<<x, i>>] = Met(x, s[i], how[i], t)
  <2>1. \A x \in EntryAt(t) : \A i \in 1..n : <<x, i>> \in EntryAt(t) \X (1..n) /\ <<x, i>>[1] = x /\ <<x, i>>[2] = i
    OBVIOUS
  <2> QED BY <2>1, Zenon
<1> HIDE DEF F
<1>3a. PICK f : Steps(f, EntryAt(t), e, n, F)
  BY <1>1, <1>2, Recursion, Zenon
<1>4. f \in [0..n -> EntryAt(t)] /\ f[0] = e /\ \A i \in 1..n : f[i] = F[<<f[i - 1], i>>]
  BY <1>3a, Zenon DEF Steps
<1>5. 0 \in Nat /\ 0 \in 0..n /\ n \in 0..n /\ \A i \in 0..n : i # 0 => i \in 1..n /\ i - 1 \in 0..n
  BY <1>1
<1>6. \A i \in 0..n : f[i] = IF i = 0 THEN e ELSE Met(f[i - 1], s[i], how[i], t)
  BY <1>3, <1>4, <1>5, Zenon
<1>7. Is(f)
  BY <1>4, <1>6, Zenon
<1> DEFINE g == CHOOSE h : Is(h)
<1>8. Is(g)
  BY <1>7, Zenon
<1>9. ReplayAs(e, s, how, t) = g[n]
  BY Zenon DEF ReplayAs
<1> HIDE DEF g
<1>10. g[0] = e /\ \A i \in 0..n : g[i] = IF i = 0 THEN e ELSE Met(g[i - 1], s[i], how[i], t)
  BY <1>5, <1>8, Zenon
<1>11. \A i \in 1..n : i \in 0..n /\ i # 0
  BY <1>1
<1>12. g[0] = f[0] /\ GoOnAlike(g, f, 0, n)
  <2>1. 0 + 1 = 1
    OBVIOUS
  <2> QED BY <1>4, <1>6, <1>10, <1>11, <2>1, Zenon DEF GoOnAlike
<1>13. \A i \in 0..n : g[i] = f[i]
  <2>1. 0 \in Nat /\ n \in Nat /\ g[0] = f[0] /\ GoOnAlike(g, f, 0, n)
    BY <1>1, <1>5, <1>12
  <2>2. Alike(g, f, 0, n)
    BY <2>1, StayTogether, Zenon
  <2> QED BY <2>2, Zenon DEF Alike
<1>14. MeetsAll(f, e, s, how, t)
  BY <1>4, <1>6, <1>11, Zenon DEF MeetsAll
<1> QED BY <1>5, <1>9, <1>13, <1>14, Zenon

LEMMA ReplayAsType ==
    ASSUME NEW t \in Nat, NEW e \in EntryAt(t), NEW s \in Seq(RequestType),
           NEW how, \A i \in 1..Len(s) : how[i] \in Outcomes
    PROVE  ReplayAs(e, s, how, t) \in EntryAt(t)
<1>1. PICK f : MeetsAll(f, e, s, how, t) /\ ReplayAs(e, s, how, t) = f[Len(s)]
  BY ReplayAsDef
<1>2. Len(s) \in 0..Len(s)
  BY LenProperties
<1> QED BY <1>1, <1>2, Zenon DEF MeetsAll

Replays(f, e, s, t) ==
    f \in [0..Len(s) -> EntryAt(t)] /\ f[0] = e /\ \A i \in 1..Len(s) : f[i] = Execute(f[i - 1], s[i], t)

\* With room for every command, each of them is executed.
LEMMA ReplayDef ==
    ASSUME NEW t \in Nat, NEW e \in EntryAt(t), NEW s \in Seq(RequestType)
    PROVE  \E f : Replays(f, e, s, t) /\ Replay(e, s, t) = f[Len(s)]
<1> DEFINE how == [i \in 1..Len(s) |-> "done"]
<1>1. \A i \in 1..Len(s) : how[i] = "done"
  OBVIOUS
<1>2. Replay(e, s, t) = ReplayAs(e, s, how, t)
  BY Zenon DEF Replay
<1> HIDE DEF how
<1>3. \A i \in 1..Len(s) : how[i] \in Outcomes
  BY <1>1, Zenon DEF Outcomes
<1>4. PICK f : MeetsAll(f, e, s, how, t) /\ ReplayAs(e, s, how, t) = f[Len(s)]
  BY <1>3, ReplayAsDef, Zenon
<1>5. \A x, c : Met(x, c, "done", t) = Execute(x, c, t)
  BY DEF Met
<1>6. Replays(f, e, s, t)
  BY <1>1, <1>4, <1>5, Zenon DEF MeetsAll, Replays
<1> QED BY <1>2, <1>4, <1>6, Zenon

LEMMA ReplayType ==
    ASSUME NEW t \in Nat, NEW e \in EntryAt(t), NEW s \in Seq(RequestType)
    PROVE  Replay(e, s, t) \in EntryAt(t)
<1>1. PICK f : Replays(f, e, s, t) /\ Replay(e, s, t) = f[Len(s)]
  BY ReplayDef
<1>2. Len(s) \in 0..Len(s)
  BY LenProperties
<1> QED BY <1>1, <1>2, Zenon DEF Replays

LEMMA ReplayEmpty ==
    ASSUME NEW t \in Nat, NEW e \in EntryAt(t)
    PROVE  Replay(e, <<>>, t) = e
<1>1. <<>> \in Seq(RequestType) /\ Len(<<>>) = 0
  OBVIOUS
<1>2. PICK f : Replays(f, e, <<>>, t) /\ Replay(e, <<>>, t) = f[Len(<<>>)]
  BY <1>1, ReplayDef, Zenon
<1> QED BY <1>1, <1>2, Zenon DEF Replays

\* One command more.
LEMMA ReplayAppend ==
    ASSUME NEW t \in Nat, NEW e \in EntryAt(t), NEW s \in Seq(RequestType), NEW c \in RequestType
    PROVE  Replay(e, Append(s, c), t) = Execute(Replay(e, s, t), c, t)
<1> DEFINE a == Append(s, c)
           n == Len(s)
<1>1. a \in Seq(RequestType) /\ Len(a) = n + 1 /\ a[n + 1] = c /\ (\A i \in 1..n : a[i] = s[i]) /\ n \in Nat
  BY AppendProperties, LenProperties
<1> HIDE DEF a
<1>2. PICK f : Replays(f, e, s, t) /\ Replay(e, s, t) = f[n]
  BY ReplayDef
<1>3. PICK g : Replays(g, e, a, t) /\ Replay(e, a, t) = g[n + 1]
  BY <1>1, ReplayDef
<1>4. 0 \in Nat /\ 0 + 1 = 1 /\ (n + 1) - 1 = n /\ n + 1 \in 1..n + 1 /\ n \in 0..n /\ \A i \in 1..n : i \in 1..n + 1
  BY <1>1
<1>5. f[0] = g[0] /\ GoOnAlike(f, g, 0, n)
  BY <1>1, <1>2, <1>3, <1>4, Zenon DEF Replays, GoOnAlike
<1>6. \A i \in 0..n : f[i] = g[i]
  <2>1. 0 \in Nat /\ n \in Nat /\ f[0] = g[0] /\ GoOnAlike(f, g, 0, n)
    BY <1>1, <1>4, <1>5
  <2>2. Alike(f, g, 0, n)
    BY <2>1, StayTogether, Zenon
  <2> QED BY <2>2, Zenon DEF Alike
<1>7. g[n + 1] = Execute(g[n], c, t)
  BY <1>1, <1>3, <1>4, Zenon DEF Replays
<1> QED BY <1>2, <1>3, <1>4, <1>6, <1>7, Zenon DEF a

\* A log that begins with a SET or a DEL does not depend on what it is executed on.
LEMMA ReplayAnchored ==
    ASSUME NEW t \in Nat, NEW e \in EntryAt(t), NEW d \in EntryAt(t), NEW s \in Seq(RequestType),
           s # <<>>, s[1].name \in {"SET", "DEL"}
    PROVE  Replay(e, s, t) = Replay(d, s, t)
<1> DEFINE n == Len(s)
<1>1. n \in Nat /\ n # 0
  BY LenProperties, EmptySeq
<1>2. PICK f : Replays(f, e, s, t) /\ Replay(e, s, t) = f[n]
  BY ReplayDef
<1>3. PICK g : Replays(g, d, s, t) /\ Replay(d, s, t) = g[n]
  BY ReplayDef
<1>4. 1 \in 1..n /\ n \in 1..n /\ 1 \in Nat /\ \A i \in 1 + 1..n : i \in 1..n
  BY <1>1
<1>5. f[1] = Execute(f[1 - 1], s[1], t) /\ g[1] = Execute(g[1 - 1], s[1], t)
  BY <1>2, <1>3, <1>4, Zenon DEF Replays
<1>6. f[1] = g[1]
  BY <1>5 DEF Execute
<1>7. GoOnAlike(f, g, 1, n)
  BY <1>2, <1>3, <1>4, Zenon DEF Replays, GoOnAlike
<1>8. \A i \in 1..n : f[i] = g[i]
  <2>1. 1 \in Nat /\ n \in Nat /\ f[1] = g[1] /\ GoOnAlike(f, g, 1, n)
    BY <1>1, <1>4, <1>6, <1>7
  <2>2. Alike(f, g, 1, n)
    BY <2>1, StayTogether, Zenon
  <2> QED BY <2>2, Zenon DEF Alike
<1> QED BY <1>2, <1>3, <1>4, <1>8, Zenon

\* The entry is absent or has not expired.
Sound(e, t) == e = Gone \/ t < e.exp

\* r, made at time t, is the entry e but for an expiry that may be later.
Fits(e, r, t) ==
    /\ r.v = e.v /\ (r = Gone <=> e = Gone) /\ Sound(r, t)
    /\ \/ r.exp = e.exp
       \/ e.exp # Never /\ r.exp # Never /\ e.exp <= r.exp /\ r.exp <= e.exp + t

\* The same command, executed at two times, keeps two entries that fit together so.
LEMMA ExecuteFits ==
    ASSUME NEW b \in Nat, NEW t \in Nat, b <= t, t <= MaxClock, NEW e \in EntryAt(b), NEW r \in EntryAt(t),
           Sound(e, b), Fits(e, r, t), NEW c \in RequestType
    PROVE  Fits(Execute(e, c, b), Execute(r, c, t), t) /\ Sound(Execute(e, c, b), b)
<1> DEFINE d == Execute(e, c, b)
           q == Execute(r, c, t)
<1> SUFFICES Fits(d, q, t) /\ Sound(d, b)
  OBVIOUS
<1>1. c.name \in {"SET", "INCRBY", "DEL", "EXPIRE", "PERSIST"} /\ c.v \in Int /\ c.ttl \in 0..MaxTtl
  BY RecoveryAssumption DEF RequestType, I64
<1>2. /\ Never \in Nat /\ MaxTtl \in Nat /\ MaxClock \in Nat /\ Never > MaxClock + MaxTtl
      /\ e.v \in Int /\ r.v \in Int /\ e.exp \in Nat /\ r.exp \in Nat
      /\ e = [v |-> e.v, exp |-> e.exp] /\ r = [v |-> r.v, exp |-> r.exp]
  BY RecoveryAssumption DEF EntryAt, I64
<1>3. (Alive(e, b) <=> e # Gone) /\ (Alive(r, t) <=> e # Gone) /\ r.v = e.v
  BY <1>2 DEF Alive, Sound, Fits, Gone
<1>4. \/ r.exp = e.exp
      \/ e.exp # Never /\ r.exp # Never /\ e.exp <= r.exp /\ r.exp <= e.exp + t
  BY Zenon DEF Fits
<1>g. \A x, y : [v |-> x, exp |-> y] = Gone <=> x = 0 /\ y = 0
  BY DEF Gone
<1>5. CASE c.name = "SET"
  <2>1. CASE c.ttl = 0
    <3>1. d = [v |-> c.v, exp |-> Never] /\ q = [v |-> c.v, exp |-> Never]
      BY <1>5, <2>1 DEF Execute
    <3> HIDE DEF d, q
    <3> QED BY <1>1, <1>2, <1>g, <3>1 DEF Fits, Sound
  <2>2. CASE c.ttl # 0
    <3>1. d = [v |-> c.v, exp |-> b + c.ttl] /\ q = [v |-> c.v, exp |-> t + c.ttl]
      BY <1>5, <2>2 DEF Execute
    <3> HIDE DEF d, q
    <3> QED BY <1>1, <1>2, <1>g, <2>2, <3>1 DEF Fits, Sound
  <2> QED BY <2>1, <2>2
<1>6. CASE c.name = "DEL" \/ (c.name = "EXPIRE" /\ (e = Gone \/ c.ttl = 0)) \/ (c.name = "PERSIST" /\ e = Gone)
  <2>1. d = Gone /\ q = Gone
    BY <1>1, <1>3, <1>6 DEF Execute
  <2> HIDE DEF d, q
  <2> QED BY <2>1 DEF Fits, Sound
<1>7. CASE c.name = "INCRBY" /\ e = Gone
  <2>1. d = [v |-> c.v, exp |-> Never] /\ q = [v |-> c.v, exp |-> Never]
    BY <1>3, <1>7 DEF Execute
  <2> HIDE DEF d, q
  <2> QED BY <1>1, <1>2, <1>g, <2>1 DEF Fits, Sound
<1>8. CASE c.name = "INCRBY" /\ e # Gone
  <2>1. d = [v |-> Added(e.v, c.v), exp |-> e.exp] /\ q = [v |-> Added(e.v, c.v), exp |-> r.exp]
    BY <1>2, <1>3, <1>8 DEF Execute
  <2>2. b < e.exp /\ t < r.exp
    BY <1>3, <1>8, Zenon DEF Alive
  <2> HIDE DEF d, q
  <2>3. e.exp # 0 /\ r.exp # 0
    BY <1>2, <2>2
  <2>4. d # Gone /\ q # Gone
    BY <1>g, <2>1, <2>3, Zenon
  <2>5. q.v = d.v /\ d.exp = e.exp /\ q.exp = r.exp
    BY <2>1
  <2> QED BY <1>4, <2>2, <2>4, <2>5, Zenon DEF Fits, Sound
<1>9. CASE c.name = "EXPIRE" /\ e # Gone /\ c.ttl # 0
  <2>1. c.ttl > 0
    BY <1>1, <1>2, <1>9
  <2>2. d = [v |-> e.v, exp |-> b + c.ttl] /\ q = [v |-> e.v, exp |-> t + c.ttl]
    BY <1>2, <1>3, <1>9, <2>1 DEF Execute
  <2> HIDE DEF d, q
  <2> QED BY <1>1, <1>2, <1>g, <2>1, <2>2 DEF Fits, Sound
<1>10. CASE c.name = "PERSIST" /\ e # Gone
  <2>1. d = [v |-> e.v, exp |-> Never] /\ q = [v |-> e.v, exp |-> Never]
    BY <1>2, <1>3, <1>10 DEF Execute
  <2> HIDE DEF d, q
  <2> QED BY <1>2, <1>g, <2>1 DEF Fits, Sound
<1> QED BY <1>1, <1>5, <1>6, <1>7, <1>8, <1>9, <1>10

\* At time b the store holds e and the log s: executing s at any later time gives what fits
\* e, and executing it later still what fits that.
Coherent(e, b, s) ==
    /\ Sound(e, b)
    /\ \A t \in b..MaxClock :
          /\ Fits(e, Replay(Gone, s, t), t)
          /\ \A u \in b..t : Fits(Replay(Gone, s, u), Replay(Gone, s, t), t)

LEMMA Times ==
    ASSUME NEW b \in 0..MaxClock
    PROVE  /\ MaxClock \in Nat /\ b \in Nat
           /\ \A t \in b..MaxClock : t \in Nat /\ b <= t /\ t <= MaxClock /\ t \in t..MaxClock
           /\ \A t \in b..MaxClock : \A u \in b..t : u \in b..MaxClock /\ u \in Nat /\ u <= t
BY RecoveryAssumption

\* A command keeps the store and the log coherent.
LEMMA CoherentExecute ==
    ASSUME NEW b \in 0..MaxClock, NEW e \in EntryAt(b), NEW s \in Seq(RequestType), NEW c \in RequestType,
           Coherent(e, b, s)
    PROVE  Coherent(Execute(e, c, b), b, Append(s, c))
<1> DEFINE d == Execute(e, c, b)
           p(t) == Replay(Gone, s, t)
           q(t) == Replay(Gone, Append(s, c), t)
<1>1. \A t \in Nat : p(t) \in EntryAt(t) /\ q(t) = Execute(p(t), c, t)
  BY GoneType, ReplayType, ReplayAppend, Zenon
<1>2. Sound(e, b) /\ \A t \in b..MaxClock : Fits(e, p(t), t) /\ \A u \in b..t : Fits(p(u), p(t), t)
  BY Zenon DEF Coherent
<1> HIDE DEF p, q
<1>3. ASSUME NEW t \in b..MaxClock
      PROVE  Fits(d, q(t), t) /\ Sound(d, b) /\ \A u \in b..t : Fits(q(u), q(t), t)
  <2>1. t \in Nat /\ b \in Nat /\ b <= t /\ t <= MaxClock
    BY Times, Zenon
  <2>2. Fits(d, q(t), t) /\ Sound(d, b)
    <3>1. p(t) \in EntryAt(t) /\ Fits(e, p(t), t) /\ q(t) = Execute(p(t), c, t)
      BY <1>1, <1>2, <2>1, Zenon
    <3> QED BY <1>2, <2>1, <3>1, ExecuteFits
  <2>3. ASSUME NEW u \in b..t PROVE Fits(q(u), q(t), t)
    <3>1. u \in Nat /\ u <= t /\ u \in b..MaxClock
      BY Times, Zenon
    <3>2. /\ p(u) \in EntryAt(u) /\ p(t) \in EntryAt(t) /\ Fits(p(u), p(t), t)
          /\ q(u) = Execute(p(u), c, u) /\ q(t) = Execute(p(t), c, t)
      BY <1>1, <1>2, <2>1, <3>1, Zenon
    <3>3. Sound(p(u), u)
      BY <1>2, <3>1, Zenon DEF Fits
    <3> QED BY <2>1, <3>1, <3>2, <3>3, ExecuteFits
  <2> QED BY <2>2, <2>3, Zenon
<1>4. b \in b..MaxClock
  BY RecoveryAssumption
<1>5. Sound(d, b)
  BY <1>3, <1>4, Zenon
<1> QED BY <1>3, <1>5, Zenon DEF Coherent, q

\* So does a second that the entry survives.
LEMMA CoherentLater ==
    ASSUME NEW b \in 0..MaxClock, b < MaxClock, NEW e, NEW s, Coherent(e, b, s), Sound(e, b + 1)
    PROVE  Coherent(e, b + 1, s)
<1>1. \A t \in b + 1..MaxClock : t \in b..MaxClock /\ \A u \in b + 1..t : u \in b..t
  BY RecoveryAssumption
<1> QED BY <1>1, Zenon DEF Coherent

\* A restart, which replaces the entry by what the log gives now.
LEMMA CoherentReplay ==
    ASSUME NEW b \in 0..MaxClock, NEW e, NEW s, Coherent(e, b, s)
    PROVE  Coherent(Replay(Gone, s, b), b, s)
<1>1. b \in b..MaxClock /\ \A t \in b..MaxClock : b \in b..t
  BY RecoveryAssumption
<1>2. Sound(Replay(Gone, s, b), b)
  BY <1>1, Zenon DEF Coherent, Fits
<1> QED BY <1>1, <1>2, Zenon DEF Coherent

IsRequest(c, name, v, ttl) == c \in RequestType /\ c.name = name /\ c.v = v /\ c.ttl = ttl

LEMMA SetFields ==
    ASSUME NEW v \in I64, NEW ttl \in 0..MaxTtl
    PROVE  IsRequest(Request("SET", v, ttl), "SET", v, ttl)
BY DEF IsRequest, Request, RequestType

\* And a rewrite, after which the log holds nothing but the entry.
LEMMA CoherentRewritten ==
    ASSUME NEW b \in 0..MaxClock, NEW e \in EntryAt(b)
    PROVE  /\ Rewritten(e, b) \in Seq(RequestType)
           /\ Sound(e, b) => Coherent(e, b, Rewritten(e, b))
<1> DEFINE w == Rewritten(e, b)
           set == Request("SET", e.v, 0)
           left == Request("EXPIRE", 0, e.exp - b)
<1>1. /\ MaxValue \in Nat /\ MaxTtl \in Nat /\ MaxClock \in Nat /\ Never \in Nat /\ Never > MaxClock + MaxTtl
      /\ b \in Nat /\ e.v \in I64 /\ e.exp \in {Never} \cup 0..b + MaxTtl /\ e = [v |-> e.v, exp |-> e.exp]
  BY RecoveryAssumption DEF EntryAt
<1>2. e.exp \in Nat /\ 0 \in I64
  BY <1>1, SMTT(30) DEF I64
<1>3. set \in RequestType /\ set.name = "SET" /\ set.v = e.v /\ set.ttl = 0
  <2>1. 0 \in 0..MaxTtl
    BY <1>1
  <2>2. e.v \in I64
    BY <1>1, Zenon
  <2>3. IsRequest(set, "SET", e.v, 0)
    BY <2>1, <2>2, SetFields, Zenon
  <2> QED BY <2>3, Zenon DEF IsRequest
<1>4. <<>> \in Seq(RequestType) /\ <<set>> = Append(<<>>, set) /\ <<set>> \in Seq(RequestType)
  BY <1>3
<1>5. \A t \in Nat : Replay(Gone, <<set>>, t) = [v |-> e.v, exp |-> Never]
  <2>1. ASSUME NEW t \in Nat PROVE Replay(Gone, <<set>>, t) = [v |-> e.v, exp |-> Never]
    <3>1. Replay(Gone, <<set>>, t) = Execute(Replay(Gone, <<>>, t), set, t)
      BY <1>3, <1>4, GoneType, ReplayAppend, Zenon
    <3> QED BY <1>3, <3>1, SMTT(30) DEF Execute
  <2> QED BY <2>1, Zenon
<1> HIDE DEF set
<1>g. \A x, y : [v |-> x, exp |-> y] = Gone <=> x = 0 /\ y = 0
  BY DEF Gone
<1>6. CASE ~Alive(e, b)
  <2>1. w = <<>>
    BY <1>6, Zenon DEF Rewritten
  <2>2. \A t \in Nat : Replay(Gone, w, t) = Gone
    BY <2>1, GoneType, ReplayEmpty, Zenon
  <2>3. ASSUME Sound(e, b) PROVE Coherent(e, b, w)
    <3>1. e = Gone
      BY <1>6, <2>3, ZenonT(30) DEF Sound, Alive
    <3>2. Sound(Gone, b) /\ \A t : Fits(Gone, Gone, t)
      BY ZenonT(60) DEF Sound, Fits
    <3> HIDE DEF w
    <3> QED BY <2>2, <3>1, <3>2, Times, Zenon DEF Coherent
  <2> QED BY <1>4, <2>1, <2>3, Zenon
<1>7. CASE Alive(e, b) /\ e.exp = Never
  <2>1. w = <<set>>
    BY <1>7, Zenon DEF Rewritten, set
  <2>2. \A t \in Nat : Replay(Gone, w, t) = e
    BY <1>1, <1>5, <1>7, <2>1, Zenon
  <2>3. Sound(e, b)
    BY <1>7, Zenon DEF Sound, Alive
  <2>4. \A t \in b..MaxClock : Fits(e, e, t)
    BY <1>1, <1>7 DEF Fits, Sound
  <2> HIDE DEF w
  <2>5. Coherent(e, b, w)
    BY <2>2, <2>3, <2>4, Times, Zenon DEF Coherent
  <2> QED BY <1>4, <2>1, <2>5, ZenonT(60) DEF w
<1>8. CASE Alive(e, b) /\ e.exp # Never
  <2> DEFINE k == e.exp - b
  <2>1. k \in 1..MaxTtl
    BY <1>1, <1>2, <1>8, SMTT(30) DEF Alive
  <2>2. left \in RequestType /\ left.name = "EXPIRE" /\ left.ttl = k
    BY <1>1, <1>2, <2>1 DEF Request, RequestType
  <2>3. w = <<set, left>>
    BY <1>8, Zenon DEF Rewritten, set
  <2>4. w = Append(<<set>>, left) /\ w \in Seq(RequestType)
    BY <1>3, <1>4, <2>2, <2>3, SMTT(30)
  <2> HIDE DEF w, left, k
  <2>6. \A t \in 0..MaxClock : t \in Nat /\ t < Never
    BY <1>1
  <2>7. ASSUME NEW t \in 0..MaxClock PROVE Replay(Gone, w, t) = [v |-> e.v, exp |-> t + k]
    <3>1. Replay(Gone, w, t) = Execute(Replay(Gone, <<set>>, t), left, t)
      BY <1>4, <2>2, <2>4, <2>6, GoneType, ReplayAppend, Zenon
    <3>2. Replay(Gone, <<set>>, t) = [v |-> e.v, exp |-> Never] /\ t < Never
      BY <1>5, <2>6
    <3>3. k > 0
      BY <2>1
    <3> QED BY <2>2, <3>1, <3>2, <3>3 DEF Execute, Alive
  <2>8. Sound(e, b)
    BY <1>8, Zenon DEF Sound, Alive
  <2>9. ASSUME NEW t \in b..MaxClock PROVE Fits(e, [v |-> e.v, exp |-> t + k], t)
    <3>1. t \in Nat /\ b <= t /\ t <= MaxClock /\ e.exp = b + k
      BY <1>1, <1>2, SMTT(30) DEF k
    <3>2. t + k # 0 /\ e.exp # 0 /\ t < t + k /\ t + k # Never /\ e.exp <= t + k /\ t + k <= e.exp + t
      BY <1>1, <2>1, <3>1
    <3>3. [v |-> e.v, exp |-> t + k] # Gone /\ e # Gone
      BY <1>1, <1>g, <3>2, ZenonT(60)
    <3> QED BY <1>8, <3>2, <3>3 DEF Fits, Sound
  <2>10. ASSUME NEW t \in b..MaxClock, NEW u \in b..t
         PROVE  Fits([v |-> e.v, exp |-> u + k], [v |-> e.v, exp |-> t + k], t)
    <3>1. t \in Nat /\ u \in Nat /\ u <= t /\ t <= MaxClock
      BY <1>1, SMTT(30)
    <3>2. /\ t + k # 0 /\ u + k # 0 /\ t < t + k /\ t + k # Never /\ u + k # Never
          /\ u + k <= t + k /\ t + k <= (u + k) + t
      BY <1>1, <2>1, <3>1
    <3>3. [v |-> e.v, exp |-> t + k] # Gone /\ [v |-> e.v, exp |-> u + k] # Gone
      BY <1>g, <3>2, Zenon
    <3> QED BY <3>2, <3>3 DEF Fits, Sound
  <2>11. Coherent(e, b, w)
    <3>1. \A t \in b..MaxClock : t \in 0..MaxClock /\ \A u \in b..t : u \in 0..MaxClock
      BY <1>1
    <3> QED BY <2>7, <2>8, <2>9, <2>10, <3>1, Zenon DEF Coherent
  <2> QED BY <2>4, <2>11, Zenon DEF w
<1> QED BY <1>6, <1>7, <1>8, SMTT(30)

\* The inductive invariant: until something excuses them, store and log are coherent.
HistoryTyped ==
    /\ clock \in 0..MaxClock /\ excused \in BOOLEAN
    /\ live \in EntryAt(clock) /\ snapshot \in EntryAt(clock) /\ log \in Seq(RequestType)

HistoryInv == HistoryTyped /\ (~excused => Coherent(live, clock, log))

\* An anchored log, executed on the snapshot, gives what it gives on an empty store.
LEMMA LoadedAnchored ==
    ASSUME HistoryTyped
    PROVE  /\ Loaded \in EntryAt(clock)
           /\ Anchored => Loaded = Replay(Gone, log, clock)
<1>1. clock \in Nat /\ ~Alive(Gone, clock)
  BY RecoveryAssumption DEF HistoryTyped, Alive, Gone
<1>2. Gone \in EntryAt(clock)
  BY <1>1, GoneType, Zenon
<1>3. Restored \in EntryAt(clock) /\ log \in Seq(RequestType)
  BY <1>2, Zenon DEF HistoryTyped, Restored
<1>4. Loaded = Replay(Restored, log, clock)
  BY Zenon DEF Loaded
<1>5. snapshot = Gone => Restored = Gone
  BY <1>1, Zenon DEF Restored
<1>6. Loaded \in EntryAt(clock)
  BY <1>1, <1>3, <1>4, ReplayType, SMTT(30)
<1>7. log # <<>> /\ log[1].name \in {"SET", "DEL"} => Replay(Restored, log, clock) = Replay(Gone, log, clock)
  BY <1>1, <1>2, <1>3, ReplayAnchored
<1> QED BY <1>4, <1>5, <1>6, <1>7, Zenon DEF Anchored

LEMMA LaterType ==
    ASSUME NEW t \in Nat
    PROVE  EntryAt(t) \subseteq EntryAt(t + 1)
<1>1. {Never} \cup 0..t + MaxTtl \subseteq {Never} \cup 0..(t + 1) + MaxTtl
  BY RecoveryAssumption
<1> QED BY <1>1 DEF EntryAt

LEMMA HistoryBegins == HistoryStart => HistoryInv
<1> SUFFICES ASSUME HistoryStart PROVE HistoryInv
  OBVIOUS
<1>1. clock = 0 /\ 0 \in 0..MaxClock /\ 0 \in Nat
  BY RecoveryAssumption DEF HistoryStart
<1>2. live = Gone /\ snapshot = Gone /\ log = <<>> /\ excused = FALSE
  BY DEF HistoryStart
<1>3. Gone \in EntryAt(clock) /\ Rewritten(Gone, 0) = <<>> /\ <<>> \in Seq(RequestType)
  BY <1>1, GoneType DEF Rewritten, Alive, Gone
<1>4. Coherent(Gone, 0, <<>>)
  <2>1. Sound(Gone, 0)
    BY Zenon DEF Sound
  <2> QED BY <1>1, <1>3, <2>1, CoherentRewritten
<1> QED BY <1>1, <1>2, <1>3, <1>4, Zenon DEF HistoryInv, HistoryTyped

LEMMA HistoryStep == HistoryInv /\ [HistoryNext]_historyVars => HistoryInv'
<1> SUFFICES ASSUME HistoryInv, [HistoryNext]_historyVars PROVE HistoryInv'
  OBVIOUS
<1>1. /\ clock \in 0..MaxClock /\ clock \in Nat /\ excused \in BOOLEAN
      /\ live \in EntryAt(clock) /\ snapshot \in EntryAt(clock) /\ log \in Seq(RequestType)
      /\ HistoryTyped
  BY Times, Zenon DEF HistoryInv, HistoryTyped
<1>2. ~excused => Coherent(live, clock, log)
  BY Zenon DEF HistoryInv
<1>3. ASSUME NEW c \in Requests, NEW fate \in Fates(c), Serve(c, fate) PROVE HistoryInv'
  <2>1. c \in RequestType
    BY RecoveryAssumption, Zenon
  <2>0. fate \in Outcomes
    BY Zenon DEF Fates, Outcomes
  <2>2. Append(log, c) \in Seq(RequestType) /\ Met(live, c, fate, clock) \in EntryAt(clock)
    BY <1>1, <2>0, <2>1, AppendProperties, MetType, SMTT(30)
  <2>3. ~excused => Coherent(Execute(live, c, clock), clock, Append(log, c))
    BY <1>1, <1>2, <2>1, CoherentExecute
  <2>4. Met(live, c, "done", clock) = Execute(live, c, clock)
    BY DEF Met
  <2> QED BY <1>1, <1>3, <2>2, <2>3, <2>4, Zenon DEF Serve, HistoryInv, HistoryTyped
<1>4. CASE Second
  <2>1. clock' = clock + 1 /\ live' = live /\ snapshot' = snapshot /\ log' = log /\ clock < MaxClock
    BY <1>4, Zenon DEF Second
  <2>2. clock + 1 \in 0..MaxClock
    BY <1>1, <2>1, RecoveryAssumption
  <2>3. live \in EntryAt(clock + 1) /\ snapshot \in EntryAt(clock + 1)
    BY <1>1, LaterType, Zenon
  <2>4. excused' = (excused \/ (live # Gone /\ ~Alive(live, clock + 1)))
    BY <1>4, Zenon DEF Second
  <2>5. ASSUME ~excused' PROVE Coherent(live, clock + 1, log)
    <3>1. ~excused /\ Sound(live, clock + 1)
      BY <2>4, <2>5, Zenon DEF Sound, Alive
    <3> QED BY <1>1, <1>2, <2>1, <3>1, CoherentLater
  <2> QED BY <1>1, <2>1, <2>2, <2>3, <2>4, <2>5, Zenon DEF HistoryInv, HistoryTyped
<1>5. CASE SaveSnapshot
  <2>1. snapshot' \in EntryAt(clock)
    BY <1>1, <1>5, GoneType, Zenon DEF SaveSnapshot
  <2> QED BY <1>1, <1>2, <1>5, <2>1, Zenon DEF SaveSnapshot, HistoryInv, HistoryTyped
<1>6. CASE RewriteLog
  <2>1. Rewritten(live, clock) \in Seq(RequestType)
    BY <1>1, CoherentRewritten, SMTT(30)
  <2>2. excused' = (live # Gone /\ ~Alive(live, clock))
    BY <1>6, Zenon DEF RewriteLog
  <2>3. ~excused' => Coherent(live, clock, Rewritten(live, clock))
    <3>1. ~excused' => Sound(live, clock)
      BY <2>2, Zenon DEF Sound, Alive
    <3> QED BY <1>1, <3>1, CoherentRewritten
  <2> QED BY <1>1, <1>6, <2>1, <2>2, <2>3, Zenon DEF RewriteLog, HistoryInv, HistoryTyped
<1>7. CASE FlushDb
  <2>1. Gone \in EntryAt(clock)
    BY <1>1, GoneType, Zenon
  <2> QED BY <1>1, <1>7, <2>1, Zenon DEF FlushDb, HistoryInv, HistoryTyped
<1>8. CASE Reboot
  <2>1. Loaded \in EntryAt(clock) /\ (Anchored => Loaded = Replay(Gone, log, clock))
    BY <1>1, LoadedAnchored, Zenon
  <2>2. ASSUME ~excused, Anchored PROVE Coherent(Loaded, clock, log)
    <3>1. Coherent(Replay(Gone, log, clock), clock, log)
      BY <1>1, <1>2, <2>2, CoherentReplay
    <3> QED BY <2>1, <2>2, <3>1, Zenon
  <2> QED BY <1>1, <1>8, <2>1, <2>2, Zenon DEF Reboot, HistoryInv, HistoryTyped
<1>9. CASE RebootShort
  <2>1. PICK e \in {Restored, Gone}, fates \in [1..Len(log) -> Outcomes] : live' = ReplayAs(e, log, fates, clock)
    BY <1>9, Zenon DEF RebootShort, Outcomes
  <2>2. Restored \in EntryAt(clock) /\ Gone \in EntryAt(clock)
    BY <1>1, GoneType, Zenon DEF Restored
  <2>3. \A i \in 1..Len(log) : fates[i] \in Outcomes
    BY <2>1, Zenon
  <2>4. live' \in EntryAt(clock)
    BY <1>1, <2>1, <2>2, <2>3, ReplayAsType, Zenon
  <2> QED BY <1>1, <1>9, <2>4, Zenon DEF RebootShort, HistoryInv, HistoryTyped
<1>10. CASE UNCHANGED historyVars
  BY <1>1, <1>2, <1>10, Zenon DEF historyVars, HistoryInv, HistoryTyped
<1> QED BY <1>3, <1>4, <1>5, <1>6, <1>7, <1>8, <1>9, <1>10, Zenon DEF HistoryNext

LEMMA HistoryInvFaithful == HistoryInv => RecoveryFaithful
<1> SUFFICES ASSUME HistoryInv, ~excused, Anchored
             PROVE  /\ Loaded.v = live.v
                    /\ \/ Loaded.exp = live.exp
                       \/ live.exp # Never /\ Loaded.exp \in live.exp..live.exp + clock
  BY Zenon DEF RecoveryFaithful
<1>1. HistoryTyped /\ Coherent(live, clock, log)
  BY Zenon DEF HistoryInv
<1>2. clock \in clock..MaxClock /\ live.exp \in Nat /\ clock \in Nat
  BY <1>1, RecoveryAssumption DEF HistoryTyped, EntryAt
<1>3. Loaded = Replay(Gone, log, clock) /\ Loaded \in EntryAt(clock)
  BY <1>1, LoadedAnchored, Zenon
<1>4. Fits(live, Loaded, clock)
  BY <1>1, <1>2, <1>3, Zenon DEF Coherent
<1>5. Loaded.exp \in Nat
  BY <1>2, <1>3, RecoveryAssumption DEF EntryAt
<1> QED BY <1>2, <1>4, <1>5 DEF Fits

\* A restart from snapshot and log gives the key the value and, but for a later expiry, the
\* entry it had, unless an expiry, a refused write, an eviction, a FLUSHDB or a restart on a
\* log without the key's beginning came after the last rewrite: for every command, value and
\* time to live, and logs of any length.
THEOREM RecoveryIsFaithful == HistorySpec => []RecoveryFaithful
<1>1. HistoryInv /\ [HistoryNext]_historyVars => HistoryInv'
  BY HistoryStep
<1>2. HistoryStart => HistoryInv
  BY HistoryBegins
<1>3. HistoryInv => RecoveryFaithful
  BY HistoryInvFaithful
<1> QED BY <1>1, <1>2, <1>3, PTL DEF HistorySpec

----------------------------------------------------------------------------
(* SCAN *)

\* Sequences and the sets of their elements.
LEMMA AppendElements ==
    ASSUME NEW S, NEW s \in Seq(S), NEW e \in S
    PROVE  /\ Append(s, e) \in Seq(S)
           /\ Range(Append(s, e)) = Range(s) \cup {e}
           /\ IsInjective(s) /\ e \notin Range(s) => IsInjective(Append(s, e))
<1> DEFINE n == Len(s)
           a == Append(s, e)
<1>1. a \in Seq(S) /\ Len(a) = n + 1 /\ a[n + 1] = e /\ (\A i \in 1..n : a[i] = s[i]) /\ n \in Nat
  BY AppendProperties, LenProperties
<1>2. DOMAIN s = 1..n /\ DOMAIN a = 1..n + 1
  BY <1>1, LenProperties
<1> HIDE DEF a
<1>3. \A i \in 1..n + 1 : i = n + 1 \/ i \in 1..n
  BY <1>1
<1>4. n + 1 \in 1..n + 1 /\ \A i \in 1..n : i \in 1..n + 1
  BY <1>1
<1>5. Range(s) = {s[i] : i \in 1..n} /\ Range(a) = {a[i] : i \in 1..n + 1}
  BY <1>2, Zenon DEF Range
<1>6. Range(a) = Range(s) \cup {e}
  BY <1>1, <1>3, <1>4, <1>5, Zenon
<1>7. ASSUME IsInjective(s), e \notin Range(s) PROVE IsInjective(a)
  <2>1. \A i, j \in 1..n : s[i] = s[j] => i = j
    BY <1>2, <1>7, Zenon DEF IsInjective
  <2>2. \A i \in 1..n : s[i] # e
    BY <1>5, <1>7, Zenon
  <2>3. \A i, j \in 1..n + 1 : a[i] = a[j] => i = j
    BY <1>1, <1>3, <2>1, <2>2, Zenon
  <2> QED BY <1>2, <2>3, Zenon DEF IsInjective
<1> QED BY <1>1, <1>6, <1>7, Zenon DEF a

\* Places are ordered by shard first: a position is less than CursorBase.
LEMMA PlaceOrder ==
    ASSUME NEW s \in Nat, NEW r \in Nat, s < r, NEW p \in Nat, p < CursorBase, NEW q \in Nat
    PROVE  s * CursorBase + p < r * CursorBase + q
<1>1. CursorBase \in Nat
  BY ScanAssumption
<1>2. PICK d \in Nat : r = s + 1 + d
  <2>1. r - s - 1 \in Nat /\ r = s + 1 + (r - s - 1)
    OBVIOUS
  <2> QED BY <2>1
<1>3. r * CursorBase = s * CursorBase + CursorBase + d * CursorBase
  BY <1>1, <1>2
<1>4. d * CursorBase \in Nat /\ s * CursorBase \in Nat
  BY <1>1
<1> QED BY <1>1, <1>3, <1>4

LEMMA Products ==
    ASSUME NEW a \in Nat, NEW b \in Nat
    PROVE  a * b \in Nat /\ (a + 1) * b = a * b + b
<1>1. a * b \in Nat
  OBVIOUS
<1>2. (a + 1) * b = a * b + b
  OBVIOUS
<1> QED BY <1>1, <1>2

LEMMA DivMod ==
    ASSUME NEW c \in Nat, NEW b \in Nat, b > 0
    PROVE  c \div b \in Nat /\ c % b \in 0..b - 1 /\ (c \div b) * b + (c % b) = c
<1>1. c % b \in 0..b - 1
  OBVIOUS
<1>2. (c \div b) * b + (c % b) = c
  OBVIOUS
<1>3. c \div b \in Nat
  OBVIOUS
<1> QED BY <1>1, <1>2, <1>3

\* What the store is.
LEMMA Shards ==
    ASSUME shards \in Stores
    PROVE  /\ Len(shards) \in Nat
           /\ \A s \in Nat : s < Len(shards) =>
                 Len(shards[s + 1]) \in Nat /\ Len(shards[s + 1]) <= CursorBase
<1>1. shards \in Seq(Seq({"match", "other", "expired"}))
  BY ScanAssumption
<1>2. Len(shards) \in Nat /\ \A i \in 1..Len(shards) : shards[i] \in Seq({"match", "other", "expired"})
  BY <1>1, LenProperties, ElementOfSeq
<1>3. \A i \in 1..Len(shards) : Len(shards[i]) \in Nat
  BY <1>2, LenProperties, Zenon
<1>4. \A i \in 1..Len(shards) : Len(shards[i]) <= CursorBase
  BY ScanAssumption, Zenon
<1>5. \A s \in Nat : s < Len(shards) => s + 1 \in 1..Len(shards)
  BY <1>2
<1> QED BY <1>2, <1>3, <1>4, <1>5, Zenon

LEMMA MatchingEntry ==
    ASSUME shards \in Stores, NEW e \in Matching
    PROVE  /\ e = <<e[1], e[2]>> /\ e[1] \in Nat /\ e[2] \in Nat /\ e[1] < Len(shards)
           /\ e[2] < CursorBase /\ e[2] < Len(shards[e[1] + 1]) /\ Place(e) \in Nat
           /\ Place(e) = e[1] * CursorBase + e[2]
<1>1. CursorBase \in Nat /\ Len(shards) \in Nat
  BY ScanAssumption, Shards
<1>2. e \in (0..Len(shards) - 1) \X (0..CursorBase - 1) /\ e[2] < Len(shards[e[1] + 1])
  BY DEF Matching
<1>3. e = <<e[1], e[2]>> /\ e[1] \in 0..Len(shards) - 1 /\ e[2] \in 0..CursorBase - 1
  BY <1>2
<1>4. e[1] \in Nat /\ e[2] \in Nat /\ e[1] < Len(shards) /\ e[2] < CursorBase
  BY <1>1, <1>3
<1>5. e[1] * CursorBase + e[2] \in Nat
  BY <1>1, <1>4
<1> QED BY <1>2, <1>3, <1>4, <1>5, Zenon DEF Place

\* Between an entry and the place behind it there is no other.
LEMMA NextPlace ==
    ASSUME shards \in Stores, NEW s \in Nat, s < Len(shards), NEW p \in Nat, p < Len(shards[s + 1]),
           NEW e \in Matching, s * CursorBase + p <= Place(e)
    PROVE  e = <<s, p>> \/ s * CursorBase + p + 1 <= Place(e)
<1>1. /\ e = <<e[1], e[2]>> /\ e[1] \in Nat /\ e[2] \in Nat /\ e[2] < CursorBase /\ Place(e) \in Nat
      /\ Place(e) = e[1] * CursorBase + e[2]
  BY MatchingEntry
<1>2. Len(shards[s + 1]) \in Nat /\ Len(shards[s + 1]) <= CursorBase /\ CursorBase \in Nat
  BY ScanAssumption, Shards
<1>3. p < CursorBase /\ s * CursorBase \in Nat /\ e[1] * CursorBase \in Nat
  <2>1. p < CursorBase
    BY <1>2
  <2> QED BY <1>1, <1>2, <2>1, Products, Zenon
<1>4. CASE e[1] < s
  <2>1. Place(e) < s * CursorBase + p
    BY <1>1, <1>4, PlaceOrder, SMTT(30)
  <2> QED BY <1>1, <1>3, <2>1, SMTT(30)
<1>5. CASE s < e[1]
  <2>1. s * CursorBase + p < Place(e)
    BY <1>1, <1>3, <1>5, PlaceOrder, SMTT(30)
  <2> QED BY <1>1, <1>3, <2>1, SMTT(30)
<1>6. CASE e[1] = s
  BY <1>1, <1>3, <1>6
<1> QED BY <1>1, <1>4, <1>5, <1>6, SMTT(30)

\* Behind the last entry of a shard comes the next shard.
LEMMA NextShardPlace ==
    ASSUME shards \in Stores, NEW s \in Nat, s < Len(shards), NEW p \in Nat, p >= Len(shards[s + 1]),
           NEW e \in Matching, s * CursorBase + p <= Place(e)
    PROVE  (s + 1) * CursorBase <= Place(e)
<1>1. /\ e[1] \in Nat /\ e[2] \in Nat /\ e[2] < CursorBase /\ Place(e) \in Nat
      /\ Place(e) = e[1] * CursorBase + e[2] /\ e[2] < Len(shards[e[1] + 1])
  BY MatchingEntry
<1>2. Len(shards[s + 1]) \in Nat /\ CursorBase \in Nat
  BY ScanAssumption, Shards
<1>3. s * CursorBase \in Nat /\ e[1] * CursorBase \in Nat /\ (s + 1) * CursorBase = s * CursorBase + CursorBase
  BY <1>1, <1>2, Products, Zenon
<1>4. CASE e[1] < s
  <2>1. Place(e) < s * CursorBase + p
    BY <1>1, <1>4, PlaceOrder, SMTT(30)
  <2> QED BY <1>1, <1>3, <2>1, SMTT(30)
<1>5. CASE e[1] = s
  <2>1. e[2] < Len(shards[s + 1])
    BY <1>1, <1>5, Zenon
  <2> QED BY <1>1, <1>2, <1>3, <1>5, <2>1, SMTT(30)
<1>6. CASE s < e[1]
  <2>1. CASE s + 1 = e[1]
    <3>1. PICK m, y : m = (s + 1) * CursorBase /\ y = e[2]
      BY Zenon
    <3>2. m \in Nat /\ y \in Nat /\ Place(e) = m + y
      BY <1>1, <1>3, <2>1, <3>1, Zenon
    <3> QED BY <3>1, <3>2
  <2>2. CASE s + 1 < e[1]
    <3>1. 0 < CursorBase /\ 0 \in Nat /\ s + 1 \in Nat
      BY ScanAssumption
    <3>2. (s + 1) * CursorBase + 0 < Place(e)
      BY <1>1, <2>2, <3>1, PlaceOrder
    <3> QED BY <1>1, <1>2, <1>3, <3>2
  <2> QED BY <1>1, <1>6, <2>1, <2>2, SMTT(30)
<1> QED BY <1>1, <1>4, <1>5, <1>6, SMTT(30)

\* How far the iteration has come, as a cursor.
Here == IF phase = "scan" THEN shard * CursorBase + position ELSE cursor

ScanTyped ==
    /\ shards \in Stores /\ phase \in {"client", "scan", "done"}
    /\ start \in Nat /\ cursor \in Nat /\ asked \in Nat /\ shard \in Nat /\ position \in Nat
    /\ returned \in Seq(Nat \X Nat) /\ stops \subseteq Nat \X Nat

\* Of the entries M, those from a up to h are in r, but for the stops S, which are passed.
UpTo(M, a, h, r, S) ==
    /\ a <= h
    /\ \A e \in S : Place(e) < h
    /\ Range(r) = {e \in M : a <= Place(e) /\ Place(e) < h} \ S

Since(M, a) == {e \in M : a <= Place(e)}

\* The inductive invariant.
ScanInv ==
    /\ ScanTyped /\ IsInjective(returned)
    /\ phase = "scan" => position <= CursorBase /\ asked <= Here
    /\ phase = "client" /\ stops # {} => asked < cursor /\ cursor < Len(shards) * CursorBase
    /\ phase # "done" => UpTo(Matching, start, Here, returned, stops)
    /\ phase = "done" => Range(returned) = Since(Matching, start) \ stops

LEMMA ScanBegins == ScanInit => ScanInv
<1> SUFFICES ASSUME NEW st \in Stores, NEW c \in Cursors, ScanStart(st, c) PROVE ScanInv
  BY Zenon DEF ScanInit
<1>1. /\ shards = st /\ start = c /\ cursor = c /\ phase = "client" /\ asked = c /\ shard = 0 /\ position = 0
      /\ returned = <<>> /\ stops = {}
  BY Zenon DEF ScanStart
<1>2. c \in Nat /\ 0 \in Nat
  BY ScanAssumption
<1>3. <<>> \in Seq(Nat \X Nat) /\ DOMAIN <<>> = {}
  BY EmptySeq
<1>4. Range(<<>>) = {} /\ IsInjective(<<>>)
  BY <1>3, Zenon DEF Range, IsInjective
<1>5. ScanTyped
  BY <1>1, <1>2, <1>3, Zenon DEF ScanTyped
<1>6. phase # "scan" /\ phase # "done" /\ Here = c /\ c <= c
  BY <1>1, <1>2 DEF Here
<1>7. \A e \in Matching : ~(c <= Place(e) /\ Place(e) < c)
  BY <1>1, <1>2, MatchingEntry
<1>8. UpTo(Matching, start, c, returned, stops)
  BY <1>1, <1>4, <1>6, <1>7, ZenonT(60) DEF UpTo
<1> QED BY <1>1, <1>4, <1>5, <1>6, <1>8, Zenon DEF ScanInv

\* A full call stops: its cursor is behind the entry it stopped at, and nothing is between.
LEMMA ResumePlace ==
    ASSUME shards \in Stores, NEW s \in Nat, s < Len(shards), NEW p \in Nat, p < Len(shards[s + 1])
    PROVE  LET c == Resume(s, p)
               h == s * CursorBase + p
           IN /\ c \in Nat
              /\ c # 0 => h < c /\ c < Len(shards) * CursorBase
              /\ \A e \in Matching : h <= Place(e) => e = <<s, p>> \/ (c # 0 /\ c <= Place(e))
<1> DEFINE c == Resume(s, p)
           h == s * CursorBase + p
           n == Len(shards[s + 1])
<1>1. n \in Nat /\ n <= CursorBase /\ CursorBase \in Nat /\ CursorBase > 0 /\ Len(shards) \in Nat
  BY ScanAssumption, Shards
<1>2. s * CursorBase \in Nat /\ (s + 1) * CursorBase = s * CursorBase + CursorBase /\ h \in Nat /\ p < CursorBase
  <2>1. s * CursorBase \in Nat /\ (s + 1) * CursorBase = s * CursorBase + CursorBase
    BY <1>1, Products, Zenon
  <2> QED BY <1>1, <2>1
<1>3. h < Len(shards) * CursorBase
  <2>1. s * CursorBase + p < Len(shards) * CursorBase + 0
    BY <1>1, <1>2, PlaceOrder, SMTT(30)
  <2>2. Len(shards) * CursorBase \in Nat
    BY <1>1, Products, Zenon
  <2> QED BY <2>1, <2>2
<1>4. CASE p + 1 < n
  <2>1. c = h + 1
    BY <1>2, <1>4 DEF Resume
  <2>2. h + 1 < Len(shards) * CursorBase
    <3>1. p + 1 \in Nat /\ p + 1 < CursorBase /\ 0 \in Nat
      BY <1>1, <1>4
    <3>2. s * CursorBase + (p + 1) < Len(shards) * CursorBase + 0
      BY <1>1, <3>1, PlaceOrder, SMTT(30)
    <3>3. Len(shards) * CursorBase \in Nat
      BY <1>1, Products, Zenon
    <3> QED BY <1>2, <3>2, <3>3
  <2>3. \A e \in Matching : h <= Place(e) => e = <<s, p>> \/ h + 1 <= Place(e)
    BY NextPlace
  <2>4. h + 1 \in Nat /\ h + 1 # 0 /\ h < h + 1
    BY <1>2, SMTT(30)
  <2> HIDE DEF h
  <2> QED BY <2>1, <2>2, <2>3, <2>4, Zenon DEF h
<1>5. CASE ~(p + 1 < n)
  <2>0. p + 1 \in Nat /\ p + 1 >= n
    BY <1>1, <1>5
  <2>1. ASSUME NEW e \in Matching, h <= Place(e) PROVE e = <<s, p>> \/ (s + 1) * CursorBase <= Place(e)
    <3>1. e = <<s, p>> \/ h + 1 <= Place(e)
      BY <2>1, NextPlace
    <3>2. h + 1 <= Place(e) => s * CursorBase + (p + 1) <= Place(e)
      BY <1>2
    <3>3. s * CursorBase + (p + 1) <= Place(e) => (s + 1) * CursorBase <= Place(e)
      BY <2>0, NextShardPlace
    <3> QED BY <3>1, <3>2, <3>3, Zenon
  <2>2. CASE s + 1 < Len(shards)
    <3>1. c = (s + 1) * CursorBase
      BY <1>5, <2>2, Zenon DEF Resume
    <3>2. (s + 1) * CursorBase \in Nat /\ (s + 1) * CursorBase # 0 /\ h < (s + 1) * CursorBase
      BY <1>1, <1>2
    <3>3. (s + 1) * CursorBase < Len(shards) * CursorBase
      <4>1. (s + 1) * CursorBase + 0 < Len(shards) * CursorBase + 0
        BY <1>1, <2>2, PlaceOrder
      <4>2. Len(shards) * CursorBase \in Nat
        BY <1>1, Products, Zenon
      <4> QED BY <3>2, <4>1, <4>2, SMTT(30)
    <3> HIDE DEF h
    <3> QED BY <2>1, <3>1, <3>2, <3>3, Zenon DEF h
  <2>3. CASE ~(s + 1 < Len(shards))
    <3>1. c = 0
      BY <1>5, <2>3, Zenon DEF Resume
    <3>2. ASSUME NEW e \in Matching PROVE ~((s + 1) * CursorBase <= Place(e))
      <4>1. /\ e[1] \in Nat /\ e[2] \in Nat /\ e[1] < Len(shards) /\ e[2] < CursorBase
            /\ Place(e) = e[1] * CursorBase + e[2] /\ Place(e) \in Nat
        BY MatchingEntry
      <4>2. e[1] < s + 1 /\ s + 1 \in Nat /\ 0 \in Nat
        BY <1>1, <2>3, <4>1
      <4>3. Place(e) < (s + 1) * CursorBase + 0
        BY <4>1, <4>2, PlaceOrder
      <4> QED BY <1>1, <1>2, <4>1, <4>3, SMTT(30)
    <3>3. 0 \in Nat
      OBVIOUS
    <3> HIDE DEF h
    <3> QED BY <2>1, <3>1, <3>2, <3>3, Zenon DEF h
  <2> QED BY <2>2, <2>3
<1> QED BY <1>4, <1>5

Placed(X) == \A e \in X : Place(e) \in Nat
NoneIn(M, h, k) == \A e \in M : h <= Place(e) => k <= Place(e)
AllBefore(M, h) == \A e \in M : Place(e) < h
OnlyOneIn(M, h, k, x) == \A e \in M : h <= Place(e) => e = x \/ k <= Place(e)

LEMMA UpToEmpty ==
    ASSUME NEW M, NEW S, Placed(M), Placed(S), NEW a \in Nat, NEW h \in Nat, NEW k \in Nat, NEW r,
           UpTo(M, a, h, r, S), h <= k, NoneIn(M, h, k)
    PROVE  UpTo(M, a, k, r, S)
<1>1. a <= k /\ \A e \in S : Place(e) < k
  BY DEF UpTo, Placed
<1>2. \A e \in M : Place(e) < k <=> Place(e) < h
  BY DEF Placed, NoneIn
<1> QED BY <1>1, <1>2, Zenon DEF UpTo

LEMMA UpToStop ==
    ASSUME NEW M, NEW S, Placed(M), Placed(S), NEW a \in Nat, NEW h \in Nat, NEW k \in Nat, NEW r,
           UpTo(M, a, h, r, S), h < k, NEW x, Place(x) = h, OnlyOneIn(M, h, k, x)
    PROVE  UpTo(M, a, k, r, S \cup {x})
<1>1. a <= k /\ \A e \in S \cup {x} : Place(e) < k
  BY DEF UpTo, Placed
<1>2. \A e \in M : e # x => (Place(e) < k <=> Place(e) < h)
  BY DEF Placed, OnlyOneIn
<1>3. ~(Place(x) < h)
  OBVIOUS
<1> QED BY <1>1, <1>2, <1>3, Zenon DEF UpTo

LEMMA UpToMatch ==
    ASSUME NEW M, NEW S, Placed(M), Placed(S), NEW a \in Nat, NEW h \in Nat, NEW k \in Nat,
           NEW T, NEW r \in Seq(T), IsInjective(r),
           UpTo(M, a, h, r, S), h < k, NEW x \in M, x \in T, Place(x) = h, OnlyOneIn(M, h, k, x)
    PROVE  UpTo(M, a, k, Append(r, x), S) /\ IsInjective(Append(r, x)) /\ Append(r, x) \in Seq(T)
<1>1. a <= k /\ (\A e \in S : Place(e) < k) /\ a <= Place(x) /\ Place(x) < k /\ ~(Place(x) < h)
  BY DEF UpTo, Placed
<1>2. \A e \in M : e # x => (Place(e) < k <=> Place(e) < h)
  BY DEF Placed, OnlyOneIn
<1>3. x \notin S /\ x \notin Range(r)
  BY <1>1, Zenon DEF UpTo
<1>4. Append(r, x) \in Seq(T) /\ Range(Append(r, x)) = Range(r) \cup {x} /\ IsInjective(Append(r, x))
  BY <1>3, AppendElements
<1> QED BY <1>1, <1>2, <1>3, <1>4, Zenon DEF UpTo

LEMMA UpToAll ==
    ASSUME NEW M, NEW S, NEW a, NEW h, NEW r, UpTo(M, a, h, r, S), AllBefore(M, h)
    PROVE  Range(r) = Since(M, a) \ S
BY Zenon DEF UpTo, Since, AllBefore

LEMMA AllPlaced ==
    ASSUME ScanTyped
    PROVE  Placed(Matching) /\ Placed(stops)
<1>1. shards \in Stores /\ stops \subseteq Nat \X Nat
  BY Zenon DEF ScanTyped
<1>2. Placed(Matching)
  BY <1>1, MatchingEntry, Zenon DEF Placed
<1>3. \A e \in Nat \X Nat : e[1] * CursorBase + e[2] \in Nat
  <2>1. CursorBase \in Nat
    BY ScanAssumption
  <2>2. ASSUME NEW e \in Nat \X Nat PROVE e[1] * CursorBase + e[2] \in Nat
    <3>1. e[1] \in Nat /\ e[2] \in Nat
      OBVIOUS
    <3>2. e[1] * CursorBase \in Nat
      BY <2>1, <3>1, Products, Zenon
    <3> QED BY <3>1, <3>2
  <2> QED BY <2>2, Zenon
<1> QED BY <1>1, <1>2, <1>3, Zenon DEF Placed, Place

\* The facts a step starts from.
LEMMA InScan ==
    ASSUME ScanInv, phase = "scan"
    PROVE  /\ shards \in Stores /\ Len(shards) \in Nat /\ CursorBase \in Nat /\ CursorBase > 0
           /\ start \in Nat /\ asked \in Nat /\ shard \in Nat /\ position \in Nat
           /\ position <= CursorBase /\ shard * CursorBase \in Nat /\ shard * CursorBase + position \in Nat
           /\ asked <= shard * CursorBase + position
           /\ UpTo(Matching, start, shard * CursorBase + position, returned, stops)
           /\ Placed(Matching) /\ Placed(stops)
<1>1. ScanTyped /\ position <= CursorBase /\ asked <= Here /\ UpTo(Matching, start, Here, returned, stops)
  BY DEF ScanInv
<1>2. Here = shard * CursorBase + position
  BY Zenon DEF Here
<1>3. shards \in Stores /\ start \in Nat /\ asked \in Nat /\ shard \in Nat /\ position \in Nat
  BY <1>1, Zenon DEF ScanTyped
<1>4. CursorBase \in Nat /\ CursorBase > 0 /\ Len(shards) \in Nat
  BY <1>3, ScanAssumption, Shards
<1>5. shard * CursorBase \in Nat
  BY <1>3, <1>4, Products, Zenon
<1>6. shard * CursorBase + position \in Nat
  BY <1>3, <1>5
<1> QED BY <1>1, <1>2, <1>3, <1>4, <1>5, <1>6, AllPlaced, Zenon

\* What no step changes.
LEMMA SameStore ==
    ASSUME shards' = shards
    PROVE  Matching' = Matching /\ Len(shards)' = Len(shards)
BY Zenon DEF Matching

LEMMA BeginCallStep ==
    ASSUME ScanInv, NEW n \in Hints, BeginCall(n)
    PROVE  ScanInv'
<1> DEFINE s == cursor \div CursorBase
           p == cursor % CursorBase
<1>1. /\ ScanTyped /\ IsInjective(returned) /\ phase = "client"
      /\ UpTo(Matching, start, cursor, returned, stops)
  BY DEF ScanInv, BeginCall, Here
<1>2. /\ shards \in Stores /\ start \in Nat /\ cursor \in Nat /\ returned \in Seq(Nat \X Nat) /\ stops \subseteq Nat \X Nat
  BY <1>1, Zenon DEF ScanTyped
<1>3. CursorBase \in Nat /\ CursorBase > 0 /\ Len(shards) \in Nat
  BY <1>2, ScanAssumption, Shards, SMTT(30)
<1>4. s \in Nat /\ p \in 0..CursorBase - 1 /\ s * CursorBase + p = cursor
  BY <1>2, <1>3, DivMod, SMTT(30)
<1>5. p \in Nat /\ p <= CursorBase /\ cursor <= cursor /\ 0 \in Nat
  BY <1>2, <1>3, <1>4
<1>6. /\ shards' = shards /\ start' = start /\ returned' = returned /\ stops' = stops
      /\ asked' = cursor /\ shard' = s /\ position' = p
  BY Zenon DEF BeginCall
<1>7. Matching' = Matching
  BY <1>6, SameStore, Zenon
<1> HIDE DEF s, p
<1>8. CASE s >= Len(shards)
  <2>1. cursor' = 0 /\ phase' = "done"
    BY <1>8 DEF BeginCall, Return, s
  <2>2. ASSUME NEW e \in Matching PROVE Place(e) < cursor
    <3>1. /\ e[1] \in Nat /\ e[2] \in Nat /\ e[1] < Len(shards) /\ e[2] < CursorBase
          /\ Place(e) = e[1] * CursorBase + e[2]
      BY <1>2, MatchingEntry
    <3>2. e[1] < s
      BY <1>3, <1>4, <1>8, <3>1
    <3>3. Place(e) < s * CursorBase + p
      BY <1>4, <1>5, <3>1, <3>2, PlaceOrder
    <3> QED BY <1>4, <3>3, Zenon
  <2>3. Range(returned) = Since(Matching, start) \ stops
    <3>1. AllBefore(Matching, cursor)
      BY <2>2, Zenon DEF AllBefore
    <3> QED BY <1>1, <3>1, UpToAll
  <2>4. phase' # "scan" /\ phase' # "client" /\ phase' \in {"client", "scan", "done"}
    BY <2>1
  <2> QED BY <1>1, <1>2, <1>4, <1>5, <1>6, <1>7, <2>1, <2>3, <2>4, Zenon DEF ScanInv, ScanTyped
<1>9. CASE ~(s >= Len(shards))
  <2>1. cursor' = cursor /\ phase' = "scan"
    BY <1>9 DEF BeginCall, s
  <2>2. Here' = cursor
    BY <1>4, <1>6, <2>1, Zenon DEF Here
  <2>3. phase' # "done" /\ phase' # "client" /\ phase' \in {"client", "scan", "done"}
    BY <2>1
  <2> QED BY <1>1, <1>2, <1>4, <1>5, <1>6, <1>7, <2>1, <2>2, <2>3, Zenon DEF ScanInv, ScanTyped
<1> QED BY <1>8, <1>9, SMTT(30)

LEMMA StopFullStep ==
    ASSUME ScanInv, StopFull
    PROVE  ScanInv'
<1> DEFINE h == shard * CursorBase + position
           c == Resume(shard, position)
           x == <<shard, position>>
           top == Len(shards) * CursorBase
<1>1. phase = "scan" /\ shard < Len(shards) /\ position < Len(shards[shard + 1])
  BY Zenon DEF StopFull, InShard
<1>2. /\ shards \in Stores /\ Len(shards) \in Nat /\ CursorBase \in Nat /\ CursorBase > 0
      /\ start \in Nat /\ asked \in Nat /\ shard \in Nat /\ position \in Nat /\ h \in Nat /\ asked <= h
      /\ UpTo(Matching, start, h, returned, stops) /\ Placed(Matching) /\ Placed(stops)
  BY <1>1, InScan, Zenon
<1>3. ScanTyped /\ IsInjective(returned)
  BY DEF ScanInv
<1>4. /\ c \in Nat /\ (c # 0 => h < c /\ c < top)
      /\ \A e \in Matching : h <= Place(e) => e = x \/ (c # 0 /\ c <= Place(e))
  BY <1>1, <1>2, ResumePlace
<1>5. /\ shards' = shards /\ start' = start /\ returned' = returned /\ stops' = stops \cup {x}
      /\ asked' = asked /\ shard' = shard /\ position' = position
      /\ cursor' = c /\ phase' = IF c = 0 THEN "done" ELSE "client"
  BY Zenon DEF StopFull, Return
<1>6. Matching' = Matching /\ Len(shards)' = Len(shards)
  BY <1>5, SameStore, Zenon
<1>7. Place(x) = h /\ x \in Nat \X Nat
  BY <1>2 DEF Place
<1> HIDE DEF h, c, x
<1>8. ScanTyped'
  <2>1. phase' \in {"client", "scan", "done"}
    BY <1>5
  <2> QED BY <1>3, <1>4, <1>5, <1>7, <2>1, Zenon DEF ScanTyped
<1>9. CASE c # 0
  <2>1. phase' = "client" /\ phase' # "scan" /\ phase' # "done" /\ Here' = c
    BY <1>5, <1>9 DEF Here
  <2>2. OnlyOneIn(Matching, h, c, x) /\ h < c
    BY <1>4, <1>9, Zenon DEF OnlyOneIn
  <2>3. UpTo(Matching, start, c, returned, stops \cup {x})
    BY <1>2, <1>4, <1>7, <2>2, UpToStop, SMTT(30)
  <2>4. asked < c /\ c < top
    BY <1>2, <1>4, <1>9
  <2> QED BY <1>3, <1>5, <1>6, <1>8, <2>1, <2>3, <2>4, Zenon DEF ScanInv
<1>10. CASE c = 0
  <2> DEFINE k == h + 1
  <2>1. phase' = "done" /\ phase' # "scan" /\ phase' # "client"
    BY <1>5, <1>10
  <2>2. \A e \in Matching : h <= Place(e) => e = x
    BY <1>4, <1>10, Zenon
  <2>3. OnlyOneIn(Matching, h, k, x) /\ k \in Nat /\ h < k
    <3>1. OnlyOneIn(Matching, h, k, x)
      BY <2>2, Zenon DEF OnlyOneIn
    <3> QED BY <1>2, <3>1
  <2>4. UpTo(Matching, start, k, returned, stops \cup {x})
    BY <1>2, <1>7, <2>3, UpToStop, Zenon
  <2>5. AllBefore(Matching, k)
    BY <1>2, <1>7, <2>2 DEF Placed, AllBefore
  <2>6. Range(returned) = Since(Matching, start) \ (stops \cup {x})
    BY <2>4, <2>5, UpToAll
  <2> QED BY <1>3, <1>5, <1>6, <1>8, <2>1, <2>6, Zenon DEF ScanInv
<1> QED BY <1>9, <1>10

LEMMA LookAtStep ==
    ASSUME ScanInv, LookAt
    PROVE  ScanInv'
<1> DEFINE h == shard * CursorBase + position
           x == <<shard, position>>
<1>1. phase = "scan" /\ shard < Len(shards) /\ position < Len(shards[shard + 1])
  BY Zenon DEF LookAt, InShard
<1>2. /\ shards \in Stores /\ Len(shards) \in Nat /\ CursorBase \in Nat /\ CursorBase > 0
      /\ start \in Nat /\ asked \in Nat /\ shard \in Nat /\ position \in Nat /\ h \in Nat /\ asked <= h
      /\ UpTo(Matching, start, h, returned, stops) /\ Placed(Matching) /\ Placed(stops)
      /\ shard * CursorBase \in Nat
  BY <1>1, InScan, Zenon
<1>3. ScanTyped /\ IsInjective(returned) /\ returned \in Seq(Nat \X Nat)
  BY DEF ScanInv, ScanTyped
<1>4. Len(shards[shard + 1]) \in Nat /\ Len(shards[shard + 1]) <= CursorBase
  BY <1>1, <1>2, Shards
<1>5. /\ position + 1 \in Nat /\ position + 1 <= CursorBase /\ h + 1 \in Nat /\ h < h + 1 /\ asked <= h + 1 /\ h <= h + 1
      /\ shard * CursorBase + (position + 1) = h + 1 /\ position \in 0..CursorBase - 1 /\ shard \in 0..Len(shards) - 1
  BY <1>1, <1>2, <1>4
<1>6. /\ shards' = shards /\ start' = start /\ stops' = stops /\ asked' = asked /\ shard' = shard
      /\ position' = position + 1 /\ cursor' = cursor /\ phase' = phase
  BY Zenon DEF LookAt
<1>7. Matching' = Matching /\ Len(shards)' = Len(shards)
  BY <1>6, SameStore, Zenon
<1>8. Place(x) = h /\ x \in Nat \X Nat /\ x \in (0..Len(shards) - 1) \X (0..CursorBase - 1) /\ x[1] = shard /\ x[2] = position
  BY <1>2, <1>5 DEF Place
<1>9. \A e \in Matching : h <= Place(e) => e = x \/ h + 1 <= Place(e)
  BY <1>1, <1>2, NextPlace
<1>10. phase' # "client" /\ phase' # "done" /\ phase' = "scan" /\ Here' = h + 1
  BY <1>1, <1>5, <1>6 DEF Here
<1> HIDE DEF h, x
<1>11. OnlyOneIn(Matching, h, h + 1, x)
  BY <1>9, Zenon DEF OnlyOneIn
<1>12. CASE shards[shard + 1][position + 1] = "match"
  <2>1. returned' = Append(returned, x)
    BY <1>12, Zenon DEF LookAt, x
  <2>2. x \in Matching
    BY <1>1, <1>8, <1>12, Zenon DEF Matching
  <2>3. /\ UpTo(Matching, start, h + 1, Append(returned, x), stops) /\ IsInjective(Append(returned, x))
        /\ Append(returned, x) \in Seq(Nat \X Nat)
    BY <1>2, <1>3, <1>5, <1>8, <1>11, <2>2, UpToMatch, Zenon
  <2>4. ScanTyped'
    BY <1>3, <1>5, <1>6, <2>1, <2>3, Zenon DEF ScanTyped
  <2> QED BY <1>5, <1>6, <1>7, <1>10, <2>1, <2>3, <2>4, Zenon DEF ScanInv
<1>13. CASE shards[shard + 1][position + 1] # "match"
  <2>1. returned' = returned
    BY <1>13, Zenon DEF LookAt
  <2>2. x \notin Matching
    BY <1>8, <1>13, Zenon DEF Matching
  <2>3. NoneIn(Matching, h, h + 1)
    BY <1>9, <2>2, Zenon DEF NoneIn
  <2>4. UpTo(Matching, start, h + 1, returned, stops)
    BY <1>2, <1>5, <2>3, UpToEmpty
  <2>5. ScanTyped'
    BY <1>3, <1>5, <1>6, <2>1, Zenon DEF ScanTyped
  <2> QED BY <1>3, <1>5, <1>6, <1>7, <1>10, <2>1, <2>4, <2>5, Zenon DEF ScanInv
<1> QED BY <1>12, <1>13

LEMMA NextShardStep ==
    ASSUME ScanInv, NextShard
    PROVE  ScanInv'
<1> DEFINE h == shard * CursorBase + position
           k == (shard + 1) * CursorBase
<1>1. phase = "scan" /\ shard < Len(shards) /\ position >= Len(shards[shard + 1])
  BY Zenon DEF NextShard
<1>2. /\ shards \in Stores /\ CursorBase \in Nat /\ position <= CursorBase
      /\ start \in Nat /\ asked \in Nat /\ shard \in Nat /\ position \in Nat /\ h \in Nat /\ asked <= h
      /\ UpTo(Matching, start, h, returned, stops) /\ Placed(Matching) /\ Placed(stops)
      /\ shard * CursorBase \in Nat
  BY <1>1, InScan, Zenon
<1>3. ScanTyped /\ IsInjective(returned)
  BY DEF ScanInv
<1>4. k = shard * CursorBase + CursorBase
  BY <1>2, Products, Zenon
<1>5. k \in Nat /\ h <= k /\ asked <= k /\ shard + 1 \in Nat /\ 0 \in Nat /\ 0 <= CursorBase
  <2> HIDE DEF k
  <2> QED BY <1>2, <1>4
<1>6. /\ shards' = shards /\ start' = start /\ stops' = stops /\ asked' = asked /\ shard' = shard + 1
      /\ position' = 0 /\ cursor' = cursor /\ phase' = phase /\ returned' = returned
  BY Zenon DEF NextShard
<1>7. Matching' = Matching
  BY <1>6, SameStore, Zenon
<1>8. NoneIn(Matching, h, k)
  <2>1. \A e \in Matching : h <= Place(e) => k <= Place(e)
    BY <1>1, <1>2, NextShardPlace, SMTT(30)
  <2> QED BY <2>1, Zenon DEF NoneIn
<1>9. phase' # "client" /\ phase' # "done" /\ phase' = "scan" /\ Here' = k
  <2>1. Here' = k + 0
    BY <1>1, <1>6, Zenon DEF Here
  <2>2. k + 0 = k
    <3> HIDE DEF k
    <3> QED BY <1>5
  <2> QED BY <1>1, <1>6, <2>1, <2>2
<1> HIDE DEF h, k
<1>10. UpTo(Matching, start, k, returned, stops)
  BY <1>2, <1>5, <1>8, UpToEmpty
<1>11. ScanTyped'
  BY <1>3, <1>5, <1>6, Zenon DEF ScanTyped
<1> QED BY <1>3, <1>5, <1>6, <1>7, <1>9, <1>10, <1>11, Zenon DEF ScanInv

LEMMA ExhaustedStep ==
    ASSUME ScanInv, Exhausted
    PROVE  ScanInv'
<1> DEFINE h == shard * CursorBase + position
<1>1. phase = "scan" /\ shard >= Len(shards)
  BY Zenon DEF Exhausted
<1>2. /\ shards \in Stores /\ Len(shards) \in Nat /\ shard \in Nat /\ position \in Nat
      /\ UpTo(Matching, start, h, returned, stops)
  BY <1>1, InScan, Zenon
<1>3. ScanTyped /\ IsInjective(returned)
  BY DEF ScanInv
<1>4. /\ shards' = shards /\ start' = start /\ stops' = stops /\ asked' = asked /\ shard' = shard
      /\ position' = position /\ cursor' = 0 /\ returned' = returned /\ phase' = "done"
  BY DEF Exhausted, Return
<1>5. Matching' = Matching
  BY <1>4, SameStore, Zenon
<1>6. AllBefore(Matching, h)
  <2>1. ASSUME NEW e \in Matching PROVE Place(e) < h
    <3>1. /\ e[1] \in Nat /\ e[2] \in Nat /\ e[1] < Len(shards) /\ e[2] < CursorBase
          /\ Place(e) = e[1] * CursorBase + e[2]
      BY <1>2, MatchingEntry
    <3>2. e[1] < shard
      BY <1>1, <1>2, <3>1
    <3> QED BY <1>2, <3>1, <3>2, PlaceOrder
  <2> QED BY <2>1, Zenon DEF AllBefore
<1> HIDE DEF h
<1>7. Range(returned) = Since(Matching, start) \ stops
  BY <1>2, <1>6, UpToAll
<1>8. phase' # "client" /\ phase' # "scan" /\ phase' \in {"client", "scan", "done"} /\ 0 \in Nat
  BY <1>4
<1>9. ScanTyped'
  BY <1>3, <1>4, <1>8, Zenon DEF ScanTyped
<1> QED BY <1>3, <1>4, <1>5, <1>7, <1>8, <1>9, Zenon DEF ScanInv

LEMMA ScanStutter ==
    ASSUME ScanInv, UNCHANGED scanVars
    PROVE  ScanInv'
<1>1. /\ shards' = shards /\ start' = start /\ stops' = stops /\ asked' = asked /\ shard' = shard
      /\ position' = position /\ cursor' = cursor /\ returned' = returned /\ phase' = phase
  BY Zenon DEF scanVars
<1>2. Matching' = Matching /\ Len(shards)' = Len(shards)
  BY <1>1, SameStore, Zenon
<1>3. Here' = Here
  BY <1>1, Zenon DEF Here
<1>4. ScanTyped'
  BY <1>1, Zenon DEF ScanInv, ScanTyped
<1> QED BY <1>1, <1>2, <1>3, <1>4, Zenon DEF ScanInv

LEMMA ScanStep == ScanInv /\ [ScanNext]_scanVars => ScanInv'
BY BeginCallStep, StopFullStep, LookAtStep, NextShardStep, ExhaustedStep, ScanStutter, Zenon DEF ScanNext

\* An iteration of SCAN over a store nobody changes returns live matching keys only, each at
\* most once, misses none but those at which a full call stopped, and its cursor grows: for
\* any number of shards of any size below CursorBase, and any COUNT in each call.
THEOREM ScanIsExact == ScanSpec => []ScanExact
<1>1. ScanInit => ScanInv
  BY ScanBegins
<1>2. ScanInv /\ [ScanNext]_scanVars => ScanInv'
  BY ScanStep
<1>3. ScanInv => ScanExact
  <2> SUFFICES ASSUME ScanInv PROVE ScanExact
    OBVIOUS
  <2>1. /\ IsInjective(returned)
        /\ phase = "client" /\ stops # {} => asked < cursor /\ cursor < Len(shards) * CursorBase
    BY Zenon DEF ScanInv
  <2>2. Range(returned) \subseteq Since(Matching, start)
    BY Zenon DEF ScanInv, UpTo, Since
  <2>3. phase = "done" => Since(Matching, start) \ stops \subseteq Range(returned)
    BY Zenon DEF ScanInv
  <2> QED BY <2>1, <2>2, <2>3, Zenon DEF ScanExact, Since
<1> QED BY <1>1, <1>2, <1>3, PTL DEF ScanSpec
=============================================================================
