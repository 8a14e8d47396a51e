---------------------------- MODULE S3Fifo_proofs ----------------------------
(***************************************************************************)
(* Proofs about S3Fifo: for any threads, keys and capacities, the sets and  *)
(* the queues agree (QueuesExact), every entry of the map can be found by   *)
(* an eviction or is accounted for (EvictableUnlessExplained), and the      *)
(* queue_type of an entry is true (TypeTruthful).                           *)
(***************************************************************************)
EXTENDS S3Fifo, SequenceTheorems, WellFoundedInduction, TLAPS

----------------------------------------------------------------------------
(* Without, the retain of a queue. *)

LEMMA LeastNat ==
    ASSUME NEW T \in SUBSET Nat, T # {}
    PROVE  \E x \in T : \A y \in T : x <= y
<1>1. PICK x \in T : \A y \in T : ~(<<y, x>> \in OpToRel(<, Nat))
  BY WFMin, NatLessThanWellFounded, Zenon
<1>2. \A y \in T : ~(y < x)
  BY <1>1, Zenon DEF OpToRel
<1> QED BY <1>2

\* g[i] is what is kept of the first i elements.
Keeps(s, k, g, n) ==
    g = [i \in 0..n |-> IF i = 0 THEN <<>> ELSE IF s[i] = k THEN g[i - 1] ELSE Append(g[i - 1], s[i])]

\* One more element can always be looked at.
LEMMA KeepsMore ==
    ASSUME NEW s, NEW k, NEW g, NEW n \in Nat, Keeps(s, k, g, n)
    PROVE  \E h : Keeps(s, k, h, n + 1)
<1> DEFINE last == IF s[n + 1] = k THEN g[n] ELSE Append(g[n], s[n + 1])
           h == [i \in 0..(n + 1) |-> IF i = n + 1 THEN last ELSE g[i]]
           e(f, i) == IF i = 0 THEN <<>> ELSE IF s[i] = k THEN f[i - 1] ELSE Append(f[i - 1], s[i])
<1>1. \A i \in 0..n : g[i] = e(g, i)
  BY Zenon DEF Keeps
<1>2. \A i \in 0..n : h[i] = g[i]
  OBVIOUS
<1>3. h[n + 1] = last
  OBVIOUS
<1> HIDE DEF h
<1>4. ASSUME NEW i \in 0..(n + 1) PROVE h[i] = e(h, i)
  <2>1. CASE i = n + 1
    <3>1. i # 0 /\ i - 1 = n /\ h[n] = g[n]
      BY <1>2, <2>1
    <3> QED BY <1>3, <2>1, <3>1
  <2>2. CASE i \in 0..n
    <3>1. CASE i = 0
      BY <1>1, <1>2, <2>2, <3>1, Zenon
    <3>2. CASE i # 0
      <4>1. i - 1 \in 0..n
        BY <2>2, <3>2
      <4> QED BY <1>1, <1>2, <2>2, <3>2, <4>1, Zenon
    <3> QED BY <3>1, <3>2
  <2> QED BY <2>1, <2>2
<1>5. h = [i \in 0..(n + 1) |-> e(h, i)]
  BY <1>4, Zenon DEF h
<1> QED BY <1>5, Zenon DEF Keeps

LEMMA KeepsAll ==
    ASSUME NEW s, NEW k, NEW n \in Nat
    PROVE  \E g : Keeps(s, k, g, n)
<1> DEFINE T == {m \in Nat : ~\E g : Keeps(s, k, g, m)}
<1> SUFFICES T = {}
  BY Zenon
<1> SUFFICES ASSUME T # {} PROVE FALSE
  OBVIOUS
<1>1. PICK m \in T : \A j \in T : m <= j
  BY LeastNat, Zenon
<1>2. CASE m = 0
  <2> DEFINE g == [i \in 0..0 |-> <<>>]
  <2>1. g = [i \in 0..0 |-> IF i = 0 THEN <<>> ELSE IF s[i] = k THEN g[i - 1] ELSE Append(g[i - 1], s[i])]
    OBVIOUS
  <2>2. Keeps(s, k, g, 0)
    BY <2>1, Zenon DEF Keeps
  <2> QED BY <1>1, <1>2, <2>2, Zenon
<1>3. CASE m # 0
  <2>1. m - 1 \in Nat /\ ~(m <= m - 1) /\ (m - 1) + 1 = m
    BY <1>1, <1>3
  <2>2. PICK g : Keeps(s, k, g, m - 1)
    BY <1>1, <2>1, Zenon
  <2>3. \E h : Keeps(s, k, h, (m - 1) + 1)
    BY <2>1, <2>2, KeepsMore, Zenon
  <2> QED BY <1>1, <2>1, <2>3, Zenon
<1> QED BY <1>2, <1>3

LEMMA WithoutKeeps ==
    ASSUME NEW S, NEW s \in Seq(S), NEW k
    PROVE  \E g : Keeps(s, k, g, Len(s)) /\ Without(s, k) = g[Len(s)]
<1>1. Len(s) \in Nat
  BY LenProperties
<1>2. \E g : Keeps(s, k, g, Len(s))
  BY <1>1, KeepsAll, Zenon
<1> QED BY <1>2, Zenon DEF Keeps, Without

----------------------------------------------------------------------------
(* Sequences and the sets of their elements. *)

LEMMA Elements ==
    ASSUME NEW S, NEW s \in Seq(S)
    PROVE  /\ Len(s) \in Nat /\ DOMAIN s = 1..Len(s) /\ Range(s) = {s[i] : i \in 1..Len(s)}
           /\ \A i \in 1..Len(s) : s[i] \in S
           /\ IsInjective(s) <=> \A i, j \in 1..Len(s) : s[i] = s[j] => i = j
<1>1. Len(s) \in Nat /\ DOMAIN s = 1..Len(s) /\ \A i \in 1..Len(s) : s[i] \in S
  BY LenProperties, ElementOfSeq
<1> QED BY <1>1, Zenon DEF Range, IsInjective

LEMMA EmptyElements == Range(<<>>) = {} /\ IsInjective(<<>>)
<1>1. DOMAIN <<>> = {}
  BY EmptySeq
<1> QED BY <1>1, Zenon DEF Range, IsInjective

LEMMA AppendElements ==
    ASSUME NEW S, NEW s \in Seq(S), NEW e \in S
    PROVE  /\ Append(s, e) \in Seq(S) /\ Len(Append(s, e)) = Len(s) + 1
           /\ Range(Append(s, e)) = Range(s) \cup {e}
           /\ IsInjective(s) /\ e \notin Range(s) => IsInjective(Append(s, e))
<1> DEFINE n == Len(s)
           a == Append(s, e)
<1>1. a \in Seq(S) /\ Len(a) = n + 1 /\ a[n + 1] = e /\ \A i \in 1..n : a[i] = s[i]
  BY AppendProperties
<1>2. n \in Nat /\ Range(s) = {s[i] : i \in 1..n} /\ Range(a) = {a[i] : i \in 1..(n + 1)}
  BY <1>1, Elements, Zenon
<1>3. 1..(n + 1) = (1..n) \cup {n + 1}
  BY <1>2
<1> HIDE DEF a
<1>4. Range(a) = Range(s) \cup {e}
  <2>1. \A i \in 1..n : a[i] \in Range(s) /\ s[i] \in Range(a)
    BY <1>1, <1>2, <1>3, Zenon
  <2>2. e \in Range(a)
    BY <1>1, <1>2, <1>3, Zenon
  <2>3. \A i \in 1..(n + 1) : a[i] \in Range(s) \cup {e}
    BY <1>1, <1>3, <2>1, Zenon
  <2>4. Range(a) \subseteq Range(s) \cup {e}
    BY <1>2, <2>3, Zenon
  <2>5. Range(s) \subseteq Range(a)
    BY <1>2, <2>1, Zenon
  <2> QED BY <2>2, <2>4, <2>5, Zenon
<1>5. ASSUME IsInjective(s), e \notin Range(s) PROVE IsInjective(a)
  <2>1. \A i, j \in 1..n : s[i] = s[j] => i = j
    BY <1>5, Elements, Zenon
  <2>2. \A i \in 1..n : s[i] # e
    BY <1>2, <1>5, Zenon
  <2>3. \A i, j \in 1..(n + 1) : a[i] = a[j] => i = j
    BY <1>1, <1>3, <2>1, <2>2, Zenon
  <2> QED BY <1>1, <2>3, Elements, Zenon
<1> QED BY <1>1, <1>4, <1>5, Zenon DEF a

LEMMA TailElements ==
    ASSUME NEW S, NEW s \in Seq(S), s # <<>>
    PROVE  /\ Head(s) \in S /\ Tail(s) \in Seq(S) /\ Len(Tail(s)) = Len(s) - 1
           /\ Head(s) \in Range(s)
           /\ IsInjective(s) => IsInjective(Tail(s)) /\ Range(Tail(s)) = Range(s) \ {Head(s)}
<1> DEFINE n == Len(s)
           u == Tail(s)
<1>1. /\ Head(s) \in S /\ u \in Seq(S) /\ Len(u) = n - 1
      /\ \A i \in 1..Len(u) : u[i] = s[i + 1]
  BY HeadTailProperties, Zenon
<1>2. n \in Nat \ {0} /\ Head(s) = s[1]
  BY EmptySeq
<1>3. Range(s) = {s[i] : i \in 1..n} /\ Range(u) = {u[i] : i \in 1..(n - 1)}
  <2>1. \A r \in Seq(S) : Range(r) = {r[i] : i \in 1..Len(r)}
    BY Elements
  <2> HIDE DEF u
  <2>2. Range(u) = {u[i] : i \in 1..Len(u)}
    BY <1>1, <2>1, Zenon
  <2> QED BY <1>1, <2>1, <2>2, Zenon
<1>4. \A i \in 1..(n - 1) : u[i] = s[i + 1] /\ i + 1 \in 1..n
  BY <1>1, <1>2
<1>5. \A i \in 1..n : i # 1 => i - 1 \in 1..(n - 1) /\ u[i - 1] = s[i]
  BY <1>1, <1>2
<1>6. Head(s) \in Range(s)
  BY <1>2, <1>3
<1> HIDE DEF u
<1>7. ASSUME IsInjective(s) PROVE IsInjective(u) /\ Range(u) = Range(s) \ {Head(s)}
  <2>1. \A i, j \in 1..n : s[i] = s[j] => i = j
    BY <1>7, Elements, Zenon
  <2>2. \A i, j \in 1..(n - 1) : u[i] = u[j] => i = j
    BY <1>2, <1>4, <2>1
  <2>3. IsInjective(u)
    BY <1>1, <2>2, Elements, Zenon
  <2>4. \A i \in 1..(n - 1) : i + 1 # 1
    OBVIOUS
  <2>5. 1 \in 1..n
    BY <1>2
  <2>6. \A i \in 1..(n - 1) : u[i] \in Range(s) /\ u[i] # Head(s)
    <3>1. ASSUME NEW i \in 1..(n - 1) PROVE u[i] \in Range(s) /\ u[i] # Head(s)
      <4>1. u[i] = s[i + 1] /\ i + 1 \in 1..n /\ i + 1 # 1
        BY <1>4, <2>4
      <4> QED BY <1>2, <1>3, <2>1, <2>5, <4>1, Zenon
    <3> QED BY <3>1, Zenon
  <2>7. \A i \in 1..n : s[i] # Head(s) => s[i] \in Range(u)
    BY <1>2, <1>3, <1>5, Zenon
  <2>8. Range(u) \subseteq Range(s) \ {Head(s)}
    BY <1>3, <2>6, Zenon
  <2>9. Range(s) \ {Head(s)} \subseteq Range(u)
    BY <1>3, <2>7, Zenon
  <2> QED BY <2>3, <2>8, <2>9, Zenon
<1> QED BY <1>1, <1>6, <1>7, Zenon DEF u

\* Without takes k away and keeps the rest, each element as often as it was there.
LEMMA WithoutElements ==
    ASSUME NEW S, NEW s \in Seq(S), NEW k
    PROVE  /\ Without(s, k) \in Seq(S) /\ Len(Without(s, k)) <= Len(s)
           /\ Range(Without(s, k)) = Range(s) \ {k}
           /\ IsInjective(s) => IsInjective(Without(s, k))
<1> DEFINE n == Len(s)
<1>0. n \in Nat /\ Range(s) = {s[i] : i \in 1..n} /\ \A i \in 1..n : s[i] \in S
  BY Elements, Zenon
<1>a. \A r \in Seq(S), e \in S :
        /\ Append(r, e) \in Seq(S) /\ Len(Append(r, e)) = Len(r) + 1 /\ Range(Append(r, e)) = Range(r) \cup {e}
        /\ IsInjective(r) /\ e \notin Range(r) => IsInjective(Append(r, e))
  BY AppendElements
<1>1. PICK g : Keeps(s, k, g, n) /\ Without(s, k) = g[n]
  BY WithoutKeeps, Zenon
<1>2. /\ g[0] = <<>>
      /\ \A i \in 1..n : g[i] = IF s[i] = k THEN g[i - 1] ELSE Append(g[i - 1], s[i])
  <2>1. \A i \in 0..n : g[i] = IF i = 0 THEN <<>> ELSE IF s[i] = k THEN g[i - 1] ELSE Append(g[i - 1], s[i])
    BY <1>1, Zenon DEF Keeps
  <2>2. 0 \in 0..n /\ \A i \in 1..n : i \in 0..n /\ i # 0
    BY <1>0
  <2> QED BY <2>1, <2>2, Zenon
<1> DEFINE first(i) == {s[j] : j \in 1..i}
           Ok(i) == /\ g[i] \in Seq(S) /\ Len(g[i]) <= i /\ Range(g[i]) = first(i) \ {k}
                    /\ IsInjective(s) => IsInjective(g[i])
           T == {i \in 0..n : ~Ok(i)}
<1>3. Ok(0)
  <2>1. first(0) = {}
    BY SMT
  <2> HIDE DEF first
  <2>2. <<>> \in Seq(S) /\ Len(<<>>) <= 0
    BY EmptySeq
  <2> QED BY <1>2, <2>1, <2>2, EmptyElements, Zenon
<1>4. ASSUME NEW i \in 1..n, Ok(i - 1) PROVE Ok(i)
  <2>1. s[i] \in S /\ i - 1 \in 0..n /\ 1..i = (1..(i - 1)) \cup {i}
    BY <1>0
  <2>2. first(i) = first(i - 1) \cup {s[i]}
    BY <2>1, Zenon
  <2>3. g[i - 1] \in Seq(S) /\ Len(g[i - 1]) \in Nat
    BY <1>4, LenProperties
  <2>4. CASE s[i] = k
    <3>1. g[i] = g[i - 1]
      BY <1>2, <2>4, Zenon
    <3>2. Len(g[i]) <= i
      BY <1>4, <2>3, <3>1
    <3>3. first(i) \ {k} = first(i - 1) \ {k}
      BY <2>2, <2>4, Zenon
    <3> HIDE DEF first
    <3> QED BY <1>4, <3>1, <3>2, <3>3, Zenon
  <2>5. CASE s[i] # k
    <3>1. g[i] = Append(g[i - 1], s[i])
      BY <1>2, <2>5, Zenon
    <3>2. g[i] \in Seq(S) /\ Len(g[i]) = Len(g[i - 1]) + 1 /\ Range(g[i]) = Range(g[i - 1]) \cup {s[i]}
      BY <2>1, <2>3, <3>1, <1>a, Zenon
    <3>3. Len(g[i]) <= i
      BY <1>4, <2>3, <3>2
    <3>4. first(i) \ {k} = (first(i - 1) \ {k}) \cup {s[i]}
      BY <2>2, <2>5, Zenon
    <3>5. ASSUME IsInjective(s) PROVE s[i] \notin Range(g[i - 1])
      <4>1. \A j \in 1..(i - 1) : j \in 1..n /\ j # i
        OBVIOUS
      <4>2. \A j \in 1..n : s[i] = s[j] => i = j
        BY <3>5, Elements, Zenon
      <4>3. s[i] \notin first(i - 1)
        BY <4>1, <4>2, Zenon
      <4> HIDE DEF first
      <4> QED BY <1>4, <4>3, Zenon
    <3> HIDE DEF first
    <3>6. IsInjective(s) => IsInjective(g[i])
      BY <1>4, <2>1, <2>3, <3>1, <3>5, <1>a, Zenon
    <3> QED BY <1>4, <3>2, <3>3, <3>4, <3>6, Zenon
  <2> QED BY <2>4, <2>5
<1>5. T = {}
  <2> SUFFICES ASSUME T # {} PROVE FALSE
    BY Zenon
  <2> HIDE DEF Ok
  <2>1. PICK m \in T : \A j \in T : m <= j
    <3>1. T \in SUBSET Nat
      OBVIOUS
    <3> QED BY <3>1, LeastNat, Zenon
  <2>2. m # 0
    BY <1>3, <2>1, Zenon
  <2>3. m \in 1..n /\ m - 1 \in 0..n /\ ~(m <= m - 1)
    BY <1>0, <2>1, <2>2
  <2>4. Ok(m - 1)
    BY <2>1, <2>3, Zenon
  <2> QED BY <1>4, <2>1, <2>3, <2>4, Zenon
<1>6. Ok(n)
  <2>1. n \in 0..n
    BY <1>0
  <2> HIDE DEF Ok
  <2> QED BY <1>5, <2>1, Zenon
<1> QED BY <1>0, <1>1, <1>6, Zenon

----------------------------------------------------------------------------
(* The methods of S3FifoQueues. *)

\* A queue and the set beside it.
Exact(s, set, capacity) ==
    s \in Seq(Keys) /\ set = Range(s) /\ IsInjective(s) /\ Len(s) <= capacity

LEMMA ExactRemoved ==
    ASSUME NEW n \in Nat, NEW s, NEW set, Exact(s, set, n), NEW k
    PROVE  Exact(Without(s, k), set \ {k}, n)
<1>1. /\ Without(s, k) \in Seq(Keys) /\ Range(Without(s, k)) = set \ {k} /\ IsInjective(Without(s, k))
      /\ Len(Without(s, k)) <= Len(s)
  BY WithoutElements, Zenon DEF Exact
<1>2. Len(Without(s, k)) <= n
  <2>1. Len(s) \in Nat /\ Len(Without(s, k)) \in Nat /\ Len(s) <= n
    BY <1>1, LenProperties DEF Exact
  <2> QED BY <1>1, <2>1
<1> QED BY <1>1, <1>2, Zenon DEF Exact

LEMMA ExactPopped ==
    ASSUME NEW n \in Nat, NEW s, NEW set, Exact(s, set, n), s # <<>>
    PROVE  Exact(Tail(s), set \ {Head(s)}, n) /\ Head(s) \in set /\ Head(s) \in Keys /\ Len(Tail(s)) = Len(s) - 1
<1>1. /\ Tail(s) \in Seq(Keys) /\ Range(Tail(s)) = set \ {Head(s)} /\ IsInjective(Tail(s))
      /\ Len(Tail(s)) = Len(s) - 1 /\ Head(s) \in set /\ Head(s) \in Keys
  BY TailElements, Zenon DEF Exact
<1>2. Len(Tail(s)) <= n
  <2>1. Len(s) \in Nat /\ Len(s) <= n
    BY LenProperties DEF Exact
  <2> QED BY <1>1, <2>1
<1> QED BY <1>1, <1>2, Zenon DEF Exact

\* What add_to_small, add_to_main and add_to_ghost keep before they push.
Kept(s, n) == IF Len(s) >= n THEN Tail(s) ELSE s
Left(s, set, n) == IF Len(s) >= n THEN set \ {Head(s)} ELSE set

LEMMA ExactPushed ==
    ASSUME NEW n \in Nat \ {0}, NEW s, NEW set, Exact(s, set, n), NEW k \in Keys, k \notin set
    PROVE  Exact(Append(Kept(s, n), k), Left(s, set, n) \cup {k}, n) /\ Left(s, set, n) \subseteq set
<1> DEFINE kept == Kept(s, n)
           left == Left(s, set, n)
<1>1. Exact(kept, left, n) /\ Len(kept) \in Nat /\ Len(kept) < n /\ left \subseteq set
  <2>0. Len(s) \in Nat /\ Len(s) <= n
    BY LenProperties DEF Exact
  <2>1. CASE Len(s) >= n
    <3>1. s # <<>>
      BY <2>0, <2>1, EmptySeq
    <3>2. Exact(Tail(s), set \ {Head(s)}, n) /\ Len(Tail(s)) = Len(s) - 1
      BY <3>1, ExactPopped, Zenon
    <3>3. kept = Tail(s) /\ left = set \ {Head(s)}
      BY <2>1, Zenon DEF Kept, Left
    <3>4. Len(kept) \in Nat /\ Len(kept) < n
      BY <2>0, <2>1, <3>2, <3>3
    <3> QED BY <3>2, <3>3, <3>4, Zenon
  <2>2. CASE ~(Len(s) >= n)
    <3>1. kept = s /\ left = set
      BY <2>2, Zenon DEF Kept, Left
    <3>2. Len(s) < n
      BY <2>0, <2>2
    <3> QED BY <2>0, <3>1, <3>2, Zenon
  <2> QED BY <2>1, <2>2
<1>2. kept \in Seq(Keys) /\ IsInjective(kept) /\ left = Range(kept) /\ k \notin Range(kept)
  BY <1>1, Zenon DEF Exact
<1>3. /\ Append(kept, k) \in Seq(Keys) /\ Len(Append(kept, k)) = Len(kept) + 1
      /\ Range(Append(kept, k)) = left \cup {k} /\ IsInjective(Append(kept, k))
  <2>1. \A r \in Seq(Keys), e \in Keys :
          /\ Append(r, e) \in Seq(Keys) /\ Len(Append(r, e)) = Len(r) + 1 /\ Range(Append(r, e)) = Range(r) \cup {e}
          /\ IsInjective(r) /\ e \notin Range(r) => IsInjective(Append(r, e))
    BY AppendElements
  <2> QED BY <1>2, <2>1, Zenon
<1>4. Len(Append(kept, k)) <= n
  BY <1>1, <1>3
<1> QED BY <1>1, <1>3, <1>4, Zenon DEF Exact

\* S3FifoQueues in order.
Queues == [small: Seq(Keys), main: Seq(Keys), ghost: Seq(Keys),
           smallSet: SUBSET Keys, mainSet: SUBSET Keys, ghostSet: SUBSET Keys]
InOrder(qs) ==
    /\ qs \in Queues
    /\ Exact(qs.small, qs.smallSet, SmallCapacity)
    /\ Exact(qs.main, qs.mainSet, MainCapacity)
    /\ Exact(qs.ghost, qs.ghostSet, GhostCapacity)
    /\ qs.smallSet \cap qs.ghostSet = {}

PutSmall(qs, s, set) == [qs EXCEPT !.small = s, !.smallSet = set]
PutMain(qs, s, set) == [qs EXCEPT !.main = s, !.mainSet = set]
PutGhost(qs, s, set) == [qs EXCEPT !.ghost = s, !.ghostSet = set]

\* To put one queue in order is to put the queues in order.
LEMMA WithSmall ==
    ASSUME NEW qs, InOrder(qs), NEW s, NEW set, Exact(s, set, SmallCapacity), set \in SUBSET Keys,
           set \cap qs.ghostSet = {}
    PROVE  LET r == PutSmall(qs, s, set) IN
           InOrder(r) /\ r.small = s /\ r.smallSet = set /\ r.mainSet = qs.mainSet /\ r.ghostSet = qs.ghostSet
<1> DEFINE r == PutSmall(qs, s, set)
<1>1. /\ r \in Queues /\ r.small = s /\ r.smallSet = set /\ r.main = qs.main /\ r.mainSet = qs.mainSet
      /\ r.ghost = qs.ghost /\ r.ghostSet = qs.ghostSet
  <2>1. qs \in Queues /\ s \in Seq(Keys) /\ set \in SUBSET Keys
    BY Zenon DEF InOrder, Exact
  <2> QED BY <2>1, Zenon DEF Queues, PutSmall
<1> HIDE DEF r
<1>2. InOrder(r)
  BY <1>1, Zenon DEF InOrder
<1> QED BY <1>1, <1>2, Zenon DEF r

LEMMA WithMain ==
    ASSUME NEW qs, InOrder(qs), NEW s, NEW set, Exact(s, set, MainCapacity), set \in SUBSET Keys
    PROVE  LET r == PutMain(qs, s, set) IN
           InOrder(r) /\ r.main = s /\ r.mainSet = set /\ r.smallSet = qs.smallSet /\ r.ghostSet = qs.ghostSet
<1> DEFINE r == PutMain(qs, s, set)
<1>1. /\ r \in Queues /\ r.main = s /\ r.mainSet = set /\ r.small = qs.small /\ r.smallSet = qs.smallSet
      /\ r.ghost = qs.ghost /\ r.ghostSet = qs.ghostSet
  <2>1. qs \in Queues /\ s \in Seq(Keys) /\ set \in SUBSET Keys
    BY Zenon DEF InOrder, Exact
  <2> QED BY <2>1, Zenon DEF Queues, PutMain
<1> HIDE DEF r
<1>2. InOrder(r)
  BY <1>1, Zenon DEF InOrder
<1> QED BY <1>1, <1>2, Zenon DEF r

LEMMA WithGhost ==
    ASSUME NEW qs, InOrder(qs), NEW s, NEW set, Exact(s, set, GhostCapacity), set \in SUBSET Keys,
           set \cap qs.smallSet = {}
    PROVE  LET r == PutGhost(qs, s, set) IN
           InOrder(r) /\ r.ghostSet = set /\ r.smallSet = qs.smallSet /\ r.mainSet = qs.mainSet
<1> DEFINE r == PutGhost(qs, s, set)
<1>1. /\ r \in Queues /\ r.ghost = s /\ r.ghostSet = set /\ r.small = qs.small /\ r.smallSet = qs.smallSet
      /\ r.main = qs.main /\ r.mainSet = qs.mainSet
  <2>1. qs \in Queues /\ s \in Seq(Keys) /\ set \in SUBSET Keys
    BY Zenon DEF InOrder, Exact
  <2> QED BY <2>1, Zenon DEF Queues, PutGhost
<1> HIDE DEF r
<1>2. InOrder(r)
  BY <1>1, Zenon DEF InOrder
<1> QED BY <1>1, <1>2, Zenon DEF r

LEMMA InOrderSets ==
    ASSUME NEW qs, InOrder(qs)
    PROVE  qs.smallSet \subseteq Keys /\ qs.mainSet \subseteq Keys /\ qs.ghostSet \subseteq Keys
<1>1. qs \in Queues
  BY Zenon DEF InOrder
<1> QED BY <1>1 DEF Queues

LEMMA RemoveFromSmallFacts ==
    ASSUME NEW qs, InOrder(qs), NEW k \in Keys
    PROVE  LET r == RemoveFromSmall(qs, k) IN
           InOrder(r) /\ r.smallSet = qs.smallSet \ {k} /\ r.mainSet = qs.mainSet
<1> DEFINE r == RemoveFromSmall(qs, k)
<1>1. CASE k \in qs.smallSet
  <2> DEFINE s == Without(qs.small, k)
             set == qs.smallSet \ {k}
  <2>1. r = PutSmall(qs, s, set)
    BY <1>1, Zenon DEF RemoveFromSmall, PutSmall, InOrder, Queues
  <2>2. Exact(s, set, SmallCapacity)
    BY ExactRemoved, CapacityAssumption, Zenon DEF InOrder
  <2>3. set \in SUBSET Keys /\ set \cap qs.ghostSet = {}
    BY InOrderSets, Zenon DEF InOrder
  <2> HIDE DEF s, set
  <2>4. InOrder(r) /\ r.smallSet = set /\ r.mainSet = qs.mainSet
    BY <2>1, <2>2, <2>3, WithSmall
  <2> QED BY <2>4, Zenon DEF set
<1>2. CASE k \notin qs.smallSet
  BY <1>2, Zenon DEF RemoveFromSmall
<1> QED BY <1>1, <1>2

LEMMA RemoveFromMainFacts ==
    ASSUME NEW qs, InOrder(qs), NEW k \in Keys
    PROVE  LET r == RemoveFromMain(qs, k) IN
           InOrder(r) /\ r.mainSet = qs.mainSet \ {k} /\ r.smallSet = qs.smallSet
<1> DEFINE r == RemoveFromMain(qs, k)
<1>1. CASE k \in qs.mainSet
  <2> DEFINE s == Without(qs.main, k)
             set == qs.mainSet \ {k}
  <2>1. r = PutMain(qs, s, set)
    BY <1>1, Zenon DEF RemoveFromMain, PutMain, InOrder, Queues
  <2>2. Exact(s, set, MainCapacity)
    BY ExactRemoved, CapacityAssumption, Zenon DEF InOrder
  <2>3. set \in SUBSET Keys
    BY InOrderSets, Zenon
  <2> HIDE DEF s, set
  <2>4. InOrder(r) /\ r.mainSet = set /\ r.smallSet = qs.smallSet
    BY <2>1, <2>2, <2>3, WithMain
  <2> QED BY <2>4, Zenon DEF set
<1>2. CASE k \notin qs.mainSet
  BY <1>2, Zenon DEF RemoveFromMain
<1> QED BY <1>1, <1>2

LEMMA RemoveByTypeFacts ==
    ASSUME NEW qs, InOrder(qs), NEW k \in Keys, NEW type
    PROVE  LET r == RemoveByType(qs, k, type) IN
           /\ InOrder(r)
           /\ type = "Small" => r.smallSet = qs.smallSet \ {k} /\ r.mainSet = qs.mainSet
           /\ type # "Small" => r.mainSet = qs.mainSet \ {k} /\ r.smallSet = qs.smallSet
  BY RemoveFromSmallFacts, RemoveFromMainFacts, Zenon DEF RemoveByType

LEMMA RemoveFromGhostFacts ==
    ASSUME NEW qs, InOrder(qs), NEW k \in Keys
    PROVE  LET r == RemoveFromGhost(qs, k) IN
           InOrder(r) /\ r.smallSet = qs.smallSet /\ r.mainSet = qs.mainSet
<1> DEFINE r == RemoveFromGhost(qs, k)
<1>1. CASE k \in qs.ghostSet
  <2> DEFINE s == Without(qs.ghost, k)
             set == qs.ghostSet \ {k}
  <2>1. r = PutGhost(qs, s, set)
    BY <1>1, Zenon DEF RemoveFromGhost, PutGhost, InOrder, Queues
  <2>2. Exact(s, set, GhostCapacity)
    BY ExactRemoved, CapacityAssumption, Zenon DEF InOrder
  <2>3. set \in SUBSET Keys /\ set \cap qs.smallSet = {}
    BY InOrderSets, Zenon DEF InOrder
  <2> HIDE DEF s, set
  <2> QED BY <2>1, <2>2, <2>3, WithGhost
<1>2. CASE k \notin qs.ghostSet
  BY <1>2, Zenon DEF RemoveFromGhost
<1> QED BY <1>1, <1>2

LEMMA AddToSmallFacts ==
    ASSUME NEW qs, InOrder(qs), NEW k \in Keys, k \notin qs.ghostSet
    PROVE  LET r == AddToSmall(qs, k) IN
           /\ InOrder(r) /\ k \in r.smallSet /\ r.smallSet \subseteq qs.smallSet \cup {k}
           /\ r.mainSet = qs.mainSet
<1> DEFINE r == AddToSmall(qs, k)
<1>1. CASE k \notin qs.smallSet
  <2> DEFINE left == Left(qs.small, qs.smallSet, SmallCapacity)
             s == Append(Kept(qs.small, SmallCapacity), k)
             set == left \cup {k}
  <2>1. r = PutSmall(qs, s, set)
    BY <1>1, Zenon DEF AddToSmall, PutSmall, Kept, Left
  <2>2. Exact(s, set, SmallCapacity) /\ left \subseteq qs.smallSet
    BY <1>1, ExactPushed, CapacityAssumption, Zenon DEF InOrder
  <2> HIDE DEF left, s
  <2>3. set \in SUBSET Keys /\ set \cap qs.ghostSet = {}
    BY <2>2, InOrderSets, Zenon DEF InOrder
  <2>4. k \in set /\ set \subseteq qs.smallSet \cup {k}
    BY <2>2, Zenon
  <2> HIDE DEF set
  <2>5. InOrder(r) /\ r.smallSet = set /\ r.mainSet = qs.mainSet
    BY <2>1, <2>2, <2>3, WithSmall
  <2> QED BY <2>4, <2>5, Zenon
<1>2. CASE k \in qs.smallSet
  BY <1>2, Zenon DEF AddToSmall
<1> QED BY <1>1, <1>2

LEMMA AddToMainFacts ==
    ASSUME NEW qs, InOrder(qs), NEW k \in Keys
    PROVE  LET r == AddToMain(qs, k) IN
           /\ InOrder(r) /\ k \in r.mainSet /\ r.mainSet \subseteq qs.mainSet \cup {k}
           /\ r.smallSet = qs.smallSet
<1> DEFINE r == AddToMain(qs, k)
<1>1. CASE k \notin qs.mainSet
  <2> DEFINE left == Left(qs.main, qs.mainSet, MainCapacity)
             s == Append(Kept(qs.main, MainCapacity), k)
             set == left \cup {k}
  <2>1. r = PutMain(qs, s, set)
    BY <1>1, Zenon DEF AddToMain, PutMain, Kept, Left
  <2>2. Exact(s, set, MainCapacity) /\ left \subseteq qs.mainSet
    BY <1>1, ExactPushed, CapacityAssumption, Zenon DEF InOrder
  <2> HIDE DEF left, s
  <2>3. set \in SUBSET Keys
    BY <2>2, InOrderSets, Zenon
  <2>4. k \in set /\ set \subseteq qs.mainSet \cup {k}
    BY <2>2, Zenon
  <2> HIDE DEF set
  <2>5. InOrder(r) /\ r.mainSet = set /\ r.smallSet = qs.smallSet
    BY <2>1, <2>2, <2>3, WithMain
  <2> QED BY <2>4, <2>5, Zenon
<1>2. CASE k \in qs.mainSet
  BY <1>2, Zenon DEF AddToMain
<1> QED BY <1>1, <1>2

LEMMA PlacedFacts ==
    ASSUME NEW qs, InOrder(qs), NEW k \in Keys
    PROVE  LET r == Placed(qs, k) IN
           /\ InOrder(r) /\ k \in Queued(r)
           /\ k \in qs.ghostSet => r.smallSet = qs.smallSet /\ r.mainSet \subseteq qs.mainSet \cup {k}
           /\ k \notin qs.ghostSet => r.mainSet = qs.mainSet /\ r.smallSet \subseteq qs.smallSet \cup {k}
<1> DEFINE r == Placed(qs, k)
<1>1. CASE k \in qs.ghostSet
  <2> DEFINE p == RemoveFromGhost(qs, k)
  <2>1. InOrder(p) /\ p.smallSet = qs.smallSet /\ p.mainSet = qs.mainSet
    BY RemoveFromGhostFacts, Zenon
  <2>2. r = AddToMain(p, k)
    BY <1>1, Zenon DEF Placed
  <2> HIDE DEF p
  <2> QED BY <1>1, <2>1, <2>2, AddToMainFacts DEF Queued
<1>2. CASE k \notin qs.ghostSet
  <2>1. r = AddToSmall(qs, k)
    BY <1>2, Zenon DEF Placed
  <2> QED BY <1>2, <2>1, AddToSmallFacts DEF Queued
<1> QED BY <1>1, <1>2

LEMMA ReinsertFacts ==
    ASSUME NEW qs, InOrder(qs), NEW k \in Keys
    PROVE  LET r == ReinsertMainTail(qs, k) IN
           /\ InOrder(r) /\ k \in r.mainSet /\ r.mainSet \subseteq qs.mainSet \cup {k}
           /\ r.smallSet = qs.smallSet
<1> DEFINE r == ReinsertMainTail(qs, k)
           stays == qs.main # <<>> /\ qs.main[Len(qs.main)] = k
<1>1. CASE stays
  <2>1. r = qs
    BY <1>1, Zenon DEF ReinsertMainTail
  <2>2. qs.main \in Seq(Keys) /\ qs.mainSet = Range(qs.main)
    BY Zenon DEF InOrder, Exact
  <2>3. Len(qs.main) \in 1..Len(qs.main)
    <3>1. Len(qs.main) \in Nat \ {0}
      BY <1>1, <2>2, EmptySeq
    <3> QED BY <3>1
  <2>4. k \in Range(qs.main)
    <3>1. Range(qs.main) = {qs.main[i] : i \in 1..Len(qs.main)}
      BY <2>2, Elements
    <3> QED BY <1>1, <2>3, <3>1, Zenon
  <2> QED BY <2>1, <2>2, <2>4, Zenon
<1>2. CASE ~stays
  <2> DEFINE p == RemoveFromMain(qs, k)
  <2>1. InOrder(p) /\ p.mainSet = qs.mainSet \ {k} /\ p.smallSet = qs.smallSet
    BY RemoveFromMainFacts, Zenon
  <2>2. r = AddToMain(p, k)
    BY <1>2, Zenon DEF ReinsertMainTail
  <2> HIDE DEF p
  <2> QED BY <2>1, <2>2, AddToMainFacts
<1> QED BY <1>1, <1>2

LEMMA PromoteFacts ==
    ASSUME NEW qs, InOrder(qs), NEW k \in Keys
    PROVE  LET r == AddToMain(RemoveFromSmall(qs, k), k) IN
           /\ InOrder(r) /\ k \in r.mainSet /\ r.mainSet \subseteq qs.mainSet \cup {k}
           /\ r.smallSet = qs.smallSet \ {k}
<1> DEFINE p == RemoveFromSmall(qs, k)
<1>1. InOrder(p) /\ p.smallSet = qs.smallSet \ {k} /\ p.mainSet = qs.mainSet
  BY RemoveFromSmallFacts, Zenon
<1> HIDE DEF p
<1>2. LET r == AddToMain(p, k) IN
      /\ InOrder(r) /\ k \in r.mainSet /\ r.mainSet \subseteq qs.mainSet \cup {k} /\ r.smallSet = qs.smallSet \ {k}
  BY <1>1, AddToMainFacts
<1> QED BY <1>2, Zenon DEF p

\* The two ways evict_s3fifo takes its victim.
FromSmall(qs) == AddToGhost([qs EXCEPT !.small = Tail(@), !.smallSet = @ \ {Head(qs.small)}], Head(qs.small))
FromMain(qs) == [qs EXCEPT !.main = Tail(@), !.mainSet = @ \ {Head(qs.main)}]

LEMMA FromSmallFacts ==
    ASSUME NEW qs, InOrder(qs), qs.small # <<>>
    PROVE  LET r == FromSmall(qs) IN
           /\ InOrder(r) /\ Head(qs.small) \in qs.smallSet
           /\ r.smallSet = qs.smallSet \ {Head(qs.small)} /\ r.mainSet = qs.mainSet
<1> DEFINE k == Head(qs.small)
           s == Tail(qs.small)
           set == qs.smallSet \ {k}
           p == PutSmall(qs, s, set)
           g == Append(Kept(qs.ghost, GhostCapacity), k)
           left == Left(qs.ghost, qs.ghostSet, GhostCapacity)
           ghosts == left \cup {k}
           r == FromSmall(qs)
<1>1. Exact(s, set, SmallCapacity) /\ k \in qs.smallSet /\ k \in Keys
  BY ExactPopped, CapacityAssumption, Zenon DEF InOrder
<1>2. set \in SUBSET Keys /\ set \cap qs.ghostSet = {} /\ k \notin qs.ghostSet /\ qs.ghostSet \in SUBSET Keys
  BY <1>1, InOrderSets DEF InOrder
<1>3. Exact(g, ghosts, GhostCapacity) /\ left \subseteq qs.ghostSet
  BY <1>1, <1>2, ExactPushed, CapacityAssumption, Zenon DEF InOrder
<1>4. ghosts \in SUBSET Keys /\ ghosts \cap set = {}
  BY <1>1, <1>2, <1>3
<1>5. qs \in Queues
  BY Zenon DEF InOrder
<1>6. p.ghost = qs.ghost /\ p = [qs EXCEPT !.small = Tail(@), !.smallSet = @ \ {k}]
  BY <1>5 DEF Queues, PutSmall
<1> HIDE DEF s, set, g, left, ghosts
<1>7. InOrder(p) /\ p.smallSet = set /\ p.mainSet = qs.mainSet /\ p.ghostSet = qs.ghostSet
  BY <1>1, <1>2, WithSmall
<1>8. r = PutGhost(p, g, ghosts)
  <2>1. r = AddToGhost(p, k)
    BY <1>6, Zenon DEF FromSmall
  <2> HIDE DEF p
  <2> QED BY <1>6, <1>7, <2>1, Zenon DEF AddToGhost, PutGhost, g, ghosts, left, Kept, Left
<1> HIDE DEF p
<1>9. InOrder(r) /\ r.smallSet = set /\ r.mainSet = qs.mainSet
  BY <1>3, <1>4, <1>7, <1>8, WithGhost
<1> QED BY <1>1, <1>9, Zenon DEF set

LEMMA FromMainFacts ==
    ASSUME NEW qs, InOrder(qs), qs.main # <<>>
    PROVE  LET r == FromMain(qs) IN
           /\ InOrder(r) /\ Head(qs.main) \in qs.mainSet
           /\ r.mainSet = qs.mainSet \ {Head(qs.main)} /\ r.smallSet = qs.smallSet
<1> DEFINE k == Head(qs.main)
           s == Tail(qs.main)
           set == qs.mainSet \ {k}
           r == FromMain(qs)
<1>1. Exact(s, set, MainCapacity) /\ k \in qs.mainSet /\ k \in Keys
  BY ExactPopped, CapacityAssumption, Zenon DEF InOrder
<1>2. set \in SUBSET Keys
  BY InOrderSets, Zenon
<1>3. r = PutMain(qs, s, set)
  <2>1. qs \in Queues
    BY Zenon DEF InOrder
  <2> QED BY <2>1 DEF Queues, PutMain, FromMain
<1> HIDE DEF s, set
<1>4. InOrder(r) /\ r.mainSet = set /\ r.smallSet = qs.smallSet
  BY <1>1, <1>2, <1>3, WithMain
<1> QED BY <1>1, <1>4, Zenon DEF set

----------------------------------------------------------------------------
(* The inductive invariant. *)

Types == {"Small", "Main"}
Pcs == {"idle", "read_set", "unqueue", "place", "insert", "get", "promote", "retype", "reinsert",
        "read_del", "del_unqueue", "remove", "hset"}

ThTyped ==
    /\ th \in [Threads -> [pc: Pcs, key: Keys \cup {"none"}, type: Types]]
    /\ \A t \in Threads : th[t].pc # "idle" => th[t].key \in Keys
DbTyped == DOMAIN db \subseteq Keys /\ \A k \in DOMAIN db : db[k] \in [type: Types, count: 0..2]
Basic == InOrder(q) /\ ThTyped /\ DbTyped

Works(t, k) == th[t].pc # "idle" /\ th[t].key = k

\* The key is not in the other queue; and a key that is not in the map is in neither.
TrueType(k, type) == IF type = "Small" THEN k \notin q.mainSet ELSE k \notin q.smallSet
Resting(k) == IF k \in DOMAIN db THEN TrueType(k, db[k].type) ELSE k \notin Queued(q)

\* What the one thread that works on a key can rely on.
Local(t, k) ==
    /\ th[t].pc \in {"read_set", "get", "read_del", "hset"} => Resting(k)
    /\ th[t].pc \in {"unqueue", "del_unqueue"} =>
         k \in DOMAIN db /\ th[t].type = db[k].type /\ TrueType(k, db[k].type)
    /\ th[t].pc \in {"place", "remove"} => k \notin Queued(q)
    /\ th[t].pc = "insert" => TrueType(k, th[t].type)
    /\ th[t].pc = "promote" => k \in DOMAIN db /\ k \notin q.mainSet
    /\ th[t].pc = "retype" => k \in DOMAIN db /\ k \notin q.smallSet
    /\ th[t].pc = "reinsert" => k \in DOMAIN db /\ db[k].type = "Main" /\ k \notin q.smallSet

\* The operations on an untainted key follow one another, and each leaves its type true.
Truthful(k) ==
    /\ \A t, u \in Threads : Works(t, k) /\ Works(u, k) => t = u
    /\ \A t \in Threads : Works(t, k) => Local(t, k)
    /\ (\A t \in Threads : ~Works(t, k)) => Resting(k)

\* An entry that no eviction can find is about to be queued again or to be removed.
Explained(k) == k \in Queued(q) \cup overflowed \cup loose
Pending(k) == \E t \in Threads : th[t].key = k /\ th[t].pc \in {"place", "remove"}

IInv ==
    /\ Basic
    /\ \A k \in Keys : k \in tainted \/ Truthful(k)
    /\ \A k \in DOMAIN db : Explained(k) \/ Pending(k)

----------------------------------------------------------------------------
(* How threads and the map change. *)

LEMMA GotoFacts ==
    ASSUME ThTyped, NEW t \in Threads, th[t].pc # "idle", NEW p \in Pcs, NEW y \in Types,
           \/ Goto(t, p) /\ y = th[t].type
           \/ th' = [th EXCEPT ![t].pc = p, ![t].type = y]
    PROVE  /\ ThTyped' /\ th'[t].pc = p /\ th'[t].key = th[t].key /\ th'[t].type = y
           /\ \A u \in Threads \ {t} : th'[u] = th[u]
<1>1. th[t] \in [pc: Pcs, key: Keys \cup {"none"}, type: Types] /\ th[t].key \in Keys
  BY DEF ThTyped
<1> DEFINE r == [th[t] EXCEPT !.pc = p, !.type = y]
<1>2. /\ r \in [pc: Pcs, key: Keys \cup {"none"}, type: Types]
      /\ r.pc = p /\ r.key = th[t].key /\ r.type = y
  BY <1>1, Zenon
<1>3. th' = [th EXCEPT ![t] = r]
  BY <1>1, Zenon DEF Goto, ThTyped
<1> HIDE DEF r
<1>4. th' \in [Threads -> [pc: Pcs, key: Keys \cup {"none"}, type: Types]] /\ th'[t] = r
      /\ \A u \in Threads \ {t} : th'[u] = th[u]
  BY <1>2, <1>3, Zenon DEF ThTyped
<1>5. ThTyped'
  BY <1>1, <1>2, <1>4, Zenon DEF ThTyped
<1> QED BY <1>2, <1>4, <1>5, Zenon

LEMMA DoneFacts ==
    ASSUME ThTyped, NEW t \in Threads, Done(t)
    PROVE  /\ ThTyped' /\ th'[t].pc = "idle"
           /\ \A u \in Threads \ {t} : th'[u] = th[u]
<1>1. Idle \in [pc: Pcs, key: Keys \cup {"none"}, type: Types] /\ Idle.pc = "idle"
  BY DEF Idle, Pcs, Types
<1>2. /\ th' \in [Threads -> [pc: Pcs, key: Keys \cup {"none"}, type: Types]] /\ th'[t] = Idle
      /\ \A u \in Threads \ {t} : th'[u] = th[u]
  BY <1>1, Zenon DEF ThTyped, Done
<1> QED BY <1>1, <1>2, Zenon DEF ThTyped

LEMMA FreshFacts ==
    ASSUME ThTyped, NEW t \in Threads, NEW p \in Pcs, NEW k \in Keys,
           th' = [th EXCEPT ![t] = [pc |-> p, key |-> k, type |-> "Small"]]
    PROVE  /\ ThTyped' /\ th'[t].pc = p /\ th'[t].key = k
           /\ \A u \in Threads \ {t} : th'[u] = th[u]
<1> DEFINE r == [pc |-> p, key |-> k, type |-> "Small"]
<1>1. r \in [pc: Pcs, key: Keys \cup {"none"}, type: Types] /\ r.pc = p /\ r.key = k
  BY DEF Types
<1> HIDE DEF r
<1>2. /\ th' \in [Threads -> [pc: Pcs, key: Keys \cup {"none"}, type: Types]] /\ th'[t] = r
      /\ \A u \in Threads \ {t} : th'[u] = th[u]
  BY <1>1, Zenon DEF ThTyped, r
<1> QED BY <1>1, <1>2, Zenon DEF ThTyped

LEMMA PutFacts ==
    ASSUME DbTyped, NEW k \in Keys, NEW y \in Types, Put(k, y)
    PROVE  /\ DbTyped' /\ DOMAIN db' = DOMAIN db \cup {k} /\ db'[k].type = y
           /\ \A j \in DOMAIN db \ {k} : db'[j] = db[j]
<1> DEFINE e == [type |-> y, count |-> 0]
<1>1. e \in [type: Types, count: 0..2] /\ e.type = y
  OBVIOUS
<1> HIDE DEF e
<1>2. DOMAIN db' = DOMAIN db \cup {k} /\ db'[k] = e /\ \A j \in DOMAIN db \ {k} : db'[j] = db[j]
  BY Zenon DEF Put, e
<1>3. DbTyped'
  BY <1>1, <1>2, Zenon DEF DbTyped
<1> QED BY <1>1, <1>2, <1>3, Zenon

LEMMA DropFacts ==
    ASSUME DbTyped, NEW k \in Keys, Drop(k)
    PROVE  DbTyped' /\ DOMAIN db' = DOMAIN db \ {k} /\ \A j \in DOMAIN db \ {k} : db'[j] = db[j]
  BY Zenon DEF DbTyped, Drop

LEMMA CountFacts ==
    ASSUME DbTyped, NEW k \in DOMAIN db,
           db' = [db EXCEPT ![k].count = IF @ < 2 THEN @ + 1 ELSE @]
    PROVE  /\ DbTyped' /\ DOMAIN db' = DOMAIN db /\ db'[k].type = db[k].type
           /\ \A j \in DOMAIN db \ {k} : db'[j] = db[j]
<1> DEFINE e == [db[k] EXCEPT !.count = IF @ < 2 THEN @ + 1 ELSE @]
<1>1. e \in [type: Types, count: 0..2] /\ e.type = db[k].type
  BY DEF DbTyped
<1>2. db' = [db EXCEPT ![k] = e]
  BY Zenon
<1> HIDE DEF e
<1>3. DOMAIN db' = DOMAIN db /\ db'[k] = e /\ \A j \in DOMAIN db \ {k} : db'[j] = db[j]
  BY <1>2, Zenon
<1>4. DbTyped'
  BY <1>1, <1>3, Zenon DEF DbTyped
<1> QED BY <1>1, <1>3, <1>4, Zenon

LEMMA RetypeFacts ==
    ASSUME DbTyped, NEW k, db' = [db EXCEPT ![k].type = "Main"]
    PROVE  /\ DbTyped' /\ DOMAIN db' = DOMAIN db /\ (k \in DOMAIN db => db'[k].type = "Main")
           /\ \A j \in DOMAIN db \ {k} : db'[j] = db[j]
<1> DEFINE e == [db[k] EXCEPT !.type = "Main"]
<1>1. k \in DOMAIN db => e \in [type: Types, count: 0..2] /\ e.type = "Main"
  BY DEF DbTyped, Types
<1>2. db' = [db EXCEPT ![k] = e]
  BY Zenon
<1> HIDE DEF e
<1>3. DOMAIN db' = DOMAIN db /\ (k \in DOMAIN db => db'[k] = e) /\ \A j \in DOMAIN db \ {k} : db'[j] = db[j]
  BY <1>2, Zenon
<1>4. DbTyped'
  BY <1>1, <1>3, Zenon DEF DbTyped
<1> QED BY <1>1, <1>3, <1>4, Zenon

----------------------------------------------------------------------------
(* A step on one key leaves the others as they are. *)

\* Nothing of another key changes but that it may be pushed out of a queue.
OthersKept(k) ==
    \A j \in Keys \ {k} :
        /\ j \in DOMAIN db' <=> j \in DOMAIN db
        /\ j \in DOMAIN db => db'[j] = db[j]
        /\ j \in q'.smallSet => j \in q.smallSet
        /\ j \in q'.mainSet => j \in q.mainSet
        /\ Explained(j) => Explained(j)'
        /\ j \in tainted => j \in tainted'

\* Only t moves, from no key or k to no key or k.
Moves(t, k) ==
    /\ \A u \in Threads \ {t} : th'[u] = th[u]
    /\ th[t].pc = "idle" \/ th[t].key = k
    /\ th'[t].pc = "idle" \/ th'[t].key = k

LEMMA OtherTruthful ==
    ASSUME NEW j \in Keys, Truthful(j),
           j \in DOMAIN db' <=> j \in DOMAIN db, j \in DOMAIN db => db'[j] = db[j],
           j \in q'.smallSet => j \in q.smallSet, j \in q'.mainSet => j \in q.mainSet,
           \A u \in Threads : (Works(u, j)' <=> Works(u, j)) /\ (Works(u, j) => th'[u] = th[u])
    PROVE  Truthful(j)'
<1>1. \A y : TrueType(j, y) => TrueType(j, y)'
  BY Zenon DEF TrueType
<1>2. j \notin Queued(q) => j \notin Queued(q')
  BY Zenon DEF Queued
<1>3. Resting(j) => Resting(j)'
  BY <1>1, <1>2, Zenon DEF Resting
<1>4. ASSUME NEW u \in Threads, Works(u, j), Local(u, j) PROVE Local(u, j)'
  <2>1. th'[u] = th[u]
    BY <1>4
  <2> QED BY <1>1, <1>2, <1>3, <1>4, <2>1, Zenon DEF Local
<1> QED BY <1>3, <1>4, Zenon DEF Truthful

\* Whoever works on another key goes on with it.
ThreadsKept(k) ==
    \A j \in Keys \ {k} :
        /\ \A u \in Threads : (Works(u, j)' <=> Works(u, j)) /\ (Works(u, j) => th'[u] = th[u])
        /\ Pending(j) => Pending(j)'

LEMMA MovesKeeps ==
    ASSUME NEW t \in Threads, NEW k, Moves(t, k)
    PROVE  ThreadsKept(k)
<1> SUFFICES ASSUME NEW j \in Keys \ {k}
             PROVE  /\ \A u \in Threads : (Works(u, j)' <=> Works(u, j)) /\ (Works(u, j) => th'[u] = th[u])
                    /\ Pending(j) => Pending(j)'
  BY Zenon DEF ThreadsKept
<1>1. \A u \in Threads : (Works(u, j)' <=> Works(u, j)) /\ (Works(u, j) => th'[u] = th[u])
  BY DEF Moves, Works
<1>2. ASSUME Pending(j) PROVE Pending(j)'
  <2>1. PICK u \in Threads : th[u].key = j /\ th[u].pc \in {"place", "remove"}
    BY <1>2, Zenon DEF Pending
  <2>2. u # t
    BY <2>1 DEF Moves
  <2>3. th'[u] = th[u]
    BY <2>2, Zenon DEF Moves
  <2> QED BY <2>1, <2>3, Zenon DEF Pending
<1> QED BY <1>1, <1>2, Zenon

LEMMA Conclude ==
    ASSUME IInv, NEW k \in Keys, Basic', OthersKept(k), ThreadsKept(k),
           k \in tainted' \/ Truthful(k)', k \in DOMAIN db' => Explained(k)' \/ Pending(k)'
    PROVE  IInv'
<1>1. ASSUME NEW j \in Keys PROVE j \in tainted' \/ Truthful(j)'
  <2>1. CASE j = k
    BY <2>1
  <2>2. CASE j # k /\ j \notin tainted
    <3>1. \A u \in Threads : (Works(u, j)' <=> Works(u, j)) /\ (Works(u, j) => th'[u] = th[u])
      BY <2>2, Zenon DEF ThreadsKept
    <3>2. Truthful(j)
      BY <2>2, Zenon DEF IInv
    <3> QED BY <2>2, <3>1, <3>2, OtherTruthful, Zenon DEF OthersKept
  <2>3. CASE j # k /\ j \in tainted
    BY <2>3, Zenon DEF OthersKept
  <2> QED BY <2>1, <2>2, <2>3
<1>2. ASSUME NEW j \in DOMAIN db' PROVE Explained(j)' \/ Pending(j)'
  <2>1. CASE j = k
    BY <1>2, <2>1
  <2>2. CASE j # k
    <3>1. j \in Keys /\ j \in DOMAIN db
      BY <1>2, <2>2, Zenon DEF Basic, DbTyped, OthersKept
    <3>2. Explained(j) \/ Pending(j)
      BY <3>1, Zenon DEF IInv
    <3> QED BY <2>2, <3>1, <3>2, Zenon DEF OthersKept, ThreadsKept
  <2> QED BY <2>1, <2>2
<1> QED BY <1>1, <1>2, Zenon DEF IInv

\* Three ways to leave other keys alone.
DbKept(k) ==
    \A j \in Keys \ {k} : (j \in DOMAIN db' <=> j \in DOMAIN db) /\ (j \in DOMAIN db => db'[j] = db[j])
QueuesKept(k) ==
    /\ q'.smallSet \subseteq q.smallSet \cup {k} /\ q'.mainSet \subseteq q.mainSet \cup {k}
    /\ \/ Overflow(k)
       \/ overflowed' = overflowed /\ Queued(q) \subseteq Queued(q') \cup {k}

LEMMA FrameFacts ==
    ASSUME NEW k, DbKept(k), QueuesKept(k), loose \subseteq loose' \cup {k}, tainted \subseteq tainted'
    PROVE  OthersKept(k)
<1>1. ASSUME NEW j \in Keys \ {k}, Explained(j) PROVE Explained(j)'
  BY <1>1 DEF QueuesKept, Overflow, Explained, Queued
<1> QED BY <1>1, Zenon DEF OthersKept, DbKept, QueuesKept

LEMMA SameQueues ==
    ASSUME NEW k, UNCHANGED <<q, overflowed>>
    PROVE  QueuesKept(k) /\ (InOrder(q) => InOrder(q')) /\ (loose' = loose => (Explained(k) => Explained(k)'))
  BY Zenon DEF QueuesKept, Explained

LEMMA SameDb ==
    ASSUME NEW k, UNCHANGED db
    PROVE  DbKept(k) /\ (DbTyped => DbTyped')
  BY Zenon DEF DbKept, DbTyped

\* The thread that works on k and what it makes true.
LEMMA OwnTruthful ==
    ASSUME IInv, NEW t \in Threads, NEW k \in Keys, Works(t, k), Moves(t, k), tainted' = tainted,
           Local(t, k) => IF th'[t].pc = "idle" THEN Resting(k)' ELSE Local(t, k)'
    PROVE  k \in tainted' \/ Truthful(k)'
<1> SUFFICES ASSUME k \notin tainted PROVE Truthful(k)'
  BY Zenon
<1>1. Truthful(k)
  BY Zenon DEF IInv
<1>2. Local(t, k) /\ \A u \in Threads \ {t} : ~Works(u, k)
  BY <1>1, Zenon DEF Truthful
<1>3. \A u \in Threads \ {t} : ~Works(u, k)'
  BY <1>2, Zenon DEF Moves, Works
<1>4. Works(t, k)' <=> th'[t].pc # "idle"
  BY Zenon DEF Moves, Works
<1> QED BY <1>2, <1>3, <1>4, Zenon DEF Truthful

\* A thread that begins to work on k when nobody else does.
LEMMA FreshTruthful ==
    ASSUME IInv, NEW t \in Threads, NEW k \in Keys, th'[t].key = k, th'[t].pc # "idle",
           \A u \in Threads \ {t} : th'[u] = th[u], Taint(k), Resting(k) => Local(t, k)'
    PROVE  k \in tainted' \/ Truthful(k)'
<1> SUFFICES ASSUME k \notin tainted' PROVE Truthful(k)'
  BY Zenon
<1>1. k \notin tainted /\ ~Busy(k)
  BY DEF Taint
<1>2. \A u \in Threads : ~Works(u, k)
  BY <1>1, Zenon DEF Busy, Works
<1>3. Resting(k)
  BY <1>1, <1>2, Zenon DEF IInv, Truthful
<1>4. \A u \in Threads \ {t} : ~Works(u, k)'
  BY <1>2, Zenon DEF Works
<1>5. Works(t, k)'
  BY Zenon DEF Works
<1> QED BY <1>3, <1>4, <1>5, Zenon DEF Truthful

LEMMA OwnExplained ==
    ASSUME IInv, NEW t \in Threads, NEW k \in DOMAIN db, \A u \in Threads \ {t} : th'[u] = th[u],
           th[t].pc \notin {"place", "remove"}, Explained(k) => Explained(k)'
    PROVE  Explained(k)' \/ Pending(k)'
<1>1. CASE Explained(k)
  BY <1>1
<1>2. CASE Pending(k)
  <2>1. PICK u \in Threads : th[u].key = k /\ th[u].pc \in {"place", "remove"}
    BY <1>2, Zenon DEF Pending
  <2>2. u # t
    BY <2>1
  <2> QED BY <2>1, <2>2, Zenon DEF Pending
<1> QED BY <1>1, <1>2, Zenon DEF IInv

----------------------------------------------------------------------------
(* Every step keeps the invariant. *)

\* A thread inside an operation works on its key.
LEMMA Working ==
    ASSUME IInv, NEW t \in Threads, th[t].pc # "idle"
    PROVE  th[t].key \in Keys /\ Works(t, th[t].key) /\ th[t].type \in Types
<1>1. ThTyped
  BY Zenon DEF IInv, Basic
<1> QED BY <1>1 DEF ThTyped, Works

LEMMA Finish ==
    ASSUME IInv, NEW t \in Threads, NEW k \in Keys, Works(t, k), Basic', DbKept(k), QueuesKept(k),
           loose \subseteq loose' \cup {k}, tainted' = tainted, Moves(t, k),
           Local(t, k) => IF th'[t].pc = "idle" THEN Resting(k)' ELSE Local(t, k)',
           k \in DOMAIN db' => Explained(k)' \/ Pending(k)'
    PROVE  IInv'
<1>1. OthersKept(k)
  BY FrameFacts, Zenon
<1>2. ThreadsKept(k)
  BY MovesKeeps, Zenon
<1>3. k \in tainted' \/ Truthful(k)'
  BY OwnTruthful, Zenon
<1> QED BY <1>1, <1>2, <1>3, Conclude, Zenon

\* SET, and DEL, which begins like it: the entry, if there is one, is looked at.
LEMMA LookStep ==
    ASSUME IInv, NEW t \in Threads, NEW k, k = th[t].key, SetRead(t) \/ DelRead(t)
    PROVE  IInv'
<1>0. th[t].pc \in {"read_set", "read_del"} /\ UNCHANGED <<db, q, overflowed, loose, tainted>>
  BY DEF SetRead, DelRead, At
<1>1. k \in Keys /\ Works(t, k) /\ th[t].type \in Types /\ ThTyped /\ DbTyped /\ InOrder(q)
  BY <1>0, Working DEF IInv, Basic
<1> DEFINE y == IF k \in DOMAIN db THEN db[k].type ELSE th[t].type
<1>2. PICK p \in Pcs : /\ IF k \in DOMAIN db THEN p \in {"unqueue", "del_unqueue"} ELSE p \in {"place", "remove"}
                       /\ \/ Goto(t, p) /\ y = th[t].type
                          \/ th' = [th EXCEPT ![t].pc = p, ![t].type = y]
  <2>1. {"unqueue", "del_unqueue", "place", "remove"} \subseteq Pcs
    BY DEF Pcs
  <2> QED BY <2>1, Zenon DEF SetRead, DelRead
<1>3. y \in Types /\ p # "idle"
  BY <1>1, <1>2 DEF DbTyped
<1>4. /\ ThTyped' /\ th'[t].pc = p /\ th'[t].key = k /\ th'[t].type = y
      /\ \A u \in Threads \ {t} : th'[u] = th[u]
  <2> HIDE DEF y
  <2> QED BY <1>0, <1>1, <1>2, <1>3, GotoFacts
<1>5. Moves(t, k)
  BY <1>4, Zenon DEF Moves
<1>6. Local(t, k) => Local(t, k)'
  <2>1. Local(t, k) => IF k \in DOMAIN db THEN TrueType(k, db[k].type) ELSE k \notin Queued(q)
    BY <1>0 DEF Local, Resting
  <2>2. \A z : TrueType(k, z)' = TrueType(k, z)
    BY <1>0, Zenon DEF TrueType
  <2> QED BY <1>0, <1>2, <1>4, <2>1, <2>2 DEF Local
<1>7. k \in DOMAIN db' => Explained(k)' \/ Pending(k)'
  BY <1>0, <1>4, SameQueues, OwnExplained
<1>8. Basic' /\ DbKept(k) /\ QueuesKept(k)
  BY <1>0, <1>1, <1>4, SameDb, SameQueues, Zenon DEF Basic
<1> QED BY <1>0, <1>1, <1>3, <1>4, <1>5, <1>6, <1>7, <1>8, Finish, Zenon

LEMMA UnqueueStep ==
    ASSUME IInv, NEW t \in Threads, NEW k, k = th[t].key, SetUnqueue(t) \/ DelUnqueue(t)
    PROVE  IInv'
<1>0. /\ th[t].pc \in {"unqueue", "del_unqueue"} /\ UNCHANGED <<db, overflowed, loose, tainted>>
      /\ q' = RemoveByType(q, k, th[t].type)
  BY DEF SetUnqueue, DelUnqueue, At
<1>1. k \in Keys /\ Works(t, k) /\ th[t].type \in Types /\ ThTyped /\ DbTyped /\ InOrder(q)
  BY <1>0, Working DEF IInv, Basic
<1>2. PICK p \in Pcs : p \in {"place", "remove"} /\ Goto(t, p)
  <2>1. {"place", "remove"} \subseteq Pcs
    BY DEF Pcs
  <2> QED BY <2>1, Zenon DEF SetUnqueue, DelUnqueue
<1>3. /\ ThTyped' /\ th'[t].pc = p /\ th'[t].key = k
      /\ \A u \in Threads \ {t} : th'[u] = th[u]
  BY <1>0, <1>1, <1>2, GotoFacts, Zenon
<1>4. Moves(t, k)
  BY <1>3, Zenon DEF Moves
<1>5. /\ InOrder(q')
      /\ th[t].type = "Small" => q'.smallSet = q.smallSet \ {k} /\ q'.mainSet = q.mainSet
      /\ th[t].type # "Small" => q'.mainSet = q.mainSet \ {k} /\ q'.smallSet = q.smallSet
  <2> DEFINE r == RemoveByType(q, k, th[t].type)
  <2>1. /\ InOrder(r)
        /\ th[t].type = "Small" => r.smallSet = q.smallSet \ {k} /\ r.mainSet = q.mainSet
        /\ th[t].type # "Small" => r.mainSet = q.mainSet \ {k} /\ r.smallSet = q.smallSet
    BY <1>1, RemoveByTypeFacts
  <2>2. q' = r
    BY <1>0
  <2> QED
    BY <2>1, <2>2, Zenon
<1>6. Local(t, k) => Local(t, k)'
  <2>1. Local(t, k) => TrueType(k, th[t].type)
    BY <1>0 DEF Local
  <2>2. TrueType(k, th[t].type) => k \notin Queued(q')
    BY <1>5 DEF TrueType, Queued
  <2> QED BY <1>2, <1>3, <2>1, <2>2, Zenon DEF Local
<1>7. Pending(k)'
  BY <1>2, <1>3, Zenon DEF Pending
<1>8. QueuesKept(k)
  BY <1>0, <1>5 DEF QueuesKept, Queued
<1>9. Basic' /\ DbKept(k)
  BY <1>0, <1>1, <1>3, <1>5, SameDb, Zenon DEF Basic
<1>10. p # "idle"
  BY <1>2
<1> QED BY <1>0, <1>1, <1>3, <1>4, <1>6, <1>7, <1>8, <1>9, <1>10, Finish, Zenon

LEMMA SetPlaceStep ==
    ASSUME IInv, NEW t \in Threads, NEW k, k = th[t].key, SetPlace(t)
    PROVE  IInv'
<1> DEFINE y == PlacedType(q, k)
<1>0. /\ th[t].pc = "place" /\ UNCHANGED <<db, loose, tainted>> /\ q' = Placed(q, k) /\ Overflow(k)
      /\ th' = [th EXCEPT ![t].pc = "insert", ![t].type = y]
  BY Zenon DEF SetPlace, At
<1>1. k \in Keys /\ Works(t, k) /\ th[t].type \in Types /\ ThTyped /\ DbTyped /\ InOrder(q)
  BY <1>0, Working DEF IInv, Basic
<1>2. y \in Types /\ "insert" \in Pcs
  BY DEF PlacedType, Types, Pcs
<1>3. /\ ThTyped' /\ th'[t].pc = "insert" /\ th'[t].key = k /\ th'[t].type = y
      /\ \A u \in Threads \ {t} : th'[u] = th[u]
  <2> HIDE DEF y
  <2> QED BY <1>0, <1>1, <1>2, GotoFacts, Zenon
<1>4. Moves(t, k)
  BY <1>3, Zenon DEF Moves
<1>5. /\ InOrder(q') /\ k \in Queued(q')
      /\ y = "Main" => q'.smallSet = q.smallSet /\ q'.mainSet \subseteq q.mainSet \cup {k}
      /\ y = "Small" => q'.mainSet = q.mainSet /\ q'.smallSet \subseteq q.smallSet \cup {k}
  BY <1>0, <1>1, PlacedFacts DEF PlacedType
<1> HIDE DEF y
<1>6. Local(t, k) => Local(t, k)'
  <2>1. Local(t, k) => k \notin Queued(q)
    BY <1>0 DEF Local
  <2>2. k \notin Queued(q) => IF y = "Small" THEN k \notin q'.mainSet ELSE k \notin q'.smallSet
    BY <1>2, <1>5 DEF Queued, Types
  <2> QED BY <1>3, <2>1, <2>2, Zenon DEF Local, TrueType
<1>7. Explained(k)'
  BY <1>5, Zenon DEF Explained
<1>8. QueuesKept(k)
  BY <1>0, <1>2, <1>5 DEF QueuesKept, Types
<1>9. Basic' /\ DbKept(k)
  BY <1>0, <1>1, <1>3, <1>5, SameDb, Zenon DEF Basic
<1>10. th'[t].pc # "idle"
  BY <1>3
<1> QED BY <1>0, <1>1, <1>4, <1>6, <1>7, <1>8, <1>9, <1>10, Finish, Zenon

LEMMA SetInsertStep ==
    ASSUME IInv, NEW t \in Threads, NEW k, k = th[t].key, SetInsert(t)
    PROVE  IInv'
<1>0. th[t].pc = "insert" /\ UNCHANGED <<q, overflowed, tainted>> /\ Put(k, th[t].type) /\ Done(t)
  BY Zenon DEF SetInsert, At
<1>1. k \in Keys /\ Works(t, k) /\ th[t].type \in Types /\ ThTyped /\ DbTyped /\ InOrder(q)
  BY <1>0, Working DEF IInv, Basic
<1>2. ThTyped' /\ th'[t].pc = "idle" /\ \A u \in Threads \ {t} : th'[u] = th[u]
  BY <1>0, <1>1, DoneFacts
<1>3. Moves(t, k)
  BY <1>2, Zenon DEF Moves
<1>4. /\ DbTyped' /\ DOMAIN db' = DOMAIN db \cup {k} /\ db'[k].type = th[t].type
      /\ \A j \in DOMAIN db \ {k} : db'[j] = db[j]
  BY <1>0, <1>1, PutFacts
<1>5. Local(t, k) => Resting(k)'
  <2>1. Local(t, k) => TrueType(k, th[t].type)
    BY <1>0 DEF Local
  <2> QED BY <1>0, <1>4, <2>1, Zenon DEF Resting, TrueType
<1>6. Explained(k)' /\ loose \subseteq loose' \cup {k}
  BY <1>0, Zenon DEF Put, Explained
<1>7. DbKept(k)
  BY <1>4, Zenon DEF DbKept
<1>8. Basic' /\ QueuesKept(k)
  BY <1>0, <1>1, <1>2, <1>4, SameQueues, Zenon DEF Basic
<1> QED BY <1>0, <1>1, <1>2, <1>3, <1>5, <1>6, <1>7, <1>8, Finish, Zenon

LEMMA GetReadStep ==
    ASSUME IInv, NEW t \in Threads, NEW k, k = th[t].key, GetRead(t)
    PROVE  IInv'
<1>0. th[t].pc = "get" /\ UNCHANGED <<q, overflowed, loose, tainted>>
  BY Zenon DEF GetRead, At
<1>1. k \in Keys /\ Works(t, k) /\ th[t].type \in Types /\ ThTyped /\ DbTyped /\ InOrder(q)
  BY <1>0, Working DEF IInv, Basic
<1>2. /\ DbTyped' /\ DOMAIN db' = DOMAIN db /\ (k \in DOMAIN db => db'[k].type = db[k].type)
      /\ \A j \in DOMAIN db \ {k} : db'[j] = db[j]
  <2>1. CASE UNCHANGED db
    BY <1>1, <2>1, SameDb, Zenon
  <2>2. CASE k \in DOMAIN db /\ db' = [db EXCEPT ![k].count = IF @ < 2 THEN @ + 1 ELSE @]
    BY <1>1, <2>2, CountFacts, Zenon
  <2> QED BY <2>1, <2>2, Zenon DEF GetRead
<1>3. /\ ThTyped' /\ \A u \in Threads \ {t} : th'[u] = th[u]
      /\ \/ th'[t].pc = "idle"
         \/ th'[t].pc = "reinsert" /\ th'[t].key = k /\ k \in DOMAIN db /\ db[k].type = "Main"
         \/ th'[t].pc = "promote" /\ th'[t].key = k /\ k \in DOMAIN db /\ db[k].type # "Main"
  <2>1. CASE Done(t)
    BY <1>1, <2>1, DoneFacts
  <2>2. CASE Goto(t, "reinsert") /\ k \in DOMAIN db /\ db[k].type = "Main"
    <3>1. "reinsert" \in Pcs
      BY DEF Pcs
    <3> QED BY <1>0, <1>1, <2>2, <3>1, GotoFacts, Zenon
  <2>3. CASE Goto(t, "promote") /\ k \in DOMAIN db /\ db[k].type # "Main"
    <3>1. "promote" \in Pcs
      BY DEF Pcs
    <3> QED BY <1>0, <1>1, <2>3, <3>1, GotoFacts, Zenon
  <2> QED BY <2>1, <2>2, <2>3, Zenon DEF GetRead
<1>4. Moves(t, k)
  BY <1>3, Zenon DEF Moves
<1>5. ASSUME Local(t, k) PROVE IF th'[t].pc = "idle" THEN Resting(k)' ELSE Local(t, k)'
  <2>1. Resting(k)
    BY <1>0, <1>5 DEF Local
  <2>2. CASE th'[t].pc = "idle"
    BY <1>0, <1>2, <2>1, <2>2, Zenon DEF Resting, TrueType
  <2>3. CASE th'[t].pc = "reinsert" /\ k \in DOMAIN db /\ db[k].type = "Main"
    <3>1. k \notin q.smallSet
      BY <2>1, <2>3 DEF Resting, TrueType
    <3> QED BY <1>0, <1>2, <2>3, <3>1 DEF Local
  <2>4. CASE th'[t].pc = "promote" /\ k \in DOMAIN db /\ db[k].type # "Main"
    <3>1. db[k].type = "Small"
      BY <1>1, <2>4 DEF DbTyped, Types
    <3>2. k \notin q.mainSet
      BY <2>1, <2>4, <3>1, Zenon DEF Resting, TrueType
    <3> QED BY <1>0, <1>2, <2>4, <3>2 DEF Local
  <2> QED BY <1>3, <2>2, <2>3, <2>4
<1>6. k \in DOMAIN db' => Explained(k)' \/ Pending(k)'
  BY <1>0, <1>2, <1>3, SameQueues, OwnExplained
<1>7. DbKept(k)
  BY <1>2, Zenon DEF DbKept
<1>8. Basic' /\ QueuesKept(k)
  BY <1>0, <1>1, <1>2, <1>3, SameQueues, Zenon DEF Basic
<1> QED BY <1>0, <1>1, <1>4, <1>5, <1>6, <1>7, <1>8, Finish, Zenon

LEMMA GetPromoteStep ==
    ASSUME IInv, NEW t \in Threads, NEW k, k = th[t].key, GetPromote(t)
    PROVE  IInv'
<1>0. /\ th[t].pc = "promote" /\ UNCHANGED <<db, loose, tainted>> /\ Overflow(k) /\ Goto(t, "retype")
      /\ q' = AddToMain(RemoveFromSmall(q, k), k)
  BY Zenon DEF GetPromote, At
<1>1. k \in Keys /\ Works(t, k) /\ th[t].type \in Types /\ ThTyped /\ DbTyped /\ InOrder(q)
  BY <1>0, Working DEF IInv, Basic
<1>2. ThTyped' /\ th'[t].pc = "retype" /\ th'[t].key = k /\ \A u \in Threads \ {t} : th'[u] = th[u]
  <2>1. "retype" \in Pcs
    BY DEF Pcs
  <2> QED BY <1>0, <1>1, <2>1, GotoFacts, Zenon
<1>3. Moves(t, k)
  BY <1>2, Zenon DEF Moves
<1>4. InOrder(q') /\ k \in q'.mainSet /\ q'.mainSet \subseteq q.mainSet \cup {k} /\ q'.smallSet = q.smallSet \ {k}
  BY <1>0, <1>1, PromoteFacts, Zenon
<1>5. Local(t, k) => Local(t, k)'
  <2>1. Local(t, k) => k \in DOMAIN db
    BY <1>0 DEF Local
  <2> QED BY <1>0, <1>2, <1>4, <2>1, Zenon DEF Local
<1>6. Explained(k)'
  BY <1>4, Zenon DEF Explained, Queued
<1>7. QueuesKept(k)
  BY <1>0, <1>4, Zenon DEF QueuesKept
<1>8. Basic' /\ DbKept(k) /\ th'[t].pc # "idle"
  BY <1>0, <1>1, <1>2, <1>4, SameDb DEF Basic
<1> QED BY <1>0, <1>1, <1>3, <1>5, <1>6, <1>7, <1>8, Finish, Zenon

LEMMA GetRetypeStep ==
    ASSUME IInv, NEW t \in Threads, NEW k, k = th[t].key, GetRetype(t)
    PROVE  IInv'
<1>0. /\ th[t].pc = "retype" /\ UNCHANGED <<q, overflowed, loose, tainted>> /\ Done(t)
      /\ db' = [db EXCEPT ![k].type = "Main"]
  BY Zenon DEF GetRetype, At
<1>1. k \in Keys /\ Works(t, k) /\ th[t].type \in Types /\ ThTyped /\ DbTyped /\ InOrder(q)
  BY <1>0, Working DEF IInv, Basic
<1>2. ThTyped' /\ th'[t].pc = "idle" /\ \A u \in Threads \ {t} : th'[u] = th[u]
  BY <1>0, <1>1, DoneFacts
<1>3. Moves(t, k)
  BY <1>2, Zenon DEF Moves
<1>4. /\ DbTyped' /\ DOMAIN db' = DOMAIN db /\ (k \in DOMAIN db => db'[k].type = "Main")
      /\ \A j \in DOMAIN db \ {k} : db'[j] = db[j]
  BY <1>0, <1>1, RetypeFacts, Zenon
<1>5. Local(t, k) => Resting(k)'
  <2>1. Local(t, k) => k \in DOMAIN db /\ k \notin q.smallSet
    BY <1>0 DEF Local
  <2> QED BY <1>0, <1>4, <2>1, Zenon DEF Resting, TrueType
<1>6. k \in DOMAIN db' => Explained(k)' \/ Pending(k)'
  BY <1>0, <1>2, <1>4, SameQueues, OwnExplained
<1>7. DbKept(k)
  BY <1>4, Zenon DEF DbKept
<1>8. Basic' /\ QueuesKept(k)
  BY <1>0, <1>1, <1>2, <1>4, SameQueues, Zenon DEF Basic
<1> QED BY <1>0, <1>1, <1>2, <1>3, <1>5, <1>6, <1>7, <1>8, Finish, Zenon

LEMMA GetReinsertStep ==
    ASSUME IInv, NEW t \in Threads, NEW k, k = th[t].key, GetReinsert(t)
    PROVE  IInv'
<1>0. /\ th[t].pc = "reinsert" /\ UNCHANGED <<db, loose, tainted>> /\ Overflow(k) /\ Done(t)
      /\ q' = ReinsertMainTail(q, k)
  BY Zenon DEF GetReinsert, At
<1>1. k \in Keys /\ Works(t, k) /\ th[t].type \in Types /\ ThTyped /\ DbTyped /\ InOrder(q)
  BY <1>0, Working DEF IInv, Basic
<1>2. ThTyped' /\ th'[t].pc = "idle" /\ \A u \in Threads \ {t} : th'[u] = th[u]
  BY <1>0, <1>1, DoneFacts
<1>3. Moves(t, k)
  BY <1>2, Zenon DEF Moves
<1>4. InOrder(q') /\ k \in q'.mainSet /\ q'.mainSet \subseteq q.mainSet \cup {k} /\ q'.smallSet = q.smallSet
  BY <1>0, <1>1, ReinsertFacts, Zenon
<1>5. Local(t, k) => Resting(k)'
  <2>1. Local(t, k) => k \in DOMAIN db /\ db[k].type = "Main" /\ k \notin q.smallSet
    BY <1>0 DEF Local
  <2> QED BY <1>0, <1>4, <2>1 DEF Resting, TrueType
<1>6. Explained(k)'
  BY <1>4, Zenon DEF Explained, Queued
<1>7. QueuesKept(k)
  BY <1>0, <1>4, Zenon DEF QueuesKept
<1>8. Basic' /\ DbKept(k)
  BY <1>0, <1>1, <1>2, <1>4, SameDb, Zenon DEF Basic
<1> QED BY <1>0, <1>1, <1>2, <1>3, <1>5, <1>6, <1>7, <1>8, Finish, Zenon

LEMMA RemoveEntryStep ==
    ASSUME IInv, NEW t \in Threads, NEW k, k = th[t].key, RemoveEntry(t)
    PROVE  IInv'
<1>0. th[t].pc = "remove" /\ UNCHANGED <<q, overflowed, loose, tainted>> /\ Drop(k) /\ Done(t)
  BY Zenon DEF RemoveEntry, At
<1>1. k \in Keys /\ Works(t, k) /\ th[t].type \in Types /\ ThTyped /\ DbTyped /\ InOrder(q)
  BY <1>0, Working DEF IInv, Basic
<1>2. ThTyped' /\ th'[t].pc = "idle" /\ \A u \in Threads \ {t} : th'[u] = th[u]
  BY <1>0, <1>1, DoneFacts
<1>3. Moves(t, k)
  BY <1>2, Zenon DEF Moves
<1>4. DbTyped' /\ DOMAIN db' = DOMAIN db \ {k} /\ \A j \in DOMAIN db \ {k} : db'[j] = db[j]
  BY <1>0, <1>1, DropFacts, Zenon
<1>5. Local(t, k) => Resting(k)'
  <2>1. Local(t, k) => k \notin Queued(q)
    BY <1>0 DEF Local
  <2> QED BY <1>0, <1>4, <2>1, Zenon DEF Resting
<1>6. k \notin DOMAIN db' /\ DbKept(k)
  BY <1>4, Zenon DEF DbKept
<1>7. Basic' /\ QueuesKept(k)
  BY <1>0, <1>1, <1>2, <1>4, SameQueues, Zenon DEF Basic
<1> QED BY <1>0, <1>1, <1>2, <1>3, <1>5, <1>6, <1>7, Finish, Zenon

LEMMA HsetDropExpiredStep ==
    ASSUME IInv, NEW t \in Threads, NEW k, k = th[t].key, HsetDropExpired(t)
    PROVE  IInv'
<1>0. /\ th[t].pc = "hset" /\ k \in DOMAIN db /\ UNCHANGED <<th, overflowed, loose, tainted>> /\ Drop(k)
      /\ q' = RemoveByType(q, k, db[k].type)
  BY Zenon DEF HsetDropExpired, At
<1>1. k \in Keys /\ Works(t, k) /\ ThTyped /\ DbTyped /\ InOrder(q)
  BY <1>0, Working DEF IInv, Basic
<1>2. ThTyped' /\ Moves(t, k)
  BY <1>0, <1>1, Zenon DEF ThTyped, Moves
<1>3. /\ InOrder(q')
      /\ db[k].type = "Small" => q'.smallSet = q.smallSet \ {k} /\ q'.mainSet = q.mainSet
      /\ db[k].type # "Small" => q'.mainSet = q.mainSet \ {k} /\ q'.smallSet = q.smallSet
  <2> DEFINE r == RemoveByType(q, k, db[k].type)
  <2>1. /\ InOrder(r)
        /\ db[k].type = "Small" => r.smallSet = q.smallSet \ {k} /\ r.mainSet = q.mainSet
        /\ db[k].type # "Small" => r.mainSet = q.mainSet \ {k} /\ r.smallSet = q.smallSet
    BY <1>1, RemoveByTypeFacts
  <2>2. q' = r
    BY <1>0
  <2> QED
    BY <2>1, <2>2, Zenon
<1>4. DbTyped' /\ DOMAIN db' = DOMAIN db \ {k} /\ \A j \in DOMAIN db \ {k} : db'[j] = db[j]
  BY <1>0, <1>1, DropFacts, Zenon
<1>5. Local(t, k) => Local(t, k)'
  <2>1. Local(t, k) => TrueType(k, db[k].type)
    BY <1>0, Zenon DEF Local, Resting
  <2>2. TrueType(k, db[k].type) => k \notin Queued(q')
    BY <1>3 DEF TrueType, Queued
  <2>3. k \notin Queued(q') => Resting(k)'
    BY <1>4, Zenon DEF Resting
  <2> QED BY <1>0, <2>1, <2>2, <2>3, Zenon DEF Local
<1>6. k \notin DOMAIN db' /\ DbKept(k) /\ th'[t].pc # "idle"
  BY <1>0, <1>4 DEF DbKept
<1>7. QueuesKept(k)
  BY <1>0, <1>3, Zenon DEF QueuesKept, Queued
<1>8. Basic'
  BY <1>2, <1>3, <1>4, Zenon DEF Basic
<1> QED BY <1>0, <1>1, <1>2, <1>5, <1>6, <1>7, <1>8, Finish, Zenon

LEMMA HsetEntryStep ==
    ASSUME IInv, NEW t \in Threads, NEW k, k = th[t].key, HsetEntry(t)
    PROVE  IInv'
<1>0. th[t].pc = "hset" /\ Done(t) /\ UNCHANGED tainted
  BY Zenon DEF HsetEntry, At
<1>1. k \in Keys /\ Works(t, k) /\ ThTyped /\ DbTyped /\ InOrder(q)
  BY <1>0, Working DEF IInv, Basic
<1>2. ThTyped' /\ th'[t].pc = "idle" /\ \A u \in Threads \ {t} : th'[u] = th[u]
  BY <1>0, <1>1, DoneFacts
<1>3. Moves(t, k)
  BY <1>2, Zenon DEF Moves
<1>4. Local(t, k) => Resting(k)
  BY <1>0 DEF Local
<1>5. CASE k \in DOMAIN db
  <2>1. UNCHANGED <<db, q, overflowed, loose>>
    BY <1>5, Zenon DEF HsetEntry
  <2>2. Resting(k) => Resting(k)'
    BY <2>1, Zenon DEF Resting, TrueType
  <2>3. Explained(k)' \/ Pending(k)'
    BY <1>0, <1>2, <1>5, <2>1, SameQueues, OwnExplained
  <2>4. Basic' /\ DbKept(k) /\ QueuesKept(k)
    BY <1>1, <1>2, <2>1, SameDb, SameQueues, Zenon DEF Basic
  <2> QED BY <1>0, <1>1, <1>2, <1>3, <1>4, <2>1, <2>2, <2>3, <2>4, Finish, Zenon
<1>6. CASE k \notin DOMAIN db
  <2> DEFINE y == PlacedType(q, k)
  <2>1. q' = Placed(q, k) /\ Put(k, y) /\ Overflow(k)
    BY <1>6, Zenon DEF HsetEntry
  <2>2. y \in Types
    BY DEF PlacedType, Types
  <2>3. /\ InOrder(q') /\ k \in Queued(q')
        /\ y = "Main" => q'.smallSet = q.smallSet /\ q'.mainSet \subseteq q.mainSet \cup {k}
        /\ y = "Small" => q'.mainSet = q.mainSet /\ q'.smallSet \subseteq q.smallSet \cup {k}
    BY <1>1, <2>1, PlacedFacts DEF PlacedType
  <2> HIDE DEF y
  <2>4. /\ DbTyped' /\ DOMAIN db' = DOMAIN db \cup {k} /\ db'[k].type = y
        /\ \A j \in DOMAIN db \ {k} : db'[j] = db[j]
    BY <1>1, <2>1, <2>2, PutFacts
  <2>5. Resting(k) => Resting(k)'
    <3>1. Resting(k) => k \notin Queued(q)
      BY <1>6, Zenon DEF Resting
    <3>2. k \notin Queued(q) => IF y = "Small" THEN k \notin q'.mainSet ELSE k \notin q'.smallSet
      BY <2>2, <2>3 DEF Queued, Types
    <3> QED BY <2>4, <3>1, <3>2, Zenon DEF Resting, TrueType
  <2>6. Explained(k)' /\ loose \subseteq loose' \cup {k}
    BY <2>1, <2>3, Zenon DEF Explained, Put
  <2>7. QueuesKept(k)
    BY <2>1, <2>2, <2>3 DEF QueuesKept, Types
  <2>8. Basic' /\ DbKept(k)
    BY <1>2, <2>3, <2>4, Zenon DEF Basic, DbKept
  <2> QED BY <1>0, <1>1, <1>2, <1>3, <1>4, <2>5, <2>6, <2>7, <2>8, Finish, Zenon
<1> QED BY <1>5, <1>6

LEMMA EvictPopStep == ASSUME IInv, NEW t \in Threads, EvictPop(t) PROVE IInv'
<1>0. th[t].pc = "idle" /\ UNCHANGED <<db, overflowed, loose>> /\ ThTyped /\ DbTyped /\ InOrder(q)
  BY Zenon DEF EvictPop, At, IInv, Basic
<1>1. PICK k \in Keys :
        /\ \/ q.small # <<>> /\ k = Head(q.small)
              /\ q' = AddToGhost([q EXCEPT !.small = Tail(@), !.smallSet = @ \ {k}], k)
           \/ q.small = <<>> /\ q.main # <<>> /\ k = Head(q.main)
              /\ q' = [q EXCEPT !.main = Tail(@), !.mainSet = @ \ {k}]
        /\ th' = [th EXCEPT ![t] = [pc |-> "remove", key |-> k, type |-> "Small"]]
        /\ Taint(k)
  BY Zenon DEF EvictPop
<1>2. ThTyped' /\ th'[t].pc = "remove" /\ th'[t].key = k /\ \A u \in Threads \ {t} : th'[u] = th[u]
  <2>1. "remove" \in Pcs
    BY DEF Pcs
  <2> QED BY <1>0, <1>1, <2>1, FreshFacts, Zenon
<1>3. Moves(t, k)
  BY <1>0, <1>2, Zenon DEF Moves
<1>4. /\ InOrder(q')
      /\ \/ k \in q.smallSet /\ q'.smallSet = q.smallSet \ {k} /\ q'.mainSet = q.mainSet
         \/ k \in q.mainSet /\ q.smallSet = {} /\ q'.mainSet = q.mainSet \ {k} /\ q'.smallSet = q.smallSet
  <2>1. CASE q.small # <<>> /\ q' = FromSmall(q) /\ k = Head(q.small)
    BY <1>0, <2>1, FromSmallFacts, Zenon
  <2>2. CASE q.small = <<>> /\ q.main # <<>> /\ q' = FromMain(q) /\ k = Head(q.main)
    <3>1. q.smallSet = {}
      BY <1>0, <2>2, EmptyElements, Zenon DEF InOrder, Exact
    <3> QED BY <1>0, <2>2, <3>1, FromMainFacts, Zenon
  <2> QED BY <1>1, <2>1, <2>2, Zenon DEF FromSmall, FromMain
<1>5. Resting(k) => Local(t, k)'
  <2>1. Resting(k) => k \notin Queued(q')
    BY <1>4 DEF Resting, TrueType, Queued
  <2> QED BY <1>2, <2>1 DEF Local
<1>6. k \in tainted' \/ Truthful(k)'
  <2>1. th'[t].pc # "idle"
    BY <1>2
  <2> QED BY <1>1, <1>2, <1>5, <2>1, FreshTruthful, Zenon
<1>7. Pending(k)'
  BY <1>2 DEF Pending
<1>8. QueuesKept(k)
  BY <1>0, <1>4 DEF QueuesKept, Queued
<1>9. OthersKept(k) /\ ThreadsKept(k)
  <2>1. tainted \subseteq tainted'
    BY <1>1, Zenon DEF Taint
  <2> QED BY <1>0, <1>3, <1>8, <2>1, SameDb, FrameFacts, MovesKeeps, Zenon
<1>10. Basic'
  BY <1>0, <1>2, <1>4, SameDb, Zenon DEF Basic
<1> QED BY <1>6, <1>7, <1>9, <1>10, Conclude, Zenon

LEMMA BeginStep ==
    ASSUME IInv, NEW t \in Threads, NEW op \in Operations, NEW k \in Keys, Begin(t, op, k)
    PROVE  IInv'
<1>0. /\ th[t].pc = "idle" /\ UNCHANGED <<db, q, overflowed, loose>> /\ Taint(k)
      /\ th' = [th EXCEPT ![t] = [pc |-> op, key |-> k, type |-> "Small"]]
  BY Zenon DEF Begin, At
<1>1. ThTyped /\ DbTyped /\ InOrder(q)
  BY Zenon DEF IInv, Basic
<1>2. op \in Pcs /\ op \in {"read_set", "get", "read_del", "hset"}
  BY DEF Operations, Pcs
<1>3. ThTyped' /\ th'[t].pc = op /\ th'[t].key = k /\ \A u \in Threads \ {t} : th'[u] = th[u]
  BY <1>0, <1>1, <1>2, FreshFacts, Zenon
<1>4. Moves(t, k)
  BY <1>0, <1>3, Zenon DEF Moves
<1>5. Resting(k) => Local(t, k)'
  <2>1. Resting(k)' <=> Resting(k)
    BY <1>0, Zenon DEF Resting, TrueType
  <2> QED BY <1>2, <1>3, <2>1 DEF Local
<1>6. k \in tainted' \/ Truthful(k)'
  <2>1. th'[t].pc # "idle"
    BY <1>2, <1>3
  <2> QED BY <1>0, <1>3, <1>5, <2>1, FreshTruthful, Zenon
<1>7. k \in DOMAIN db' => Explained(k)' \/ Pending(k)'
  BY <1>0, <1>3, SameQueues, OwnExplained
<1>8. OthersKept(k) /\ ThreadsKept(k)
  <2>1. tainted \subseteq tainted'
    BY <1>0, Zenon DEF Taint
  <2> QED BY <1>0, <1>4, <2>1, SameDb, SameQueues, FrameFacts, MovesKeeps, Zenon
<1>9. Basic'
  BY <1>0, <1>1, <1>3, SameDb, SameQueues, Zenon DEF Basic
<1> QED BY <1>6, <1>7, <1>8, <1>9, Conclude, Zenon

LEMMA ExpireStep == ASSUME IInv, NEW k \in Keys, Expire(k) PROVE IInv'
<1>0. Drop(k) /\ tainted' = tainted \cup {k} /\ UNCHANGED <<q, th, overflowed, loose>>
  BY Zenon DEF Expire
<1>1. ThTyped /\ DbTyped /\ InOrder(q)
  BY Zenon DEF IInv, Basic
<1>2. DbTyped' /\ DOMAIN db' = DOMAIN db \ {k} /\ \A j \in DOMAIN db \ {k} : db'[j] = db[j]
  BY <1>0, <1>1, DropFacts
<1>3. k \in tainted' /\ k \notin DOMAIN db' /\ DbKept(k) /\ tainted \subseteq tainted'
  BY <1>0, <1>2, Zenon DEF DbKept
<1>4. ThreadsKept(k)
  BY <1>0, Zenon DEF ThreadsKept, Works, Pending
<1>5. OthersKept(k)
  BY <1>0, <1>3, SameQueues, FrameFacts, Zenon
<1>6. Basic'
  BY <1>0, <1>1, <1>2, Zenon DEF Basic, ThTyped
<1> QED BY <1>3, <1>4, <1>5, <1>6, Conclude, Zenon

LEMMA InitInvariant == Init => IInv
<1> SUFFICES ASSUME Init PROVE IInv
  OBVIOUS
<1>1. PICK L \in SUBSET Keys : db = [k \in L |-> [type |-> "Small", count |-> 0]] /\ loose = L
  BY Zenon DEF Init
<1> DEFINE e == [type |-> "Small", count |-> 0]
<1>2. e \in [type: Types, count: 0..2]
  BY DEF Types
<1>3. DbTyped /\ DOMAIN db = L
  BY <1>1, <1>2, Zenon DEF DbTyped
<1>4. ThTyped /\ \A t \in Threads : th[t].pc = "idle"
  BY DEF Init, Idle, ThTyped, Pcs, Types
<1>5. InOrder(q) /\ Queued(q) = {}
  <2>1. /\ q.small = <<>> /\ q.main = <<>> /\ q.ghost = <<>>
        /\ q.smallSet = {} /\ q.mainSet = {} /\ q.ghostSet = {}
    BY DEF Init
  <2>2. <<>> \in Seq(Keys) /\ Len(<<>>) = 0
    BY EmptySeq
  <2>3. q \in Queues
    BY <2>2 DEF Init, Queues
  <2>4. 0 <= SmallCapacity /\ 0 <= MainCapacity /\ 0 <= GhostCapacity
    BY CapacityAssumption
  <2>5. Exact(<<>>, {}, SmallCapacity) /\ Exact(<<>>, {}, MainCapacity) /\ Exact(<<>>, {}, GhostCapacity)
    BY <2>2, <2>4, EmptyElements, Zenon DEF Exact
  <2> QED BY <2>1, <2>3, <2>5 DEF InOrder, Queued
<1>6. ASSUME NEW k \in Keys PROVE Truthful(k)
  <2>1. \A t \in Threads : ~Works(t, k)
    BY <1>4, Zenon DEF Works
  <2>2. Resting(k)
    BY <1>5 DEF Resting, TrueType, Queued
  <2> QED BY <2>1, <2>2, Zenon DEF Truthful
<1>7. \A k \in DOMAIN db : Explained(k)
  BY <1>1, <1>3, Zenon DEF Explained
<1> QED BY <1>3, <1>4, <1>5, <1>6, <1>7, Zenon DEF IInv, Basic

LEMMA StutterStep == IInv /\ UNCHANGED vars => IInv'
<1> SUFFICES ASSUME IInv, UNCHANGED vars PROVE IInv'
  OBVIOUS
<1>1. UNCHANGED <<db, q, th, overflowed, loose, tainted>>
  BY Zenon DEF vars
<1>2. Basic'
  BY <1>1, Zenon DEF IInv, Basic, ThTyped, DbTyped
<1>3. \A k : Truthful(k)' <=> Truthful(k)
  <2>1. \A k : Resting(k)' <=> Resting(k)
    BY <1>1, Zenon DEF Resting, TrueType
  <2>2. \A k, y : TrueType(k, y)' <=> TrueType(k, y)
    BY <1>1, Zenon DEF TrueType
  <2>3. ASSUME NEW t, NEW k PROVE (Local(t, k)' <=> Local(t, k)) /\ (Works(t, k)' <=> Works(t, k))
    BY <1>1, <2>1, <2>2 DEF Local, Works
  <2> QED BY <2>1, <2>3, Zenon DEF Truthful
<1>4. \A k : (Explained(k)' <=> Explained(k)) /\ (Pending(k)' <=> Pending(k))
  BY <1>1, Zenon DEF Explained, Pending
<1> QED BY <1>1, <1>2, <1>3, <1>4, Zenon DEF IInv

LEMMA NextStep == IInv /\ [Next]_vars => IInv'
<1> SUFFICES ASSUME IInv, [Next]_vars PROVE IInv'
  OBVIOUS
<1>1. ASSUME NEW t \in Threads, Step(t) PROVE IInv'
  <2>1. PICK k : k = th[t].key
    BY Zenon
  <2>2. CASE SetRead(t) \/ SetUnqueue(t) \/ SetPlace(t) \/ SetInsert(t)
    BY <2>1, <2>2, LookStep, UnqueueStep, SetPlaceStep, SetInsertStep, Zenon
  <2>3. CASE GetRead(t) \/ GetPromote(t) \/ GetRetype(t) \/ GetReinsert(t)
    BY <2>1, <2>3, GetReadStep, GetPromoteStep, GetRetypeStep, GetReinsertStep, Zenon
  <2>4. CASE DelRead(t) \/ DelUnqueue(t) \/ RemoveEntry(t)
    BY <2>1, <2>4, LookStep, UnqueueStep, RemoveEntryStep, Zenon
  <2>5. CASE HsetDropExpired(t) \/ HsetEntry(t) \/ EvictPop(t)
    BY <2>1, <2>5, HsetDropExpiredStep, HsetEntryStep, EvictPopStep, Zenon
  <2> QED BY <1>1, <2>2, <2>3, <2>4, <2>5, Zenon DEF Step
<1> QED BY <1>1, BeginStep, ExpireStep, StutterStep, Zenon DEF Next

LEMMA Invariance == Spec => []IInv
  BY InitInvariant, NextStep, PTL DEF Spec

----------------------------------------------------------------------------
(* The theorems. *)

\* S3FifoQueues: whatever threads interleave and whatever the capacities, the membership
\* sets and the queues agree, no key is twice in a queue, no queue outgrows its capacity,
\* and no key is in the small and the ghost queue at once.
THEOREM QueuesAreExact == Spec => []QueuesExact
<1>1. IInv => QueuesExact
  BY Zenon DEF IInv, Basic, InOrder, Exact, QueuesExact
<1> QED BY <1>1, Invariance, PTL

\* evict_s3fifo finds every entry that no operation is working on, but for those a newer key
\* pushed out of a full queue and those that were in no queue when they entered the map.
THEOREM EntriesAreEvictable == Spec => []EvictableUnlessExplained
<1>1. IInv => EvictableUnlessExplained
  BY Zenon DEF IInv, EvictableUnlessExplained, Explained, Pending, Busy
<1> QED BY <1>1, Invariance, PTL

\* The queue_type of an entry is true as long as the operations on its key follow one
\* another and it does not expire: SET and DEL, which trust it, leave no second place behind.
THEOREM TypesAreTruthful == Spec => []TypeTruthful
<1>1. ASSUME IInv, NEW k \in DOMAIN db \ tainted, ~Busy(k)
      PROVE  IF db[k].type = "Small" THEN k \notin q.mainSet ELSE k \notin q.smallSet
  <2>1. k \in Keys
    BY <1>1, Zenon DEF IInv, Basic, DbTyped
  <2>2. \A t \in Threads : ~Works(t, k)
    BY <1>1, Zenon DEF Busy, Works
  <2>3. Resting(k)
    BY <1>1, <2>1, <2>2, Zenon DEF IInv, Truthful
  <2> QED BY <1>1, <2>3, Zenon DEF Resting, TrueType
<1>2. IInv => TypeTruthful
  BY <1>1, Zenon DEF TypeTruthful
<1> QED BY <1>2, Invariance, PTL
=============================================================================
