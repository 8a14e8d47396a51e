---------------------------- MODULE Resp_proofs -----------------------------
(***************************************************************************)
(* Proofs about commands and numbers as bytes, for bytes of any length:     *)
(* parse_i64 and write_u64, the parser of a connection however its bytes    *)
(* arrive, and the reader of the log wherever it was cut.                   *)
(***************************************************************************)
EXTENDS Numeral, Resp, LogFile, SequenceTheorems, WellFoundedInduction, TLAPS

LEMMA LeastNat ==
    ASSUME NEW T \in SUBSET Nat, T # {}
    PROVE  \E x \in T : \A y \in T : x <= y
<1>1. PICK x \in T : \A y \in T : ~(<<y, x>> \in OpToRel(<, Nat))
  BY WFMin, NatLessThanWellFounded, Zenon
<1>2. \A y \in T : ~(y < x)
  BY <1>1, Zenon DEF OpToRel
<1> QED BY <1>2

LEMMA DivMod ==
    ASSUME NEW c \in Nat, NEW b \in Nat, b > 0
    PROVE  c \div b \in Nat /\ c % b \in 0..b - 1 /\ (c \div b) * b + (c % b) = c
<1>1. c % b \in 0..b - 1
  OBVIOUS
<1>2. (c \div b) * b + (c % b) = c
  OBVIOUS
<1>3. c \div b \in Nat
  OBVIOUS
<1> QED BY <1>1, <1>2, <1>3

----------------------------------------------------------------------------
(* Recursive functions on 0..n: there is one, and two that meet stay together. *)

Steps(f, S, e, N, F) == f \in [0..N -> S] /\ f[0] = e /\ \A i \in 1..N : f[i] = F[<<f[i - 1], i>>]

LEMMA Recursion ==
    ASSUME NEW S, NEW e \in S, NEW N \in Nat, NEW F \in [S \X (1..N) -> S]
    PROVE  \E f : Steps(f, S, e, N, F)
<1> DEFINE Upto(n) == \E f : Steps(f, S, e, n, F)
           T == {n \in Nat : n <= N /\ ~Upto(n)}
<1> SUFFICES ASSUME T # {} PROVE FALSE
  <2>1. N \notin T => Upto(N)
    OBVIOUS
  <2> QED BY <2>1, Zenon
<1>1. PICK n \in T : \A m \in T : n <= m
  BY LeastNat, Zenon
<1>2. CASE n = 0
  <2> DEFINE f == [i \in 0..0 |-> e]
  <2>1. f \in [0..0 -> S] /\ f[0] = e /\ \A i \in 1..0 : f[i] = F[<<f[i - 1], i>>]
    OBVIOUS
  <2>2. Upto(0)
    BY <2>1, Zenon DEF Steps
  <2> QED BY <1>1, <1>2, <2>2, Zenon
<1>3. CASE n # 0
  <2>1. n - 1 \in Nat /\ ~(n <= n - 1) /\ n - 1 <= N /\ n \in 1..N /\ n - 1 \in 0..n - 1 /\ n \notin 0..n - 1
    BY <1>1, <1>3
  <2>2. Upto(n - 1)
    BY <1>1, <2>1, Zenon
  <2>3. PICK g \in [0..n - 1 -> S] : g[0] = e /\ \A i \in 1..n - 1 : g[i] = F[<<g[i - 1], i>>]
    BY <2>2, Zenon DEF Steps
  <2> DEFINE last == F[<<g[n - 1], n>>]
             f == [i \in 0..n |-> IF i = n THEN last ELSE g[i]]
  <2>4. g[n - 1] \in S
    BY <2>1, <2>3, Zenon
  <2>5. last \in S
    BY <2>1, <2>4, Zenon
  <2>6. \A i \in 0..n : i = n \/ i \in 0..n - 1
    BY <2>1
  <2>7. f \in [0..n -> S]
    BY <2>3, <2>5, <2>6, Zenon
  <2>8. n \in 0..n /\ 0 \in 0..n /\ n # 0 /\ \A i \in 1..n : i \in 0..n /\ i - 1 \in 0..n /\ i - 1 # n /\ (i # n => i \in 1..n - 1)
    BY <2>1, <1>3
  <2>9. f[n] = last /\ f[0] = e /\ \A i \in 0..n : i # n => f[i] = g[i]
    BY <2>3, <2>8, Zenon
  <2> HIDE DEF f
  <2>10. ASSUME NEW i \in 1..n PROVE f[i] = F[<<f[i - 1], i>>]
    <3>1. CASE i = n
      BY <2>8, <2>9, <3>1, Zenon
    <3>2. CASE i # n
      BY <2>3, <2>8, <2>9, <3>2, Zenon
    <3> QED BY <3>1, <3>2
  <2>11. Upto(n)
    BY <2>7, <2>9, <2>10, Zenon DEF Steps
  <2> QED BY <1>1, <2>11, Zenon
<1> QED BY <1>2, <1>3

Alike(f, g, a, n) == \A i \in a..n : f[i] = g[i]
GoOnAlike(f, g, a, n) == \A i \in a + 1..n : f[i - 1] = g[i - 1] => f[i] = g[i]

\* Two functions that agree at a and go on in the same way agree up to n.
LEMMA StayTogether ==
    ASSUME NEW f, NEW g, NEW a \in Nat, NEW n \in Nat, f[a] = g[a], GoOnAlike(f, g, a, n)
    PROVE  Alike(f, g, a, n)
<1> DEFINE T == {i \in Nat : i \in a..n /\ f[i] # g[i]}
<1>0. a..n \subseteq Nat
  OBVIOUS
<1> SUFFICES ASSUME T # {} PROVE FALSE
  BY <1>0, Zenon DEF Alike
<1>1. PICK i \in T : \A j \in T : i <= j
  BY LeastNat, Zenon
<1>2. i # a
  BY <1>1, Zenon
<1>3. i \in a + 1..n /\ i - 1 \in a..n /\ i - 1 \in Nat /\ ~(i <= i - 1)
  BY <1>1, <1>2
<1>4. f[i - 1] = g[i - 1]
  BY <1>1, <1>3, Zenon
<1> QED BY <1>1, <1>3, <1>4, Zenon DEF GoOnAlike

----------------------------------------------------------------------------
(* Numerals *)

Bytes == 0..255

LEMMA BytesInt == Bytes \subseteq Int
BY DEF Bytes

\* The value of a prefix from the value x of the one that is a byte shorter.
NextValue(b, s, v, i, x) == IF i <= s THEN v ELSE x * 10 + Digit(b[i])

ArePrefixes(m, b, s, v) ==
    /\ m[0] = v
    /\ \A i \in 0..Len(b) : m[i] \in Int
    /\ \A i \in 1..Len(b) : m[i] = NextValue(b, s, v, i, m[i - 1])

LEMMA PrefixesDef ==
    ASSUME NEW b \in Seq(Bytes), NEW s \in Nat, NEW v \in Int
    PROVE  ArePrefixes(Prefixes(b, s, v), b, s, v)
<1> DEFINE n == Len(b)
           F == [p \in Int \X (1..n) |-> NextValue(b, s, v, p[2], p[1])]
           Is(f) == f = [i \in 0..n |-> NextValue(b, s, v, i, f[i - 1])]
<1>0. n \in Nat /\ \A i \in 1..n : b[i] \in Bytes
  BY LenProperties, ElementOfSeq
<1>1. n \in Nat /\ \A i \in 1..n : b[i] \in Int
  BY <1>0, BytesInt, Zenon
<1>2. F \in [Int \X (1..n) -> Int]
  <2>1. ASSUME NEW p \in Int \X (1..n) PROVE NextValue(b, s, v, p[2], p[1]) \in Int
    <3>1. p[1] \in Int /\ p[2] \in 1..n
      OBVIOUS
    <3>2. b[p[2]] \in Int
      BY <1>1, <3>1, Zenon
    <3> QED BY <3>1, <3>2 DEF Digit, NextValue
  <2> QED BY <2>1, Zenon
<1>3. \A x \in Int : \A i \in 1..n : F[<<x, i>>] = NextValue(b, s, v, i, x)
  <2>1. \A x \in Int : \A i \in 1..n : <<x, i>> \in Int \X (1..n) /\ <<x, i>>[1] = x /\ <<x, i>>[2] = i
    OBVIOUS
  <2> QED BY <2>1, Zenon
<1> HIDE DEF F
<1>4. PICK f : Steps(f, Int, v, n, F)
  BY <1>1, <1>2, Recursion, Zenon
<1>5. f \in [0..n -> Int] /\ f[0] = v /\ \A i \in 1..n : f[i] = F[<<f[i - 1], i>>]
  BY <1>4, Zenon DEF Steps
<1>6. 0 \in Nat /\ 0 <= s /\ 0 \in 0..n /\ (\A i \in 0..n : i # 0 => i \in 1..n /\ i - 1 \in 0..n)
  BY <1>1
<1>6a. NextValue(b, s, v, 0, f[0 - 1]) = v
  BY <1>6, Zenon DEF NextValue
<1>7. \A i \in 0..n : f[i] = NextValue(b, s, v, i, f[i - 1])
  BY <1>3, <1>5, <1>6, <1>6a, Zenon
<1>8. Is(f)
  BY <1>5, <1>7, Zenon
<1> DEFINE g == CHOOSE h : Is(h)
<1>9. Is(g)
  BY <1>8, Zenon
<1>10. Prefixes(b, s, v) = g
  BY Zenon DEF Prefixes, NextValue
<1> HIDE DEF g
<1>11. \A i \in 0..n : g[i] = NextValue(b, s, v, i, g[i - 1])
  BY <1>9, Zenon
<1>11a. g[0] = v
  BY <1>6, <1>11, Zenon DEF NextValue
<1>12. \A i \in 1..n : i \in 0..n
  BY <1>1
<1>13. g[0] = f[0] /\ GoOnAlike(g, f, 0, n)
  <2>1. ASSUME NEW i \in 1..n, g[i - 1] = f[i - 1] PROVE g[i] = f[i]
    BY <1>7, <1>11, <1>12, <2>1, Zenon
  <2>2. 0 + 1 = 1
    OBVIOUS
  <2>3. GoOnAlike(g, f, 0, n)
    BY <2>1, <2>2, Zenon DEF GoOnAlike
  <2> QED BY <1>5, <1>11a, <2>3, Zenon
<1>14. \A i \in 0..n : g[i] = f[i]
  <2>1. 0 \in Nat /\ n \in Nat /\ g[0] = f[0] /\ GoOnAlike(g, f, 0, n)
    BY <1>1, <1>6, <1>13
  <2>2. Alike(g, f, 0, n)
    BY <2>1, StayTogether, Zenon
  <2> QED BY <2>2, Zenon DEF Alike
<1>15. g[0] = v /\ (\A i \in 0..n : g[i] \in Int)
  BY <1>5, <1>6, <1>13, <1>14, Zenon
<1> QED BY <1>10, <1>11, <1>12, <1>15, Zenon DEF ArePrefixes

LEMMA InFront ==
    ASSUME NEW c \in Bytes, NEW b \in Seq(Bytes)
    PROVE  LET a == <<c>> \o b
           IN /\ a \in Seq(Bytes) /\ Len(b) \in Nat /\ Len(a) = Len(b) + 1 /\ a[1] = c
              /\ \A i \in 1..Len(b) : a[i + 1] = b[i]
<1> DEFINE a == <<c>> \o b
<1>1. <<c>> \in Seq(Bytes) /\ Len(<<c>>) = 1 /\ <<c>>[1] = c /\ Len(b) \in Nat
  BY LenProperties
<1>2. a \in Seq(Bytes) /\ Len(a) = 1 + Len(b) /\ \A i \in 1..1 + Len(b) : a[i] = IF i <= 1 THEN <<c>>[i] ELSE b[i - 1]
  BY <1>1, ConcatProperties
<1> HIDE DEF a
<1>3. 1 \in 1..1 + Len(b) /\ \A i \in 1..Len(b) : i + 1 \in 1..1 + Len(b) /\ ~(i + 1 <= 1) /\ (i + 1) - 1 = i
  BY <1>1
<1>4. a[1] = c /\ \A i \in 1..Len(b) : a[i + 1] = b[i]
  <2>1. a[1] = IF 1 <= 1 THEN <<c>>[1] ELSE b[1 - 1]
    BY <1>2, <1>3, Zenon
  <2>2. a[1] = c
    BY <1>1, <2>1
  <2>3. ASSUME NEW i \in 1..Len(b) PROVE a[i + 1] = b[i]
    <3>1. a[i + 1] = IF i + 1 <= 1 THEN <<c>>[i + 1] ELSE b[(i + 1) - 1]
      BY <1>2, <1>3, Zenon
    <3> QED BY <1>3, <3>1, Zenon
  <2> QED BY <2>2, <2>3, Zenon
<1> QED BY <1>1, <1>2, <1>4 DEF a

\* A first byte that is skipped changes nothing.
LEMMA MeaningSkip ==
    ASSUME NEW c \in Bytes, NEW b \in Seq(Bytes), NEW v \in Int
    PROVE  Meaning(<<c>> \o b, 1, v) = Meaning(b, 0, v)
<1> DEFINE a == <<c>> \o b
           n == Len(b)
           m == Prefixes(a, 1, v)
           k == Prefixes(b, 0, v)
           g == [i \in 0..n |-> m[i + 1]]
<1>1. a \in Seq(Bytes) /\ n \in Nat /\ Len(a) = n + 1 /\ \A i \in 1..n : a[i + 1] = b[i]
  BY InFront
<1> HIDE DEF a
<1>p. 0 \in Nat /\ 1 \in Nat
  OBVIOUS
<1>q. ArePrefixes(m, a, 1, v) /\ ArePrefixes(k, b, 0, v)
  BY <1>1, <1>p, PrefixesDef, Zenon
<1> HIDE DEF m, k
<1>2. \A i \in 1..n + 1 : m[i] = NextValue(a, 1, v, i, m[i - 1])
  BY <1>1, <1>q, Zenon DEF ArePrefixes
<1>3. k[0] = v /\ \A i \in 1..n : k[i] = NextValue(b, 0, v, i, k[i - 1])
  BY <1>q, Zenon DEF ArePrefixes
<1> HIDE DEF m, k
<1>4. /\ 1 \in 1..n + 1 /\ 0 \in 0..n /\ n \in 0..n /\ 0 \in Nat /\ 0 + 1 = 1 /\ 1 <= 1
      /\ \A i \in 1..n : /\ i + 1 \in 1..n + 1 /\ ~(i + 1 <= 1) /\ (i + 1) - 1 = i /\ ~(i <= 0)
                         /\ i \in 0..n /\ i - 1 \in 0..n /\ (i - 1) + 1 = i
  BY <1>1
<1>5. \A i \in 0..n : g[i] = m[i + 1]
  BY Zenon
<1> HIDE DEF g
<1>6. g[0] = k[0]
  <2>1. g[0] = m[1] /\ m[1] = NextValue(a, 1, v, 1, m[1 - 1])
    BY <1>2, <1>4, <1>5, Zenon
  <2> QED BY <1>3, <1>4, <2>1, Zenon DEF NextValue
<1>7. ASSUME NEW i \in 1..n, g[i - 1] = k[i - 1] PROVE g[i] = k[i]
  <2>1. g[i] = m[i + 1] /\ g[i - 1] = m[i]
    BY <1>4, <1>5, Zenon
  <2>2. m[i + 1] = m[i] * 10 + Digit(b[i])
    BY <1>1, <1>2, <1>4, Zenon DEF NextValue
  <2>3. k[i] = k[i - 1] * 10 + Digit(b[i])
    BY <1>3, <1>4, Zenon DEF NextValue
  <2> QED BY <1>7, <2>1, <2>2, <2>3, Zenon
<1>8. GoOnAlike(g, k, 0, n)
  BY <1>4, <1>7, Zenon DEF GoOnAlike
<1>9. \A i \in 0..n : g[i] = k[i]
  <2>1. 0 \in Nat /\ n \in Nat /\ g[0] = k[0] /\ GoOnAlike(g, k, 0, n)
    BY <1>1, <1>4, <1>6, <1>8
  <2>2. Alike(g, k, 0, n)
    BY <2>1, StayTogether, Zenon
  <2> QED BY <2>2, Zenon DEF Alike
<1>10. m[n + 1] = k[n]
  BY <1>4, <1>5, <1>9, Zenon
<1> QED BY <1>1, <1>10, Zenon DEF Meaning, m, k, a

\* A first digit joins what stands in front.
LEMMA MeaningJoin ==
    ASSUME NEW c \in Bytes, NEW b \in Seq(Bytes), NEW v \in Int
    PROVE  Meaning(<<c>> \o b, 0, v) = Meaning(b, 0, v * 10 + Digit(c))
<1> DEFINE a == <<c>> \o b
           n == Len(b)
           w == v * 10 + Digit(c)
           m == Prefixes(a, 0, v)
           k == Prefixes(a, 1, w)
<1>1. a \in Seq(Bytes) /\ n \in Nat /\ Len(a) = n + 1 /\ a[1] = c
  BY InFront
<1>2. w \in Int
  BY DEF Digit, Bytes
<1> HIDE DEF a, w
<1>p. 0 \in Nat /\ 1 \in Nat
  OBVIOUS
<1>q. ArePrefixes(m, a, 0, v) /\ ArePrefixes(k, a, 1, w)
  BY <1>1, <1>2, <1>p, PrefixesDef, Zenon
<1> HIDE DEF m, k
<1>3. m[0] = v /\ \A i \in 1..n + 1 : m[i] = NextValue(a, 0, v, i, m[i - 1])
  BY <1>1, <1>q, Zenon DEF ArePrefixes
<1>4. \A i \in 1..n + 1 : k[i] = NextValue(a, 1, w, i, k[i - 1])
  BY <1>1, <1>q, Zenon DEF ArePrefixes
<1>5. /\ 1 \in 1..n + 1 /\ n + 1 \in 1..n + 1 /\ 1 \in Nat /\ n + 1 \in Nat /\ 1 <= 1 /\ ~(1 <= 0) /\ 1 - 1 = 0
      /\ \A i \in 1 + 1..n + 1 : i \in 1..n + 1 /\ ~(i <= 1) /\ ~(i <= 0)
  BY <1>1
<1>6. m[1] = k[1]
  <2>1. m[1] = m[0] * 10 + Digit(a[1])
    BY <1>3, <1>5, Zenon DEF NextValue
  <2>2. k[1] = w
    BY <1>4, <1>5, Zenon DEF NextValue
  <2> QED BY <1>1, <1>3, <2>1, <2>2, Zenon DEF w
<1>7. GoOnAlike(m, k, 1, n + 1)
  <2>1. ASSUME NEW i \in 1 + 1..n + 1, m[i - 1] = k[i - 1] PROVE m[i] = k[i]
    <3>1. m[i] = m[i - 1] * 10 + Digit(a[i]) /\ k[i] = k[i - 1] * 10 + Digit(a[i])
      BY <1>3, <1>4, <1>5, Zenon DEF NextValue
    <3> QED BY <2>1, <3>1, Zenon
  <2> QED BY <2>1, Zenon DEF GoOnAlike
<1>8. \A i \in 1..n + 1 : m[i] = k[i]
  <2>1. PICK f, g, l : f = m /\ g = k /\ l = n + 1
    BY Zenon
  <2>2. f[1] = g[1] /\ GoOnAlike(f, g, 1, l) /\ 1 \in Nat /\ l \in Nat
    BY <1>5, <1>6, <1>7, <2>1, Zenon
  <2>3. \A i \in 1..l : f[i] = g[i]
    <3>1. 1 \in Nat /\ l \in Nat /\ f[1] = g[1] /\ GoOnAlike(f, g, 1, l)
      BY <2>2
    <3>2. Alike(f, g, 1, l)
      BY <3>1, StayTogether, Zenon
    <3> QED BY <3>2, Zenon DEF Alike
  <2> QED BY <2>1, <2>3, Zenon
<1>9. Meaning(a, 0, v) = Meaning(a, 1, w)
  BY <1>1, <1>5, <1>8, Zenon DEF Meaning, m, k
<1>10. Meaning(<<c>> \o b, 1, w) = Meaning(b, 0, w)
  BY <1>2, MeaningSkip
<1> QED BY <1>9, <1>10, Zenon DEF a, w

AllDigits(b) == \A i \in 1..Len(b) : b[i] \in Digits

LEMMA DigitsAreBytes ==
    /\ \A d \in Digits : d \in Bytes /\ Digit(d) \in 0..9 /\ d # MINUS
    /\ MINUS \in Bytes /\ 48 \in Digits
    /\ \A k \in 0..9 : 48 + k \in Digits /\ Digit(48 + k) = k
BY DEF Digits, Digit, Bytes, MINUS

LEMMA SignOf ==
    ASSUME NEW b \in Seq(Bytes)
    PROVE  Sign(b) \in {0, 1} /\ Sign(b) \in Nat /\ Sign(b) <= Len(b) /\ Len(b) \in Nat
<1>1. Len(b) \in Nat /\ (b # <<>> => Len(b) # 0)
  BY LenProperties, EmptySeq
<1> QED BY <1>1 DEF Sign

LEMMA TimesTen ==
    ASSUME NEW x \in Int, NEW d \in 0..9
    PROVE  /\ x \in Nat => x * 10 + d \in Nat
           /\ \A k \in Nat : x > k => x * 10 + d > k
OBVIOUS

\* Digits only make a number larger.
LEMMA PrefixesGrow ==
    ASSUME NEW b \in Seq(Bytes), NEW s \in Nat, NEW n \in s..Len(b), NEW i \in s..n, NEW k \in Nat,
           Prefixes(b, s, 0)[i] > k, \A j \in i + 1..n : b[j] \in Digits
    PROVE  Prefixes(b, s, 0)[n] > k
<1> DEFINE m == Prefixes(b, s, 0)
           T == {j \in Nat : j \in i..n /\ ~(m[j] > k)}
<1>0. n \in Nat /\ 0 \in Int /\ Len(b) \in Nat
  BY LenProperties
<1>1. ArePrefixes(m, b, s, 0)
  BY <1>0, PrefixesDef, Zenon
<1>2. n \in i..n /\ n \in Nat /\ i..n \subseteq Nat
  BY <1>0
<1> HIDE DEF m
<1> SUFFICES ASSUME T # {} PROVE FALSE
  <2>1. n \notin T => m[n] > k
    BY <1>2, Zenon
  <2> QED BY <2>1, Zenon DEF m
<1>3. PICK j \in T : \A l \in T : j <= l
  BY LeastNat, Zenon
<1>4. j # i
  BY <1>3, Zenon DEF m
<1>5. j \in i + 1..n /\ j \in 1..Len(b) /\ j - 1 \in i..n /\ j - 1 \in Nat /\ ~(j <= j - 1) /\ ~(j <= s) /\ j - 1 \in 0..Len(b)
  BY <1>0, <1>3, <1>4
<1>6. m[j - 1] > k /\ m[j - 1] \in Int
  BY <1>1, <1>3, <1>5, Zenon DEF ArePrefixes
<1>7. m[j] = m[j - 1] * 10 + Digit(b[j]) /\ Digit(b[j]) \in 0..9
  BY <1>1, <1>5, DigitsAreBytes, Zenon DEF ArePrefixes, NextValue
<1>8. m[j] > k
  BY <1>6, <1>7, TimesTen, Zenon
<1> QED BY <1>3, <1>8, Zenon

\* i bytes have been consumed, and v is what they mean.
Parsed(b, i, v) ==
    /\ Sign(b) < Len(b) /\ i \in Sign(b)..Len(b)
    /\ v = Prefixes(b, Sign(b), 0)[i] /\ v \in 0..I64Max
    /\ \A j \in Sign(b) + 1..i : b[j] \in Digits

Accepted(b, v) == WellFormed(b) /\ Magnitude(b) = v /\ v \in 0..I64Max
TooLarge(b) == WellFormed(b) => Magnitude(b) > I64Max

LEMMA ParsedNext ==
    ASSUME NEW b \in Seq(Bytes), NEW i, NEW v, Parsed(b, i, v), i < Len(b)
    PROVE  LET w == PushDigit(v, b[i + 1])
           IN /\ w = NotANumber => TooLarge(b)
              /\ w # NotANumber => Parsed(b, i + 1, w)
              /\ w \in Int
<1> DEFINE s == Sign(b)
           n == Len(b)
           m == Prefixes(b, s, 0)
           w == PushDigit(v, b[i + 1])
           x == v * 10 + Digit(b[i + 1])
<1>0. s \in Nat /\ n \in Nat /\ s < n /\ i \in s..n /\ v = m[i] /\ v \in 0..I64Max /\ I64Max \in Nat /\ 0 \in Int
  BY SignOf, NumeralAssumption DEF Parsed
<1>1. i \in Nat /\ i + 1 \in 1..n /\ i + 1 \in s..n /\ i + 1 \in s + 1..n /\ ~(i + 1 <= s) /\ (i + 1) - 1 = i
  BY <1>0
<1>2. ArePrefixes(m, b, s, 0)
  BY <1>0, PrefixesDef, Zenon
<1>3. m[i + 1] = x
  BY <1>0, <1>1, <1>2, Zenon DEF ArePrefixes, NextValue
<1>4. \A j \in s + 1..i : b[j] \in Digits
  BY Zenon DEF Parsed
<1> HIDE DEF s, m
<1>5. CASE b[i + 1] \notin Digits
  <2>1. w = NotANumber /\ NotANumber \in Int
    BY <1>0, <1>5 DEF PushDigit, NotANumber
  <2>2. ~WellFormed(b)
    BY <1>1, <1>5, Zenon DEF WellFormed, s
  <2> QED BY <2>1, <2>2, Zenon DEF TooLarge
<1>6. CASE b[i + 1] \in Digits
  <2>0. Digit(b[i + 1]) \in 0..9
    BY <1>6, DigitsAreBytes, Zenon
  <2>1. x \in Nat
    <3>1. v \in Nat /\ v \in Int
      BY <1>0
    <3> QED BY <2>0, <3>1, TimesTen, Zenon
  <2>2. CASE x > I64Max
    <3>1. w = NotANumber /\ NotANumber \in Int
      BY <1>0, <2>2 DEF PushDigit, NotANumber
    <3>2. ASSUME WellFormed(b) PROVE Magnitude(b) > I64Max
      <4>1. \A j \in (i + 1) + 1..n : j \in s + 1..n
        BY <1>0, <1>1
      <4>2. \A j \in (i + 1) + 1..n : b[j] \in Digits
        BY <3>2, <4>1, Zenon DEF WellFormed, s
      <4>3. Prefixes(b, s, 0)[i + 1] > I64Max
        BY <1>3, <2>2, Zenon DEF m
      <4>4. n \in s..Len(b) /\ i + 1 \in s..n
        BY <1>0, <1>1
      <4>5. Prefixes(b, s, 0)[n] > I64Max
        BY <1>0, <1>1, <4>2, <4>3, <4>4, PrefixesGrow
      <4>6. Meaning(b, s, 0) > I64Max
        BY <4>5, Zenon DEF Meaning
      <4> QED BY <4>6, Zenon DEF Magnitude, s
    <3> QED BY <3>1, <3>2, Zenon DEF TooLarge
  <2>3. CASE ~(x > I64Max)
    <3>1. w = x /\ x \in 0..I64Max /\ x # NotANumber /\ x \in Int
      BY <1>0, <1>6, <2>1, <2>3 DEF PushDigit, NotANumber
    <3>2. \A j \in s + 1..i + 1 : j = i + 1 \/ j \in s + 1..i
      BY <1>0
    <3>3. \A j \in s + 1..i + 1 : b[j] \in Digits
      BY <1>4, <1>6, <3>2, Zenon
    <3>4. Parsed(b, i + 1, x)
      BY <1>0, <1>1, <1>3, <3>1, <3>3, Zenon DEF Parsed, s, m
    <3> QED BY <3>1, <3>4, Zenon
  <2> QED BY <2>2, <2>3
<1> QED BY <1>5, <1>6

LEMMA ParsedAll ==
    ASSUME NEW b \in Seq(Bytes), NEW v, Parsed(b, Len(b), v)
    PROVE  Accepted(b, v)
BY Zenon DEF Parsed, Accepted, WellFormed, Magnitude, Meaning

LEMMA ParsedNone ==
    ASSUME NEW b \in Seq(Bytes)
    PROVE  IF Sign(b) >= Len(b) THEN TooLarge(b) ELSE Parsed(b, Sign(b), 0)
<1> DEFINE s == Sign(b)
           m == Prefixes(b, s, 0)
<1>1. s \in {0, 1} /\ s \in Nat /\ Len(b) \in Nat /\ I64Max \in Nat /\ 0 \in Int
  BY SignOf, NumeralAssumption
<1>2. CASE s >= Len(b)
  BY <1>1, <1>2 DEF TooLarge, WellFormed
<1>3. CASE ~(s >= Len(b))
  <2>1. s < Len(b) /\ s \in s..Len(b) /\ 0 \in 0..I64Max /\ s + 1..s = {}
    BY <1>1, <1>3
  <2>2. ArePrefixes(m, b, s, 0)
    BY <1>1, PrefixesDef, Zenon
  <2>3. m[s] = 0
    <3>1. CASE s = 0
      BY <2>2, <3>1, Zenon DEF ArePrefixes
    <3>2. CASE s = 1
      <4>1. 1 \in 1..Len(b) /\ 1 <= 1
        BY <1>1, <2>1, <3>2
      <4>2. m[1] = NextValue(b, 1, 0, 1, m[1 - 1])
        BY <2>2, <3>2, <4>1, Zenon DEF ArePrefixes
      <4> QED BY <3>2, <4>1, <4>2, Zenon DEF NextValue
    <3> QED BY <1>1, <3>1, <3>2
  <2> HIDE DEF s, m
  <2> QED BY <1>3, <2>1, <2>3, Zenon DEF Parsed, s, m
<1> QED BY <1>2, <1>3

\* The number being written is what the digits mean behind the rest.
LEMMA WriteNext ==
    ASSUME NEW b \in Seq(Bytes), AllDigits(b), NEW r \in Nat
    PROVE  LET a == <<48 + (r % 10)>> \o b
           IN /\ a \in Seq(Bytes) /\ AllDigits(a) /\ a # <<>>
              /\ r \div 10 \in Nat /\ Meaning(a, 0, r \div 10) = Meaning(b, 0, r)
<1> DEFINE d == r % 10
           q == r \div 10
           c == 48 + d
           a == <<c>> \o b
<1>1. q \in Nat /\ d \in 0..9 /\ q * 10 + d = r
  <2>1. 10 \in Nat /\ 10 > 0 /\ 10 - 1 = 9
    OBVIOUS
  <2> QED BY <2>1, DivMod
<1> HIDE DEF d, q
<1>2. c \in Digits /\ c \in Bytes /\ Digit(c) = d /\ q \in Int
  <2>1. q \in Int
    BY <1>1
  <2> QED BY <1>1, <2>1, DigitsAreBytes, Zenon
<1>3. a \in Seq(Bytes) /\ Len(b) \in Nat /\ Len(a) = Len(b) + 1 /\ a[1] = c /\ \A i \in 1..Len(b) : a[i + 1] = b[i]
  BY <1>2, InFront
<1>4. Meaning(a, 0, q) = Meaning(b, 0, q * 10 + Digit(c))
  BY <1>2, MeaningJoin
<1> HIDE DEF a, c
<1>5. ASSUME NEW i \in 1..Len(a) PROVE a[i] \in Digits
  <2>1. CASE i = 1
    BY <1>2, <1>3, <2>1, Zenon
  <2>2. CASE i # 1
    <3>1. i - 1 \in 1..Len(b) /\ (i - 1) + 1 = i
      BY <1>3, <2>2
    <3>2. a[i] = b[i - 1]
      BY <1>3, <3>1, Zenon
    <3> QED BY <3>1, <3>2, Zenon DEF AllDigits
  <2> QED BY <2>1, <2>2
<1>6. a # <<>>
  BY <1>3, EmptySeq
<1>7. AllDigits(a)
  BY <1>5, Zenon DEF AllDigits
<1> QED BY <1>1, <1>2, <1>3, <1>4, <1>6, <1>7, Zenon DEF a, c, q, d

\* The bytes are written for the number g.
Written(b, g) == WellFormed(b) /\ Magnitude(b) = Abs(g) /\ (Sign(b) = 1 <=> g < 0)

LEMMA WrittenPlain ==
    ASSUME NEW b \in Seq(Bytes), AllDigits(b), b # <<>>, NEW g \in Nat, Meaning(b, 0, 0) = g
    PROVE  Written(b, g)
<1>1. Len(b) \in Nat /\ Len(b) # 0
  BY LenProperties, EmptySeq
<1>2. 1 \in 1..Len(b) /\ 0 < Len(b) /\ 0 + 1 = 1
  BY <1>1
<1>3. b[1] # MINUS
  BY <1>2, DigitsAreBytes, Zenon DEF AllDigits
<1>4. Sign(b) = 0
  BY <1>3, Zenon DEF Sign
<1>5. Abs(g) = g /\ ~(g < 0) /\ 0 # 1
  BY DEF Abs
<1> QED BY <1>2, <1>4, <1>5, Zenon DEF Written, WellFormed, Magnitude, AllDigits

LEMMA WrittenSigned ==
    ASSUME NEW b \in Seq(Bytes), AllDigits(b), b # <<>>, NEW g \in Int, g < 0, Meaning(b, 0, 0) = Abs(g)
    PROVE  <<MINUS>> \o b \in Seq(Bytes) /\ Written(<<MINUS>> \o b, g)
<1> DEFINE a == <<MINUS>> \o b
<1>0. MINUS \in Bytes /\ 0 \in Int
  <2>1. 0 \in Int
    OBVIOUS
  <2> QED BY <2>1, DigitsAreBytes, Zenon
<1>1. a \in Seq(Bytes) /\ Len(b) \in Nat /\ Len(a) = Len(b) + 1 /\ a[1] = MINUS /\ \A i \in 1..Len(b) : a[i + 1] = b[i]
  BY <1>0, InFront
<1>2. Len(b) # 0
  BY LenProperties, EmptySeq
<1>3. Meaning(a, 1, 0) = Meaning(b, 0, 0)
  BY <1>0, MeaningSkip, Zenon
<1> HIDE DEF a
<1>4. a # <<>>
  BY <1>1, EmptySeq
<1>5. Sign(a) = 1
  BY <1>1, <1>4, Zenon DEF Sign
<1>6. ASSUME NEW i \in 1 + 1..Len(a) PROVE a[i] \in Digits
  <2>1. i - 1 \in 1..Len(b) /\ (i - 1) + 1 = i
    BY <1>1
  <2>2. a[i] = b[i - 1]
    BY <1>1, <2>1, Zenon
  <2> QED BY <2>1, <2>2, Zenon DEF AllDigits
<1>7. 1 < Len(a)
  BY <1>1, <1>2
<1> QED BY <1>1, <1>3, <1>5, <1>6, <1>7, Zenon DEF Written, WellFormed, Magnitude, a

\* The inductive invariant.
NumeralTyped ==
    /\ numeral \in Seq(Bytes) /\ goal \in -(I64Max + 1)..I64Max + 1 /\ rest \in Nat
    /\ stage \in {"write", "parse", "digits", "number", "refused"}

Writing(b, g, r) ==
    g # NotANumber /\ AllDigits(b) /\ Meaning(b, 0, r) = Abs(g) /\ (b = <<>> => r = Abs(g))

Outcome(b, v) == \E m : Accepted(b, m) /\ v = IF Sign(b) = 1 THEN -m ELSE m

NumeralInv ==
    /\ NumeralTyped
    /\ stage = "write" => Writing(numeral, goal, rest)
    /\ stage # "write" /\ goal # NotANumber => Written(numeral, goal)
    /\ stage = "digits" => Parsed(numeral, index, val)
    /\ stage = "number" => Outcome(numeral, val)
    /\ stage = "refused" => TooLarge(numeral)

LEMMA NumeralBegins == NumeralInit => NumeralInv
<1>0. I64Max \in Nat /\ NotANumber \in -(I64Max + 1)..I64Max + 1 /\ 0 \in Nat
  BY NumeralAssumption DEF NotANumber
<1>1. ASSUME NEW b \in Numerals, GivenBytes(b) PROVE NumeralInv
  <2>1. numeral = b /\ goal = NotANumber /\ rest = 0 /\ stage = "parse"
    BY <1>1, Zenon DEF GivenBytes
  <2>2. b \in Seq(Bytes)
    BY NumeralAssumption, Zenon DEF Bytes
  <2>3. /\ stage # "write" /\ stage # "digits" /\ stage # "number" /\ stage # "refused"
        /\ stage \in {"write", "parse", "digits", "number", "refused"}
    BY <2>1
  <2> QED BY <1>0, <2>1, <2>2, <2>3, Zenon DEF NumeralInv, NumeralTyped
<1>2. ASSUME NEW i \in -(I64Max + 1)..I64Max, GivenNumber(i) PROVE NumeralInv
  <2>1. numeral = <<>> /\ goal = i /\ rest = Abs(i) /\ stage = "write"
    BY <1>2, Zenon DEF GivenNumber
  <2>2. i \in -(I64Max + 1)..I64Max + 1 /\ i # NotANumber /\ Abs(i) \in Nat /\ Abs(i) \in Int
    BY <1>0 DEF Abs, NotANumber
  <2>3. <<>> \in Seq(Bytes) /\ Len(<<>>) = 0 /\ 1..0 = {}
    OBVIOUS
  <2>4. ArePrefixes(Prefixes(<<>>, 0, Abs(i)), <<>>, 0, Abs(i))
    BY <1>0, <2>2, <2>3, PrefixesDef, Zenon
  <2>5. Meaning(<<>>, 0, Abs(i)) = Abs(i)
    BY <2>3, <2>4, Zenon DEF Meaning, ArePrefixes
  <2>6. AllDigits(<<>>)
    BY <2>3, Zenon DEF AllDigits
  <2>7. /\ stage # "digits" /\ stage # "number" /\ stage # "refused"
        /\ stage \in {"write", "parse", "digits", "number", "refused"}
    BY <2>1
  <2> QED BY <2>1, <2>2, <2>3, <2>5, <2>6, <2>7, Zenon DEF NumeralInv, NumeralTyped, Writing
<1> QED BY <1>1, <1>2, Zenon DEF NumeralInit

LEMMA WriteDigitStep ==
    ASSUME NumeralInv, WriteDigit
    PROVE  NumeralInv'
<1> DEFINE a == <<48 + (rest % 10)>> \o numeral
           q == rest \div 10
<1>1. NumeralTyped /\ stage = "write" /\ Writing(numeral, goal, rest)
  BY Zenon DEF NumeralInv, WriteDigit
<1>2. numeral \in Seq(Bytes) /\ rest \in Nat /\ AllDigits(numeral)
  BY <1>1, Zenon DEF NumeralTyped, Writing
<1>3. a \in Seq(Bytes) /\ AllDigits(a) /\ a # <<>> /\ q \in Nat /\ Meaning(a, 0, q) = Meaning(numeral, 0, rest)
  BY <1>2, WriteNext
<1>4. numeral' = a /\ rest' = q /\ goal' = goal /\ stage' = stage
  BY Zenon DEF WriteDigit
<1> HIDE DEF a, q
<1>5. Writing(a, goal, q)
  BY <1>1, <1>3, Zenon DEF Writing
<1>6. stage' # "digits" /\ stage' # "number" /\ stage' # "refused" /\ stage' = "write"
  BY <1>1, <1>4
<1> QED BY <1>1, <1>3, <1>4, <1>5, <1>6, Zenon DEF NumeralInv, NumeralTyped

LEMMA WriteEndStep ==
    ASSUME NumeralInv, WriteEnd
    PROVE  NumeralInv'
<1>1. NumeralTyped /\ stage = "write" /\ rest = 0 /\ Writing(numeral, goal, rest)
  BY Zenon DEF NumeralInv, WriteEnd
<1>2. /\ numeral \in Seq(Bytes) /\ goal \in -(I64Max + 1)..I64Max + 1 /\ goal # NotANumber /\ AllDigits(numeral)
      /\ Meaning(numeral, 0, 0) = Abs(goal) /\ (numeral = <<>> => Abs(goal) = 0)
  BY <1>1, Zenon DEF NumeralTyped, Writing
<1>3. I64Max \in Nat /\ goal \in Int /\ <<>> \o numeral = numeral /\ <<>> \o <<48>> = <<48>>
  BY <1>2, NumeralAssumption
<1>4. numeral' = (IF goal < 0 THEN <<MINUS>> ELSE <<>>) \o (IF goal = 0 THEN <<48>> ELSE numeral)
  BY Zenon DEF WriteEnd
<1>5. numeral' \in Seq(Bytes) /\ Written(numeral', goal)
  <2>1. CASE goal < 0
    <3>1. numeral' = <<MINUS>> \o numeral /\ Abs(goal) # 0
      BY <1>3, <1>4, <2>1 DEF Abs
    <3> QED BY <1>2, <1>3, <2>1, <3>1, WrittenSigned
  <2>2. CASE goal = 0
    <3>1. numeral' = <<48>>
      BY <1>3, <1>4, <2>2
    <3>2. <<>> \in Seq(Bytes) /\ 0 \in Nat /\ <<48>> \o <<>> = <<48>> /\ Len(<<>>) = 0 /\ 0 \in Int
      OBVIOUS
    <3>3. <<48>> \in Seq(Bytes) /\ AllDigits(<<48>>) /\ <<48>> # <<>> /\ Meaning(<<48>>, 0, 0) = Meaning(<<>>, 0, 0)
      <4>1. 48 \in Bytes /\ 48 \in Digits /\ 0 * 10 + Digit(48) = 0
        BY DEF Bytes, Digits, Digit
      <4>2. Meaning(<<48>> \o <<>>, 0, 0) = Meaning(<<>>, 0, 0 * 10 + Digit(48))
        BY <3>2, <4>1, MeaningJoin, Zenon
      <4>3. <<48>> \in Seq(Bytes) /\ <<48>> # <<>> /\ Len(<<48>>) = 1 /\ <<48>>[1] = 48
        BY <4>1
      <4>4. \A i \in 1..1 : i = 1
        OBVIOUS
      <4>5. AllDigits(<<48>>)
        BY <4>1, <4>3, <4>4, Zenon DEF AllDigits
      <4> QED BY <3>2, <4>1, <4>2, <4>3, <4>5, Zenon
    <3>4. ArePrefixes(Prefixes(<<>>, 0, 0), <<>>, 0, 0)
      BY <3>2, PrefixesDef, Zenon
    <3>5. Meaning(<<>>, 0, 0) = 0
      BY <3>2, <3>4, Zenon DEF Meaning, ArePrefixes
    <3> QED BY <2>2, <3>1, <3>2, <3>3, <3>5, WrittenPlain, Zenon
  <2>3. CASE goal > 0
    <3>1. ~(goal < 0) /\ goal \in Nat /\ goal # 0
      BY <1>3, <2>3
    <3>2. numeral' = numeral /\ Abs(goal) = goal
      BY <1>3, <1>4, <3>1, Zenon DEF Abs
    <3>3. numeral # <<>>
      BY <1>2, <3>1, <3>2, Zenon
    <3> QED BY <1>2, <3>1, <3>2, <3>3, WrittenPlain
  <2> QED BY <1>3, <2>1, <2>2, <2>3
<1>6. stage' = "parse" /\ goal' = goal /\ rest' = rest
  BY Zenon DEF WriteEnd
<1>7. /\ stage' # "write" /\ stage' # "digits" /\ stage' # "number" /\ stage' # "refused"
      /\ stage' \in {"write", "parse", "digits", "number", "refused"}
  BY <1>6
<1> QED BY <1>1, <1>5, <1>6, <1>7, Zenon DEF NumeralInv, NumeralTyped

LEMMA ParseStartStep ==
    ASSUME NumeralInv, ParseStart
    PROVE  NumeralInv'
<1>1. NumeralTyped /\ stage = "parse" /\ numeral \in Seq(Bytes)
  BY Zenon DEF NumeralInv, NumeralTyped, ParseStart
<1>2. IF Sign(numeral) >= Len(numeral) THEN TooLarge(numeral) ELSE Parsed(numeral, Sign(numeral), 0)
  BY <1>1, ParsedNone, Zenon
<1>3. numeral' = numeral /\ goal' = goal /\ rest' = rest /\ index' = Sign(numeral) /\ val' = 0
  BY Zenon DEF ParseStart
<1>4. stage' = IF Sign(numeral) >= Len(numeral) THEN "refused" ELSE "digits"
  BY Zenon DEF ParseStart
<1>5. stage # "write" /\ stage' # "write" /\ stage' # "number" /\ stage' \in {"write", "parse", "digits", "number", "refused"}
  BY <1>1, <1>4
<1>6. (stage' = "digits" => Parsed(numeral, Sign(numeral), 0)) /\ (stage' = "refused" => TooLarge(numeral))
  BY <1>2, <1>4
<1> QED BY <1>1, <1>3, <1>5, <1>6, Zenon DEF NumeralInv, NumeralTyped

LEMMA ParseByteStep ==
    ASSUME NumeralInv, ParseByte
    PROVE  NumeralInv'
<1> DEFINE w == PushDigit(val, numeral[index + 1])
<1>1. NumeralTyped /\ stage = "digits" /\ numeral \in Seq(Bytes) /\ Parsed(numeral, index, val) /\ index < Len(numeral)
  BY Zenon DEF NumeralInv, NumeralTyped, ParseByte
<1>2. (w = NotANumber => TooLarge(numeral)) /\ (w # NotANumber => Parsed(numeral, index + 1, w))
  BY <1>1, ParsedNext
<1>3. numeral' = numeral /\ goal' = goal /\ rest' = rest /\ index' = index + 1 /\ val' = w
  BY Zenon DEF ParseByte
<1>4. stage' = IF w = NotANumber THEN "refused" ELSE "digits"
  BY <1>1, <1>3, Zenon DEF ParseByte
<1> HIDE DEF w
<1>5. stage # "write" /\ stage' # "write" /\ stage' # "number" /\ stage' \in {"write", "parse", "digits", "number", "refused"}
  BY <1>1, <1>4
<1>6. (stage' = "digits" => Parsed(numeral, index + 1, w)) /\ (stage' = "refused" => TooLarge(numeral))
  BY <1>2, <1>4
<1> QED BY <1>1, <1>3, <1>5, <1>6, Zenon DEF NumeralInv, NumeralTyped

LEMMA ParseEndStep ==
    ASSUME NumeralInv, ParseEnd
    PROVE  NumeralInv'
<1>1. NumeralTyped /\ stage = "digits" /\ numeral \in Seq(Bytes) /\ Parsed(numeral, index, val) /\ index = Len(numeral)
  BY Zenon DEF NumeralInv, NumeralTyped, ParseEnd
<1>2. Accepted(numeral, val)
  BY <1>1, ParsedAll
<1>3. /\ numeral' = numeral /\ goal' = goal /\ rest' = rest /\ stage' = "number"
      /\ val' = IF Sign(numeral) = 1 THEN -val ELSE val
  BY Zenon DEF ParseEnd
<1>4. Outcome(numeral, val')
  BY <1>2, <1>3, Zenon DEF Outcome
<1>5. /\ stage # "write" /\ stage' # "write" /\ stage' # "digits" /\ stage' # "refused"
      /\ stage' \in {"write", "parse", "digits", "number", "refused"}
  BY <1>1, <1>3
<1> QED BY <1>1, <1>3, <1>4, <1>5, Zenon DEF NumeralInv, NumeralTyped

LEMMA NumeralStep == NumeralInv /\ [NumeralNext]_numeralVars => NumeralInv'
<1>1. NumeralInv /\ UNCHANGED numeralVars => NumeralInv'
  BY Zenon DEF numeralVars, NumeralInv, NumeralTyped
<1> QED BY <1>1, WriteDigitStep, WriteEndStep, ParseStartStep, ParseByteStep, ParseEndStep, Zenon DEF NumeralNext

LEMMA NumeralInvExact == NumeralInv => ParseExact
<1> SUFFICES ASSUME NumeralInv PROVE ParseExact
  OBVIOUS
<1>0. I64Max \in Nat /\ goal \in -(I64Max + 1)..I64Max + 1
  BY NumeralAssumption DEF NumeralInv, NumeralTyped
<1>w. stage # "write" /\ goal # NotANumber => Magnitude(numeral) = Abs(goal) /\ WellFormed(numeral) /\ (Sign(numeral) = 1 <=> goal < 0)
  BY Zenon DEF NumeralInv, Written
<1>1. ASSUME stage = "number"
      PROVE  /\ WellFormed(numeral) /\ Magnitude(numeral) <= I64Max
             /\ val = IF Sign(numeral) = 1 THEN -Magnitude(numeral) ELSE Magnitude(numeral)
             /\ goal # NotANumber => val = goal
  <2>1. PICK m : Accepted(numeral, m) /\ val = IF Sign(numeral) = 1 THEN -m ELSE m
    BY <1>1, Zenon DEF NumeralInv, Outcome
  <2>2. WellFormed(numeral) /\ Magnitude(numeral) = m /\ m \in 0..I64Max
    BY <2>1, Zenon DEF Accepted
  <2>3. stage # "write"
    BY <1>1
  <2>4. ASSUME goal # NotANumber PROVE val = goal
    <3>1. m = Abs(goal) /\ (Sign(numeral) = 1 <=> goal < 0)
      BY <1>w, <2>2, <2>3, <2>4, Zenon
    <3> QED BY <1>0, <2>1, <3>1 DEF Abs
  <2>5. m <= I64Max
    BY <1>0, <2>2
  <2> QED BY <2>1, <2>2, <2>4, <2>5, Zenon
<1>2. ASSUME stage = "refused"
      PROVE  /\ WellFormed(numeral) => Magnitude(numeral) > I64Max
             /\ goal # NotANumber => goal = -(I64Max + 1)
  <2>1. WellFormed(numeral) => Magnitude(numeral) > I64Max
    BY <1>2, Zenon DEF NumeralInv, TooLarge
  <2>2. stage # "write"
    BY <1>2
  <2>3. ASSUME goal # NotANumber PROVE goal = -(I64Max + 1)
    <3>1. Abs(goal) > I64Max
      BY <1>w, <2>1, <2>2, <2>3, Zenon
    <3> QED BY <1>0, <2>3, <3>1 DEF Abs, NotANumber
  <2> QED BY <2>1, <2>3, Zenon
<1> QED BY <1>1, <1>2, Zenon DEF ParseExact

\* parse_i64 accepts exactly the numerals of the i64 but the least, and every other i64 that is
\* written is read back: for bytes of any length and any width of the integers.
THEOREM ParseIsExact == NumeralSpec => []ParseExact
<1>1. NumeralInit => NumeralInv
  BY NumeralBegins
<1>2. NumeralInv /\ [NumeralNext]_numeralVars => NumeralInv'
  BY NumeralStep
<1>3. NumeralInv => ParseExact
  BY NumeralInvExact
<1> QED BY <1>1, <1>2, <1>3, PTL DEF NumeralSpec

----------------------------------------------------------------------------
(* Bytes behind bytes. *)

\* c begins with b.
Extends(c, b) == Len(b) <= Len(c) /\ \A i \in 1..Len(b) : c[i] = b[i]

LEMMA ConcatExtends ==
    ASSUME NEW b \in Seq(Bytes), NEW a \in Seq(Bytes)
    PROVE  /\ b \o a \in Seq(Bytes) /\ Len(b) \in Nat /\ Len(a) \in Nat /\ Len(b \o a) = Len(b) + Len(a)
           /\ Extends(b \o a, b) /\ \A i \in 1..Len(a) : (b \o a)[Len(b) + i] = a[i]
<1> DEFINE c == b \o a
<1>1. /\ c \in Seq(Bytes) /\ Len(c) = Len(b) + Len(a) /\ Len(b) \in Nat /\ Len(a) \in Nat
      /\ \A i \in 1..Len(b) + Len(a) : c[i] = IF i <= Len(b) THEN b[i] ELSE a[i - Len(b)]
  BY ConcatProperties, LenProperties
<1> HIDE DEF c
<1>2. /\ Len(b) <= Len(c)
      /\ \A i \in 1..Len(b) : i \in 1..Len(b) + Len(a) /\ i <= Len(b)
      /\ \A i \in 1..Len(a) : Len(b) + i \in 1..Len(b) + Len(a) /\ ~(Len(b) + i <= Len(b)) /\ (Len(b) + i) - Len(b) = i
  BY <1>1
<1>3. \A i \in 1..Len(b) : c[i] = b[i]
  BY <1>1, <1>2, Zenon
<1>4. ASSUME NEW i \in 1..Len(a) PROVE c[Len(b) + i] = a[i]
  <2>1. c[Len(b) + i] = IF Len(b) + i <= Len(b) THEN b[Len(b) + i] ELSE a[(Len(b) + i) - Len(b)]
    BY <1>1, <1>2, Zenon
  <2> QED BY <1>2, <2>1, Zenon
<1> QED BY <1>1, <1>2, <1>3, <1>4, Zenon DEF c, Extends

LEMMA ExtendsTransitive ==
    ASSUME NEW a \in Seq(Bytes), NEW b \in Seq(Bytes), NEW c \in Seq(Bytes), Extends(b, a), Extends(c, b)
    PROVE  Extends(c, a)
<1>1. Len(a) \in Nat /\ Len(b) \in Nat /\ Len(c) \in Nat
  BY LenProperties
<1>2. Len(a) <= Len(c) /\ \A i \in 1..Len(a) : i \in 1..Len(b)
  BY <1>1 DEF Extends
<1> QED BY <1>2, Zenon DEF Extends

\* The values of the prefixes depend on the bytes up to there only.
LEMMA PrefixesAlike ==
    ASSUME NEW b \in Seq(Bytes), NEW c \in Seq(Bytes), Extends(c, b), NEW s \in Nat
    PROVE  \A i \in 0..Len(b) : Prefixes(c, s, 0)[i] = Prefixes(b, s, 0)[i]
<1> DEFINE f == Prefixes(c, s, 0)
           g == Prefixes(b, s, 0)
           n == Len(b)
<1>1. n \in Nat /\ Len(c) \in Nat /\ 0 \in Int /\ 0 \in Nat
  BY LenProperties
<1>2. ArePrefixes(f, c, s, 0) /\ ArePrefixes(g, b, s, 0)
  BY <1>1, PrefixesDef, Zenon
<1> HIDE DEF f, g
<1>3. \A i \in 1..n : i \in 1..Len(c) /\ c[i] = b[i]
  BY <1>1 DEF Extends
<1>4. f[0] = g[0]
  BY <1>2, Zenon DEF ArePrefixes
<1>5. GoOnAlike(f, g, 0, n)
  <2>1. ASSUME NEW i \in 1..n, f[i - 1] = g[i - 1] PROVE f[i] = g[i]
    <3>1. f[i] = NextValue(c, s, 0, i, f[i - 1]) /\ g[i] = NextValue(b, s, 0, i, g[i - 1])
      BY <1>2, <1>3, Zenon DEF ArePrefixes
    <3> QED BY <1>3, <2>1, <3>1, Zenon DEF NextValue
  <2>2. 0 + 1 = 1
    OBVIOUS
  <2> QED BY <2>1, <2>2, Zenon DEF GoOnAlike
<1>6. \A i \in 0..n : f[i] = g[i]
  <2>1. 0 \in Nat /\ n \in Nat /\ f[0] = g[0] /\ GoOnAlike(f, g, 0, n)
    BY <1>1, <1>4, <1>5
  <2>2. Alike(f, g, 0, n)
    BY <2>1, StayTogether, Zenon
  <2> QED BY <2>2, Zenon DEF Alike
<1> QED BY <1>6 DEF f, g

\* Digits mean the same wherever they stand.
LEMMA PrefixesShift ==
    ASSUME NEW b \in Seq(Bytes), NEW d \in Seq(Bytes), NEW s \in Nat, s + Len(d) <= Len(b),
           \A i \in 1..Len(d) : b[s + i] = d[i]
    PROVE  Prefixes(b, s, 0)[s + Len(d)] = Meaning(d, 0, 0)
<1> DEFINE n == Len(d)
           f == Prefixes(b, s, 0)
           p == Prefixes(d, 0, 0)
           g == [i \in s..s + n |-> p[i - s]]
<1>1. n \in Nat /\ Len(b) \in Nat /\ 0 \in Int /\ 0 \in Nat /\ s + n \in Nat
  BY LenProperties
<1>2. ArePrefixes(f, b, s, 0) /\ ArePrefixes(p, d, 0, 0)
  BY <1>1, PrefixesDef, Zenon
<1> HIDE DEF f, p
<1>3. /\ s \in s..s + n /\ s + n \in s..s + n /\ s - s = 0 /\ (s + n) - s = n /\ s <= s
      /\ (s = 0 \/ s \in 1..Len(b)) /\ s \in 0..Len(b)
      /\ \A i \in s + 1..s + n : /\ i \in s..s + n /\ i - 1 \in s..s + n /\ i - s \in 1..n /\ i \in 1..Len(b) /\ ~(i <= s)
                                 /\ (i - 1) - s = (i - s) - 1 /\ s + (i - s) = i /\ ~(i - s <= 0)
  BY <1>1
<1>4. f[s] = g[s]
  <2>1. g[s] = 0
    BY <1>2, <1>3, Zenon DEF ArePrefixes
  <2>2. CASE s = 0
    BY <1>2, <2>1, <2>2, Zenon DEF ArePrefixes
  <2>3. CASE s \in 1..Len(b)
    BY <1>2, <1>3, <2>1, <2>3, Zenon DEF ArePrefixes, NextValue
  <2> QED BY <1>3, <2>2, <2>3, Zenon
<1>5. ASSUME NEW i \in s + 1..s + n, f[i - 1] = g[i - 1] PROVE f[i] = g[i]
  <2>1. f[i] = f[i - 1] * 10 + Digit(b[i])
    BY <1>2, <1>3, Zenon DEF ArePrefixes, NextValue
  <2>2. g[i] = p[i - s] /\ g[i - 1] = p[(i - s) - 1]
    BY <1>3, Zenon
  <2>3. p[i - s] = p[(i - s) - 1] * 10 + Digit(d[i - s])
    BY <1>2, <1>3, Zenon DEF ArePrefixes, NextValue
  <2>4. b[i] = d[i - s]
    BY <1>3, Zenon
  <2> QED BY <1>5, <2>1, <2>2, <2>3, <2>4, Zenon
<1> HIDE DEF g
<1>6. \A i \in s..s + n : f[i] = g[i]
  <2> DEFINE e == s + n
  <2>1. e \in Nat /\ GoOnAlike(f, g, s, e)
    BY <1>1, <1>5, Zenon DEF GoOnAlike
  <2> HIDE DEF e
  <2>2. PICK x, y : x = f /\ y = g
    BY Zenon
  <2>3. x[s] = y[s] /\ GoOnAlike(x, y, s, e) /\ s \in Nat /\ e \in Nat
    BY <1>4, <2>1, <2>2, Zenon
  <2>4. \A i \in s..e : x[i] = y[i]
    <3>1. s \in Nat /\ e \in Nat /\ x[s] = y[s] /\ GoOnAlike(x, y, s, e)
      BY <2>3
    <3>2. Alike(x, y, s, e)
      BY <3>1, StayTogether, Zenon
    <3> QED BY <3>2, Zenon DEF Alike
  <2> QED BY <2>2, <2>4, Zenon DEF e
<1>7. f[s + n] = p[n]
  <2>1. g[s + n] = p[(s + n) - s]
    BY <1>3, Zenon DEF g
  <2> QED BY <1>3, <1>6, <2>1, Zenon
<1> QED BY <1>7, Zenon DEF f, p, Meaning

----------------------------------------------------------------------------
(* Headers and arguments in a sequence of bytes. *)

\* The header of the number n: its mark, its digits up to its CR, its LF.
HeaderAt(b, mark, n, at, cr) ==
    /\ at \in Nat /\ cr \in Nat /\ 1 <= at /\ at + 1 < cr /\ cr + 1 <= Len(b)
    /\ b[at] = mark /\ b[cr] = CR /\ b[cr + 1] = LF
    /\ \A i \in at + 1..cr - 1 : b[i] \in Digits
    /\ Prefixes(b, at, 0)[cr - 1] = n

\* The argument a and the CRLF behind it.
BodyAt(b, a, from) ==
    /\ from + Len(a) + 1 <= Len(b) /\ \A i \in 1..Len(a) : b[from + i - 1] = a[i]
    /\ b[from + Len(a)] = CR /\ b[from + Len(a) + 1] = LF

LEMMA HeaderGrows ==
    ASSUME NEW b \in Seq(Bytes), NEW c \in Seq(Bytes), Extends(c, b), NEW mark, NEW n, NEW at, NEW cr,
           HeaderAt(b, mark, n, at, cr)
    PROVE  HeaderAt(c, mark, n, at, cr)
<1>1. at \in Nat /\ cr \in Nat /\ 1 <= at /\ at + 1 < cr /\ cr + 1 <= Len(b)
  BY DEF HeaderAt
<1>2. Len(b) \in Nat /\ Len(c) \in Nat /\ Len(b) <= Len(c)
  BY LenProperties DEF Extends
<1>3. /\ cr + 1 <= Len(c) /\ at \in 1..Len(b) /\ cr \in 1..Len(b) /\ cr + 1 \in 1..Len(b) /\ cr - 1 \in 0..Len(b)
      /\ \A i \in at + 1..cr - 1 : i \in 1..Len(b)
  BY <1>1, <1>2
<1>4. Prefixes(c, at, 0)[cr - 1] = Prefixes(b, at, 0)[cr - 1]
  BY <1>1, <1>3, PrefixesAlike
<1> QED BY <1>1, <1>3, <1>4, Zenon DEF HeaderAt, Extends

LEMMA BodyGrows ==
    ASSUME NEW b \in Seq(Bytes), NEW c \in Seq(Bytes), Extends(c, b), NEW a \in Seq(Bytes), NEW from \in Nat, 1 <= from,
           BodyAt(b, a, from)
    PROVE  BodyAt(c, a, from)
<1>1. Len(a) \in Nat /\ Len(b) \in Nat /\ Len(c) \in Nat /\ Len(b) <= Len(c) /\ from + Len(a) + 1 <= Len(b)
  BY LenProperties DEF Extends, BodyAt
<1>2. /\ from + Len(a) + 1 <= Len(c) /\ from + Len(a) \in 1..Len(b) /\ from + Len(a) + 1 \in 1..Len(b)
      /\ \A i \in 1..Len(a) : from + i - 1 \in 1..Len(b)
  BY <1>1
<1> QED BY <1>2, Zenon DEF BodyAt, Extends

LEMMA Marks == CR \in Bytes /\ LF \in Bytes /\ STAR \in Bytes /\ DOLLAR \in Bytes
BY DEF CR, LF, STAR, DOLLAR, Bytes

LEMMA CrLfBytes == CrLf \in Seq(Bytes) /\ Len(CrLf) = 2 /\ CrLf[1] = CR /\ CrLf[2] = LF
BY Marks DEF CrLf

LEMMA CrLfBehind ==
    ASSUME NEW b \in Seq(Bytes)
    PROVE  LET c == b \o CrLf
           IN /\ c \in Seq(Bytes) /\ Len(c) = Len(b) + 2 /\ Extends(c, b)
              /\ c[Len(b) + 1] = CR /\ c[Len(b) + 2] = LF
<1> DEFINE c == b \o CrLf
<1>1. c \in Seq(Bytes) /\ Len(c) = Len(b) + Len(CrLf) /\ Extends(c, b) /\ \A i \in 1..Len(CrLf) : c[Len(b) + i] = CrLf[i]
  BY CrLfBytes, ConcatExtends
<1> HIDE DEF c
<1>2. 1 \in 1..2 /\ 2 \in 1..2
  OBVIOUS
<1>3. Len(c) = Len(b) + 2 /\ c[Len(b) + 1] = CR /\ c[Len(b) + 2] = LF
  BY <1>1, <1>2, CrLfBytes, Zenon
<1> QED BY <1>1, <1>3, Zenon DEF c

LEMMA DigitsSeq == \A d \in Seq(Digits) : d \in Seq(Bytes) /\ AllDigits(d)
<1>1. Digits \subseteq Bytes
  BY DigitsAreBytes, Zenon
<1>2. \A d \in Seq(Digits) : d \in Seq(Bytes)
  BY <1>1, SeqMonotonic
<1>3. \A d \in Seq(Digits) : AllDigits(d)
  BY ElementOfSeq DEF AllDigits
<1> QED BY <1>2, <1>3, Zenon

LEMMA HeaderBytes ==
    ASSUME NEW mark \in Bytes, NEW d \in Seq(Bytes)
    PROVE  LET h == Header(mark, d)
           IN /\ h \in Seq(Bytes) /\ Len(d) \in Nat /\ Len(h) = Len(d) + 3
              /\ h[1] = mark /\ (\A i \in 1..Len(d) : h[i + 1] = d[i]) /\ h[Len(d) + 2] = CR /\ h[Len(d) + 3] = LF
<1> DEFINE a == <<mark>> \o d
           h == a \o CrLf
           n == Len(d)
<1>1. a \in Seq(Bytes) /\ n \in Nat /\ Len(a) = n + 1 /\ a[1] = mark /\ \A i \in 1..n : a[i + 1] = d[i]
  BY InFront
<1> HIDE DEF a
<1>2. /\ h \in Seq(Bytes) /\ Len(h) = Len(a) + 2
      /\ (\A i \in 1..Len(a) : h[i] = a[i]) /\ h[Len(a) + 1] = CR /\ h[Len(a) + 2] = LF
  BY <1>1, CrLfBehind, Zenon DEF Extends
<1> HIDE DEF h
<1>3. /\ (n + 1) + 2 = n + 3 /\ 1 \in 1..n + 1 /\ (n + 1) + 1 = n + 2
      /\ \A i \in 1..n : i + 1 \in 1..n + 1
  BY <1>1
<1>4. Len(h) = n + 3 /\ h[1] = mark /\ (\A i \in 1..n : h[i + 1] = d[i]) /\ h[n + 2] = CR /\ h[n + 3] = LF
  BY <1>1, <1>2, <1>3, Zenon
<1> QED BY <1>1, <1>2, <1>4, Zenon DEF Header, h, a

LEMMA HeaderWritten ==
    ASSUME NEW b \in Seq(Bytes), NEW mark \in Bytes, NEW d \in Seq(Digits), NEW n, IsDecimal(d, n)
    PROVE  LET c == b \o Header(mark, d)
           IN /\ c \in Seq(Bytes) /\ Extends(c, b) /\ Len(d) \in Nat /\ Len(c) = Len(b) + Len(d) + 3
              /\ HeaderAt(c, mark, n, Len(b) + 1, Len(b) + Len(d) + 2)
<1> DEFINE h == Header(mark, d)
           c == b \o h
           k == Len(b)
           l == Len(d)
<1>1. d \in Seq(Bytes) /\ d # <<>> /\ Meaning(d, 0, 0) = n /\ (\A i \in 1..l : d[i] \in Digits)
  BY DigitsSeq DEF IsDecimal, AllDigits
<1>2. /\ h \in Seq(Bytes) /\ l \in Nat /\ Len(h) = l + 3 /\ h[1] = mark /\ (\A i \in 1..l : h[i + 1] = d[i])
      /\ h[l + 2] = CR /\ h[l + 3] = LF
  BY <1>1, HeaderBytes
<1> HIDE DEF h
<1>3. /\ c \in Seq(Bytes) /\ k \in Nat /\ Len(c) = k + Len(h) /\ Extends(c, b)
      /\ \A i \in 1..Len(h) : c[k + i] = h[i]
  BY <1>2, ConcatExtends, Zenon
<1> HIDE DEF c
<1>4. l # 0
  BY <1>1, EmptySeq
<1>5. /\ k + (l + 3) = k + l + 3 /\ 1 \in 1..l + 3 /\ l + 2 \in 1..l + 3 /\ l + 3 \in 1..l + 3
      /\ k + (l + 2) = k + l + 2 /\ k + (l + 3) = (k + l + 2) + 1 /\ k + l + 2 \in Nat /\ k + 1 \in Nat
      /\ 1 <= k + 1 /\ (k + 1) + 1 < k + l + 2 /\ (k + l + 2) + 1 <= k + l + 3
      /\ \A i \in 1..l : i + 1 \in 1..l + 3 /\ k + (i + 1) = (k + 1) + i
  BY <1>2, <1>3, <1>4
<1>6. c[k + 1] = mark /\ c[k + l + 2] = CR /\ c[(k + l + 2) + 1] = LF /\ \A i \in 1..l : c[(k + 1) + i] = d[i]
  <2>1. c[k + 1] = h[1] /\ c[k + (l + 2)] = h[l + 2] /\ c[k + (l + 3)] = h[l + 3]
    BY <1>2, <1>3, <1>5, Zenon
  <2>2. ASSUME NEW i \in 1..l PROVE c[(k + 1) + i] = d[i]
    <3>1. c[k + (i + 1)] = h[i + 1]
      BY <1>2, <1>3, <1>5, Zenon
    <3> QED BY <1>2, <1>5, <3>1, Zenon
  <2>3. c[k + l + 2] = CR
    BY <1>2, <1>5, <2>1, Zenon
  <2>4. c[(k + l + 2) + 1] = LF
    BY <1>2, <1>5, <2>1, Zenon
  <2> QED BY <1>2, <2>1, <2>2, <2>3, <2>4, Zenon
<1>7. \A i \in (k + 1) + 1..(k + l + 2) - 1 : i - (k + 1) \in 1..l /\ (k + 1) + (i - (k + 1)) = i
  BY <1>2, <1>3
<1>8. \A i \in (k + 1) + 1..(k + l + 2) - 1 : c[i] \in Digits
  BY <1>1, <1>6, <1>7, Zenon
<1>9. Prefixes(c, k + 1, 0)[(k + l + 2) - 1] = n
  <2> DEFINE s == k + 1
  <2>1. s \in Nat /\ s + l <= Len(c) /\ s + l = (k + l + 2) - 1
    BY <1>2, <1>3
  <2>2. \A i \in 1..l : c[s + i] = d[i]
    BY <1>6
  <2> HIDE DEF s
  <2>3. Prefixes(c, s, 0)[s + l] = Meaning(d, 0, 0)
    BY <1>1, <1>3, <2>1, <2>2, PrefixesShift, Zenon
  <2> QED BY <1>1, <2>1, <2>3, Zenon DEF s
<1>10. HeaderAt(c, mark, n, k + 1, k + l + 2)
  BY <1>2, <1>3, <1>5, <1>6, <1>8, <1>9, Zenon DEF HeaderAt
<1> QED BY <1>2, <1>3, <1>5, <1>10, Zenon DEF c, h

LEMMA BodyWritten ==
    ASSUME NEW b \in Seq(Bytes), NEW a \in Seq(Bytes)
    PROVE  LET c == b \o a \o CrLf
           IN /\ c \in Seq(Bytes) /\ Extends(c, b) /\ Len(a) \in Nat /\ Len(c) = Len(b) + Len(a) + 2
              /\ BodyAt(c, a, Len(b) + 1)
<1> DEFINE e == b \o a
           c == e \o CrLf
           k == Len(b)
           l == Len(a)
<1>1. /\ e \in Seq(Bytes) /\ k \in Nat /\ l \in Nat /\ Len(e) = k + l /\ Extends(e, b)
      /\ \A i \in 1..l : e[k + i] = a[i]
  BY ConcatExtends
<1> HIDE DEF e
<1>2. c \in Seq(Bytes) /\ Len(c) = Len(e) + 2 /\ Extends(c, e) /\ c[Len(e) + 1] = CR /\ c[Len(e) + 2] = LF
  BY <1>1, CrLfBehind, Zenon
<1> HIDE DEF c
<1>3. Extends(c, b)
  BY <1>1, <1>2, ExtendsTransitive
<1>4. /\ (k + l) + 1 = (k + 1) + l /\ (k + l) + 2 = (k + 1) + l + 1
      /\ (k + 1) + l + 1 <= (k + l) + 2 /\ (k + l) + 2 = k + l + 2
      /\ \A i \in 1..l : k + i \in 1..k + l /\ (k + 1) + i - 1 = k + i
  BY <1>1
<1>5. ASSUME NEW i \in 1..l PROVE c[(k + 1) + i - 1] = a[i]
  <2>1. k + i \in 1..Len(e) /\ (k + 1) + i - 1 = k + i /\ e[k + i] = a[i]
    BY <1>1, <1>4, Zenon
  <2>2. c[k + i] = e[k + i]
    BY <1>2, <2>1, Zenon DEF Extends
  <2> QED BY <2>1, <2>2, Zenon
<1>6. c[(k + 1) + l] = CR /\ c[(k + 1) + l + 1] = LF
  BY <1>1, <1>2, <1>4, Zenon
<1>7. BodyAt(c, a, k + 1)
  BY <1>1, <1>2, <1>4, <1>5, <1>6, Zenon DEF BodyAt
<1> QED BY <1>1, <1>2, <1>3, <1>4, <1>7, Zenon DEF c, e

----------------------------------------------------------------------------
(* The layout of the commands that were written. *)

FrameType == [at : Nat, cr : Nat, last : Nat]

\* The frame j of the command c: the header of the array, or the argument j - 1.
FrameOk(b, c, j, f) ==
    IF j = 1 THEN HeaderAt(b, STAR, Len(c), f.at, f.cr) /\ f.last = f.cr + 1
    ELSE /\ HeaderAt(b, DOLLAR, Len(c[j - 1]), f.at, f.cr) /\ BodyAt(b, c[j - 1], f.cr + 2)
         /\ f.last = f.cr + Len(c[j - 1]) + 3

\* The frames F of the command c, one behind the other, the first behind the position from.
LaidOut(b, c, F, from) ==
    /\ F \in Seq(FrameType) /\ Len(F) \in 1..Len(c) + 1
    /\ \A j \in 1..Len(F) : FrameOk(b, c, j, F[j])
    /\ F[1].at = from + 1 /\ \A j \in 2..Len(F) : F[j].at = F[j - 1].last + 1

\* The stream consists of the frames of the commands.
FramesInv ==
    /\ stream \in Seq(Bytes) /\ sent \in Seq(Commands) /\ frames \in Seq(Seq(FrameType)) /\ Len(frames) = Len(sent)
    /\ \A k \in 1..Len(sent) : LaidOut(stream, sent[k], frames[k], End(k - 1))
    /\ \A k \in 1..Len(sent) : k < Len(sent) => InFull(k)
    /\ End(Len(sent)) = Len(stream)

LEMMA CommandBytes ==
    ASSUME NEW c \in Commands
    PROVE  Len(c) \in Nat /\ \A i \in 1..Len(c) : c[i] \in Seq(Bytes) /\ Len(c[i]) \in Nat
<1>1. c \in Seq(Seq(Bytes))
  BY FramesAssumption DEF Bytes
<1>2. Len(c) \in Nat /\ \A i \in 1..Len(c) : c[i] \in Seq(Bytes)
  BY <1>1, LenProperties, ElementOfSeq, Zenon
<1> QED BY <1>2, LenProperties

LEMMA BodyEnd ==
    ASSUME NEW r \in Nat, NEW n \in Nat, NEW m \in Nat, NEW l, l = r + n + 3, (r + 2) + n + 1 <= m
    PROVE  l \in Nat /\ r < l /\ l <= m
OBVIOUS

LEMMA EndsLater ==
    ASSUME NEW x \in Nat, NEW y \in Nat, NEW a \in Nat, NEW z \in Nat, x <= y, a = y + 1, a < z
    PROVE  x <= z
OBVIOUS

LEMMA FrameFacts ==
    ASSUME NEW b \in Seq(Bytes), NEW c \in Commands, NEW j \in 1..Len(c) + 1, NEW f \in FrameType, FrameOk(b, c, j, f)
    PROVE  /\ f.at \in Nat /\ f.cr \in Nat /\ f.last \in Nat
           /\ 1 <= f.at /\ f.at + 1 < f.cr /\ f.cr < f.last /\ f.last <= Len(b)
           /\ j # 1 => j - 1 \in 1..Len(c)
<1>1. f.at \in Nat /\ f.cr \in Nat /\ f.last \in Nat /\ Len(c) \in Nat /\ Len(b) \in Nat
  BY CommandBytes, LenProperties DEF FrameType
<1>2. CASE j = 1
  BY <1>1, <1>2 DEF FrameOk, HeaderAt
<1>3. CASE j # 1
  <2>1. j - 1 \in 1..Len(c)
    BY <1>1, <1>3
  <2>2. Len(c[j - 1]) \in Nat
    BY <2>1, CommandBytes
  <2>3. /\ 1 <= f.at /\ f.at + 1 < f.cr /\ f.last = f.cr + Len(c[j - 1]) + 3
        /\ (f.cr + 2) + Len(c[j - 1]) + 1 <= Len(b)
    BY <1>3, Zenon DEF FrameOk, HeaderAt, BodyAt
  <2>4. f.cr < f.last /\ f.last <= Len(b)
    BY <1>1, <2>2, <2>3, BodyEnd, Zenon
  <2> QED BY <1>1, <2>1, <2>3, <2>4, Zenon
<1> QED BY <1>2, <1>3

LEMMA FrameGrows ==
    ASSUME NEW b \in Seq(Bytes), NEW e \in Seq(Bytes), Extends(e, b), NEW c \in Commands, NEW j \in 1..Len(c) + 1,
           NEW f \in FrameType, FrameOk(b, c, j, f)
    PROVE  FrameOk(e, c, j, f)
<1>1. CASE j = 1
  BY <1>1, HeaderGrows, Zenon DEF FrameOk
<1>2. CASE j # 1
  <2>1. f.cr \in Nat /\ j - 1 \in 1..Len(c)
    BY <1>2, FrameFacts, Zenon
  <2>2. c[j - 1] \in Seq(Bytes)
    BY <2>1, CommandBytes, Zenon
  <2>3. f.cr + 2 \in Nat /\ 1 <= f.cr + 2
    BY <2>1
  <2>4. HeaderAt(b, DOLLAR, Len(c[j - 1]), f.at, f.cr) /\ BodyAt(b, c[j - 1], f.cr + 2) /\ f.last = f.cr + Len(c[j - 1]) + 3
    BY <1>2, Zenon DEF FrameOk
  <2>5. HeaderAt(e, DOLLAR, Len(c[j - 1]), f.at, f.cr)
    BY <2>4, HeaderGrows, Zenon
  <2>6. BodyAt(e, c[j - 1], f.cr + 2)
    BY <2>2, <2>3, <2>4, BodyGrows, Zenon
  <2> QED BY <1>2, <2>4, <2>5, <2>6, Zenon DEF FrameOk
<1> QED BY <1>1, <1>2

LEMMA LaidFrame ==
    ASSUME NEW b, NEW c \in Commands, NEW F, NEW from, LaidOut(b, c, F, from), NEW j \in 1..Len(F)
    PROVE  j \in 1..Len(c) + 1 /\ F[j] \in FrameType /\ FrameOk(b, c, j, F[j]) /\ Len(F) \in Nat
<1>1. Len(c) \in Nat /\ F \in Seq(FrameType) /\ Len(F) \in 1..Len(c) + 1
  BY CommandBytes DEF LaidOut
<1>2. F[j] \in FrameType
  BY <1>1, ElementOfSeq
<1>3. j \in 1..Len(c) + 1 /\ Len(F) \in Nat
  BY <1>1
<1> QED BY <1>2, <1>3, Zenon DEF LaidOut

LEMMA LaidGrows ==
    ASSUME NEW b \in Seq(Bytes), NEW e \in Seq(Bytes), Extends(e, b), NEW c \in Commands, NEW F, NEW from,
           LaidOut(b, c, F, from)
    PROVE  LaidOut(e, c, F, from)
<1>1. ASSUME NEW j \in 1..Len(F) PROVE FrameOk(e, c, j, F[j])
  <2>1. j \in 1..Len(c) + 1 /\ F[j] \in FrameType /\ FrameOk(b, c, j, F[j])
    BY LaidFrame, Zenon
  <2> QED BY <2>1, FrameGrows, Zenon
<1> QED BY <1>1, Zenon DEF LaidOut

\* Later frames end later.
LEMMA LaidOrder ==
    ASSUME NEW b \in Seq(Bytes), NEW c \in Commands, NEW F, NEW from, LaidOut(b, c, F, from),
           NEW i \in 1..Len(F), NEW j \in 1..Len(F), i <= j
    PROVE  F[i].last <= F[j].last
<1> DEFINE T == {k \in Nat : k \in i..Len(F) /\ ~(F[i].last <= F[k].last)}
<1>1. \A k \in 1..Len(F) : /\ F[k].at \in Nat /\ F[k].last \in Nat /\ F[k].at < F[k].last
  <2>1. ASSUME NEW k \in 1..Len(F) PROVE F[k].at \in Nat /\ F[k].last \in Nat /\ F[k].at < F[k].last
    <3>1. k \in 1..Len(c) + 1 /\ F[k] \in FrameType /\ FrameOk(b, c, k, F[k])
      BY LaidFrame, Zenon
    <3>2. F[k].at \in Nat /\ F[k].cr \in Nat /\ F[k].last \in Nat /\ F[k].at + 1 < F[k].cr /\ F[k].cr < F[k].last
      BY <3>1, FrameFacts, Zenon
    <3> QED BY <3>2
  <2> QED BY <2>1, Zenon
<1>2. Len(F) \in Nat /\ j \in i..Len(F) /\ j \in Nat
  BY LaidFrame
<1> SUFFICES ASSUME T # {} PROVE FALSE
  BY <1>2, Zenon
<1>3. PICK k \in T : \A l \in T : k <= l
  BY LeastNat, Zenon
<1>4. k # i
  BY <1>1, <1>3
<1>5. k \in 2..Len(F) /\ k - 1 \in i..Len(F) /\ k - 1 \in Nat /\ ~(k <= k - 1) /\ k \in 1..Len(F) /\ k - 1 \in 1..Len(F)
  BY <1>2, <1>3, <1>4
<1>6. F[i].last <= F[k - 1].last
  BY <1>3, <1>5, Zenon
<1>7. F[k].at = F[k - 1].last + 1
  BY <1>5, Zenon DEF LaidOut
<1>8. F[i].last <= F[k].last
  <2>1. F[i].last \in Nat /\ F[k - 1].last \in Nat /\ F[k].at \in Nat /\ F[k].last \in Nat /\ F[k].at < F[k].last
    BY <1>1, <1>5, Zenon
  <2> QED BY <1>6, <1>7, <2>1, EndsLater, Zenon
<1> QED BY <1>3, <1>8, Zenon

LEMMA LaidEnd ==
    ASSUME NEW b \in Seq(Bytes), NEW c \in Commands, NEW F, NEW from, LaidOut(b, c, F, from)
    PROVE  Len(F) \in Nat /\ Len(F) \in 1..Len(F) /\ F[Len(F)].last \in Nat /\ F[Len(F)].last <= Len(b)
<1>1. Len(F) \in 1..Len(c) + 1 /\ Len(c) \in Nat
  BY CommandBytes DEF LaidOut
<1>2. Len(F) \in Nat /\ Len(F) \in 1..Len(F)
  BY <1>1
<1>3. Len(F) \in 1..Len(c) + 1 /\ F[Len(F)] \in FrameType /\ FrameOk(b, c, Len(F), F[Len(F)])
  BY <1>2, LaidFrame, Zenon
<1> QED BY <1>2, <1>3, FrameFacts, Zenon

\* One more argument.
LEMMA LaidAppend ==
    ASSUME NEW b \in Seq(Bytes), NEW e \in Seq(Bytes), Extends(e, b), NEW c \in Commands, NEW F, NEW from,
           LaidOut(b, c, F, from), Len(F) <= Len(c), NEW f \in FrameType, FrameOk(e, c, Len(F) + 1, f),
           f.at = F[Len(F)].last + 1
    PROVE  LaidOut(e, c, Append(F, f), from)
<1> DEFINE G == Append(F, f)
           m == Len(F)
<1>1. F \in Seq(FrameType) /\ m \in 1..Len(c) + 1 /\ Len(c) \in Nat
  BY CommandBytes DEF LaidOut
<1>2. G \in Seq(FrameType) /\ Len(G) = m + 1 /\ G[m + 1] = f /\ \A j \in 1..m : G[j] = F[j]
  BY <1>1, AppendProperties
<1> HIDE DEF G
<1>3. /\ m + 1 \in 1..Len(c) + 1 /\ 1 \in 1..m /\ (\A j \in 1..m + 1 : j = m + 1 \/ j \in 1..m)
      /\ (m + 1) - 1 = m /\ m \in 1..m /\ \A j \in 2..m + 1 : j = m + 1 \/ (j \in 2..m /\ j \in 1..m /\ j - 1 \in 1..m)
  BY <1>1
<1>4. LaidOut(e, c, F, from)
  BY LaidGrows, Zenon
<1>5. \A j \in 1..m + 1 : FrameOk(e, c, j, G[j])
  BY <1>2, <1>3, <1>4, Zenon DEF LaidOut
<1>6. G[1].at = from + 1
  BY <1>2, <1>3, <1>4, Zenon DEF LaidOut
<1>7. \A j \in 2..m + 1 : G[j].at = G[j - 1].last + 1
  BY <1>2, <1>3, <1>4, Zenon DEF LaidOut
<1> QED BY <1>2, <1>3, <1>5, <1>6, <1>7, Zenon DEF LaidOut, G

\* What a write leaves as it was.
Grown ==
    /\ Len(sent) <= Len(sent') /\ Extends(stream', stream)
    /\ \A k \in 1..Len(sent) : /\ sent'[k] = sent[k] /\ Len(frames[k]) <= Len(frames'[k])
                               /\ \A j \in 1..Len(frames[k]) : frames'[k][j] = frames[k][j]
    /\ \A k \in 1..Len(sent) : InFull(k) => InFull(k)' /\ End(k)' = End(k)
    /\ \A k \in 1..Len(sent') : InFull(k)' /\ (k <= Len(sent) => ~InFull(k)) => End(k)' > Len(stream)

LEMMA FrameRecord ==
    ASSUME NEW d \in Seq(Digits), NEW s \in Nat, stream \in Seq(Bytes)
    PROVE  /\ Frame(d, s) \in FrameType /\ Frame(d, s).at = Len(stream) + 1 /\ Frame(d, s).cr = Len(stream) + Len(d) + 2
           /\ Frame(d, s).last = Len(stream) + Len(d) + 3 + s /\ Len(d) \in Nat /\ Len(stream) \in Nat
<1>1. Len(d) \in Nat /\ Len(stream) \in Nat
  BY LenProperties
<1> QED BY <1>1 DEF Frame, FrameType

LEMMA WriteArrayStep ==
    ASSUME FramesInv, NEW c \in Commands, NEW d \in DigitStrings, WriteArray(c, d)
    PROVE  FramesInv' /\ Grown
<1>0. PICK n : n = Len(sent)
  BY Zenon
<1> DEFINE f == Frame(d, 0)
<1>1. d \in Seq(Digits) /\ IsDecimal(d, Len(c)) /\ STAR \in Bytes /\ 0 \in Nat /\ 1 \in Nat
  BY FramesAssumption, Marks DEF WriteArray
<1>2. /\ stream \in Seq(Bytes) /\ sent \in Seq(Commands) /\ frames \in Seq(Seq(FrameType)) /\ Len(frames) = n /\ n \in Nat
      /\ \A k \in 1..n : LaidOut(stream, sent[k], frames[k], End(k - 1))
      /\ \A k \in 1..n : k < n => InFull(k)
      /\ End(n) = Len(stream)
  BY <1>0, LenProperties DEF FramesInv
<1>3. /\ stream' \in Seq(Bytes) /\ Extends(stream', stream) /\ Len(stream') = Len(stream) + Len(d) + 3
      /\ HeaderAt(stream', STAR, Len(c), Len(stream) + 1, Len(stream) + Len(d) + 2)
  BY <1>1, <1>2, HeaderWritten, Zenon DEF WriteArray
<1>4. /\ f \in FrameType /\ f.at = Len(stream) + 1 /\ f.cr = Len(stream) + Len(d) + 2
      /\ f.last = Len(stream) + Len(d) + 3 + 0 /\ Len(d) \in Nat /\ Len(stream) \in Nat
  BY <1>1, <1>2, FrameRecord, Zenon
<1>5. f.last = f.cr + 1 /\ f.last = Len(stream') /\ f.last > Len(stream)
  BY <1>3, <1>4
<1> HIDE DEF f
<1>6. sent' \in Seq(Commands) /\ Len(sent') = n + 1 /\ sent'[n + 1] = c /\ \A k \in 1..n : sent'[k] = sent[k]
  BY <1>0, <1>2, AppendProperties DEF WriteArray
<1>7. <<f>> \in Seq(FrameType) /\ Len(<<f>>) = 1 /\ <<f>>[1] = f
  BY <1>4
<1>8. /\ frames' \in Seq(Seq(FrameType)) /\ Len(frames') = n + 1 /\ frames'[n + 1] = <<f>>
      /\ \A k \in 1..n : frames'[k] = frames[k]
  <2>1. frames' = Append(frames, <<f>>)
    BY Zenon DEF WriteArray, f
  <2> QED BY <1>2, <1>7, <2>1, AppendProperties
<1>9. /\ n + 1 # 0 /\ n <= n + 1 /\ (n + 1) - 1 = n /\ n \in 0..n /\ (\A k \in 1..n + 1 : k = n + 1 \/ k \in 1..n)
      /\ (\A k \in 1..n : k # 0 /\ k \in 0..n /\ k - 1 \in 0..n /\ (k < n \/ k = n))
      /\ (\A k \in 0..n : k = 0 \/ k \in 1..n) /\ (\A k \in 1..n + 1 : k < n + 1 => k \in 1..n) /\ ~(n + 1 <= n)
      /\ \A k \in 1..n : k <= n
  BY <1>2
<1>10. \A k \in 0..n : End(k)' = End(k)
  BY <1>8, <1>9, Zenon DEF End
<1>11. \A k \in 1..n : InFull(k)' <=> InFull(k)
  BY <1>6, <1>8, Zenon DEF InFull
<1>12. \A k \in 1..n : InFull(k)
  <2>1. n \in 1..n => InFull(n)
    <3>1. sent # <<>> => InFull(n)
      BY <1>0, Zenon DEF WriteArray
    <3>2. n \in 1..n => sent # <<>>
      BY <1>0, <1>2, EmptySeq
    <3> QED BY <3>1, <3>2, Zenon
  <2> QED BY <1>2, <1>9, <2>1, Zenon
<1>13. End(n + 1)' = f.last
  BY <1>7, <1>8, <1>9, Zenon DEF End
<1>14. LaidOut(stream', c, <<f>>, End(n))
  <2>1. 1 \in 1..Len(c) + 1 /\ (\A j \in 1..1 : j = 1) /\ ~ \E j \in 2..1 : TRUE
    BY CommandBytes
  <2>2. FrameOk(stream', c, 1, f)
    BY <1>3, <1>4, <1>5, Zenon DEF FrameOk
  <2>3. \A j \in 1..1 : FrameOk(stream', c, j, <<f>>[j])
    BY <1>7, <2>1, <2>2, Zenon
  <2>4. <<f>>[1].at = End(n) + 1
    BY <1>2, <1>4, <1>7, Zenon
  <2> QED BY <1>7, <2>1, <2>3, <2>4, Zenon DEF LaidOut
<1>15. ASSUME NEW k \in 1..n PROVE LaidOut(stream', sent[k], frames[k], End(k - 1))
  <2>1. sent[k] \in Commands
    BY <1>0, <1>2, ElementOfSeq
  <2> QED BY <1>2, <1>3, <2>1, LaidGrows, Zenon
<1>16. FramesInv'
  <2>1. \A k \in 1..n + 1 : LaidOut(stream', sent'[k], frames'[k], End(k - 1)')
    BY <1>6, <1>8, <1>9, <1>10, <1>14, <1>15, Zenon
  <2>2. \A k \in 1..n + 1 : k < n + 1 => InFull(k)'
    BY <1>9, <1>11, <1>12, Zenon
  <2> QED BY <1>3, <1>5, <1>6, <1>8, <1>13, <2>1, <2>2, Zenon DEF FramesInv
<1>17. Grown
  <2>1. \A k \in 1..n : Len(frames[k]) <= Len(frames'[k])
    <3>1. ASSUME NEW k \in 1..n PROVE Len(frames[k]) <= Len(frames'[k])
      <4>1. sent[k] \in Commands
        BY <1>0, <1>2, ElementOfSeq
      <4>2. Len(frames[k]) \in Nat
        BY <1>2, <4>1, LaidEnd, Zenon
      <4>3. frames'[k] = frames[k]
        BY <1>8, Zenon
      <4> QED BY <4>2, <4>3
    <3> QED BY <3>1, Zenon
  <2>2. \A k \in 1..n + 1 : InFull(k)' /\ (k <= n => ~InFull(k)) => End(k)' > Len(stream)
    BY <1>5, <1>9, <1>12, <1>13, Zenon
  <2>3. \A k \in 1..n : InFull(k) => InFull(k)' /\ End(k)' = End(k)
    BY <1>9, <1>10, <1>11, Zenon
  <2> QED BY <1>0, <1>3, <1>6, <1>8, <1>9, <2>1, <2>2, <2>3, Zenon DEF Grown
<1> QED BY <1>16, <1>17

LEMMA WriteBulkStep ==
    ASSUME FramesInv, NEW d \in DigitStrings, WriteBulk(d)
    PROVE  FramesInv' /\ Grown
<1>0. PICK n : n = Len(sent)
  BY Zenon
<1>1. PICK m : m = Len(frames[n])
  BY Zenon
<1>2. PICK c : c = sent[n]
  BY Zenon
<1>3. PICK a : a = c[m]
  BY Zenon
<1>4. PICK f : f = Frame(d, Len(a) + 2)
  BY Zenon
<1>5. PICK b : b = stream \o Header(DOLLAR, d)
  BY Zenon
<1>6. /\ sent # <<>> /\ ~InFull(n) /\ IsDecimal(d, Len(a)) /\ stream' = b \o a \o CrLf
      /\ frames' = [frames EXCEPT ![n] = Append(frames[n], f)] /\ sent' = sent
  BY <1>0, <1>1, <1>2, <1>3, <1>4, <1>5, Zenon DEF WriteBulk
<1>7. /\ stream \in Seq(Bytes) /\ sent \in Seq(Commands) /\ frames \in Seq(Seq(FrameType)) /\ Len(frames) = n /\ n \in Nat
      /\ \A k \in 1..n : LaidOut(stream, sent[k], frames[k], End(k - 1))
      /\ \A k \in 1..n : k < n => InFull(k)
      /\ End(n) = Len(stream)
  BY <1>0, LenProperties DEF FramesInv
<1>8. n \in 1..n /\ n # 0
  BY <1>0, <1>6, <1>7, EmptySeq
<1>9. \A k \in 1..n : sent[k] \in Commands
  BY <1>0, <1>7, ElementOfSeq
<1>10. LaidOut(stream, c, frames[n], End(n - 1)) /\ c \in Commands /\ frames[n] \in Seq(FrameType)
  BY <1>2, <1>7, <1>8, <1>9, ElementOfSeq, Zenon
<1>11. m \in 1..Len(c) + 1 /\ m # Len(c) + 1 /\ Len(c) \in Nat
  BY <1>1, <1>2, <1>6, <1>10, CommandBytes, Zenon DEF LaidOut, InFull
<1>12. m \in 1..Len(c) /\ m <= Len(c) /\ m + 1 # 1 /\ (m + 1) - 1 = m /\ m \in Nat
  BY <1>11
<1>13. a \in Seq(Bytes) /\ Len(a) \in Nat
  BY <1>3, <1>10, <1>12, CommandBytes, Zenon
<1>14. d \in Seq(Digits) /\ DOLLAR \in Bytes
  BY FramesAssumption, Marks
<1>15. /\ b \in Seq(Bytes) /\ Extends(b, stream) /\ Len(b) = Len(stream) + Len(d) + 3 /\ Len(d) \in Nat
       /\ HeaderAt(b, DOLLAR, Len(a), Len(stream) + 1, Len(stream) + Len(d) + 2)
  BY <1>5, <1>6, <1>7, <1>14, HeaderWritten, Zenon
<1>16. /\ stream' \in Seq(Bytes) /\ Extends(stream', b) /\ Len(stream') = Len(b) + Len(a) + 2
       /\ BodyAt(stream', a, Len(b) + 1)
  BY <1>6, <1>13, <1>15, BodyWritten, Zenon
<1>17. Extends(stream', stream)
  BY <1>7, <1>15, <1>16, ExtendsTransitive, Zenon
<1>18. Len(stream) \in Nat /\ Len(a) + 2 \in Nat
  BY <1>7, <1>13, LenProperties
<1>19. /\ f \in FrameType /\ f.at = Len(stream) + 1 /\ f.cr = Len(stream) + Len(d) + 2
       /\ f.last = Len(stream) + Len(d) + 3 + (Len(a) + 2)
  BY <1>4, <1>7, <1>14, <1>18, FrameRecord, Zenon
<1>20. /\ f.last = f.cr + Len(a) + 3 /\ f.cr + 2 = Len(b) + 1 /\ f.last = Len(b) + Len(a) + 2 /\ f.last > Len(stream)
  <2>1. PICK s, l, k, e : s = Len(stream) /\ l = Len(d) /\ k = Len(a) /\ e = Len(b)
    BY Zenon
  <2>2. PICK cr, last : cr = f.cr /\ last = f.last
    BY Zenon
  <2>3. s \in Nat /\ l \in Nat /\ k \in Nat /\ cr = s + l + 2 /\ last = s + l + 3 + (k + 2) /\ e = s + l + 3
    BY <1>13, <1>15, <1>18, <1>19, <2>1, <2>2, Zenon
  <2>4. last = cr + k + 3 /\ cr + 2 = e + 1 /\ last = e + k + 2 /\ last > s
    BY <2>3
  <2> QED BY <2>1, <2>2, <2>4, Zenon
<1>21. FrameOk(stream', c, m + 1, f)
  <2>1. HeaderAt(stream', DOLLAR, Len(a), f.at, f.cr)
    BY <1>15, <1>16, <1>19, HeaderGrows, Zenon
  <2>2. BodyAt(stream', a, f.cr + 2)
    BY <1>16, <1>20, Zenon
  <2> QED BY <1>3, <1>12, <1>20, <2>1, <2>2, Zenon DEF FrameOk
<1>22. frames[n][m].last = Len(stream)
  BY <1>1, <1>7, <1>8, Zenon DEF End
<1>23. LaidOut(stream', c, Append(frames[n], f), End(n - 1))
  BY <1>1, <1>7, <1>10, <1>12, <1>16, <1>17, <1>19, <1>21, <1>22, LaidAppend, Zenon
<1>24. /\ Append(frames[n], f) \in Seq(FrameType) /\ Len(Append(frames[n], f)) = m + 1
       /\ Append(frames[n], f)[m + 1] = f /\ \A j \in 1..m : Append(frames[n], f)[j] = frames[n][j]
  BY <1>1, <1>10, <1>19, AppendProperties, SMTT(30)
<1>25. /\ frames' \in Seq(Seq(FrameType)) /\ Len(frames') = n /\ frames'[n] = Append(frames[n], f)
       /\ \A k \in 1..n : k # n => frames'[k] = frames[k]
  BY <1>6, <1>7, <1>8, <1>24, ExceptSeq, SMTT(30)
<1>26. /\ (\A k \in 1..n : k - 1 \in 0..n /\ k - 1 # n /\ k <= n /\ (k # n => k < n) /\ (k < n => k # n))
       /\ (\A k \in 0..n : k = 0 \/ k \in 1..n) /\ m <= m + 1
  BY <1>7, <1>12
<1>27. \A k \in 0..n : k # n => End(k)' = End(k)
  BY <1>25, <1>26, Zenon DEF End
<1>28. \A k \in 1..n : k # n => (InFull(k)' <=> InFull(k))
  BY <1>6, <1>25, Zenon DEF InFull
<1>29. End(n)' = f.last
  BY <1>8, <1>24, <1>25, Zenon DEF End
<1>30. ASSUME NEW k \in 1..n, k # n PROVE LaidOut(stream', sent[k], frames[k], End(k - 1))
  BY <1>7, <1>9, <1>16, <1>17, LaidGrows, Zenon
<1>31. FramesInv'
  <2>1. \A k \in 1..n : LaidOut(stream', sent'[k], frames'[k], End(k - 1)')
    BY <1>2, <1>6, <1>23, <1>25, <1>26, <1>27, <1>30, Zenon
  <2>2. \A k \in 1..n : k < n => InFull(k)'
    BY <1>7, <1>26, <1>28, Zenon
  <2>3. End(n)' = Len(stream')
    BY <1>16, <1>20, <1>29, Zenon
  <2> QED BY <1>0, <1>6, <1>7, <1>16, <1>25, <2>1, <2>2, <2>3, Zenon DEF FramesInv
<1>32. Grown
  <2>1. ASSUME NEW k \in 1..n
        PROVE  Len(frames[k]) <= Len(frames'[k]) /\ \A j \in 1..Len(frames[k]) : frames'[k][j] = frames[k][j]
    <3>1. CASE k = n
      <4>1. frames[k] = frames[n] /\ frames'[k] = Append(frames[n], f)
        BY <1>25, <3>1, Zenon
      <4>2. Len(frames[k]) = m /\ Len(frames'[k]) = m + 1
        BY <1>1, <1>24, <4>1, Zenon
      <4> QED BY <1>24, <1>26, <4>1, <4>2, Zenon
    <3>2. CASE k # n
      <4>1. frames'[k] = frames[k]
        BY <1>25, <3>2, Zenon
      <4>2. Len(frames[k]) \in Nat
        BY <1>7, <1>9, LaidEnd, Zenon
      <4>3. Len(frames[k]) <= Len(frames[k])
        BY <4>2
      <4> QED BY <4>1, <4>3, Zenon
    <3> QED BY <3>1, <3>2
  <2>2. \A k \in 1..n : InFull(k) => InFull(k)' /\ End(k)' = End(k)
    <3>1. \A k \in 1..n : k \in 0..n
      BY <1>7
    <3> QED BY <1>6, <1>27, <1>28, <3>1, Zenon
  <2>3. \A k \in 1..n : InFull(k)' /\ (k <= n => ~InFull(k)) => End(k)' > Len(stream)
    BY <1>20, <1>26, <1>28, <1>29, Zenon
  <2>4. n <= n
    BY <1>7
  <2> QED BY <1>0, <1>6, <1>17, <2>1, <2>2, <2>3, <2>4, Zenon DEF Grown
<1> QED BY <1>31, <1>32

LEMMA FramesBegin == FramesInit => FramesInv
<1> SUFFICES ASSUME FramesInit PROVE FramesInv
  OBVIOUS
<1>1. stream = <<>> /\ sent = <<>> /\ frames = <<>> /\ Len(<<>>) = 0 /\ ~ \E k \in 1..0 : TRUE
  BY DEF FramesInit
<1>2. <<>> \in Seq(Bytes) /\ <<>> \in Seq(Commands) /\ <<>> \in Seq(Seq(FrameType))
  BY EmptySeq
<1> QED BY <1>1, <1>2, Zenon DEF FramesInv, End

LEMMA WriteStep == FramesInv /\ WriteFrame => FramesInv' /\ Grown
BY WriteArrayStep, WriteBulkStep, Zenon DEF WriteFrame

----------------------------------------------------------------------------
(* The parser *)

ParserTyped ==
    /\ arrived \in Nat /\ base \in Nat /\ arrived <= Len(stream) /\ delivered \in Seq(Seq(Seq(Bytes)))
    /\ result \in Seq(Seq(Bytes)) /\ num \in Int
    /\ state \in {"try", "array", "args", "bulk", "payload", "wait", "refused"}

\* The commands delivered so far are the first ones sent, and their bytes are consumed.
CaughtUp(n) ==
    /\ n <= Len(sent) /\ \A k \in 1..n : InFull(k) /\ delivered[k] = sent[k]
    /\ base = End(n) /\ base <= arrived

\* Among the digits of the header of f, up to its CR.
InNumber(b, at, cr, o, v) == o \in at + 1..cr /\ v = Prefixes(b, at, 0)[o - 1]
InHeader(f) == InNumber(stream, f.at, f.cr, offset, num)

\* In the command k, with the first r arguments read.
InCommand(k, r) ==
    /\ k <= Len(sent) /\ r < Len(frames[k]) /\ left = Len(sent[k]) - r
    /\ \A i \in 1..r : result[i] = sent[k][i]

InArgs(k, r) == InCommand(k, r) /\ offset = frames[k][r + 1].last + 1 /\ offset <= arrived + 1
InBulk(k, r) == InCommand(k, r) /\ r + 2 <= Len(frames[k]) /\ InHeader(frames[k][r + 2])
InPayload(k, r) ==
    InCommand(k, r) /\ r + 2 <= Len(frames[k]) /\ offset = frames[k][r + 2].cr + 2 /\ num = Len(sent[k][r + 1])

\* The command k is not there in full; it has not arrived in full.
Beyond(k, h) == k <= Len(sent) /\ InFull(k) => End(k) > h
Outstanding(k) == Beyond(k, arrived)

\* Where the parser is in the command k.
Position(k, r) ==
    /\ state = "array" => k <= Len(sent) /\ InHeader(frames[k][1])
    /\ state = "args" => InArgs(k, r)
    /\ state = "bulk" => InBulk(k, r)
    /\ state = "payload" => InPayload(k, r)
    /\ state = "wait" => Outstanding(k)
    /\ state = "refused" => Buffered > MaxBuffer

ParserInv == ParserTyped /\ CaughtUp(Len(delivered)) /\ Position(Len(delivered) + 1, Len(result))

\* What the byte at o, between the mark of a header and its CR, may be.
NextByte(b, at, cr, n, o, v) ==
    /\ o # cr => /\ b[o] \in Digits /\ b[o] # CR /\ v * 10 + Digit(b[o]) \in Int /\ v * 10 + Digit(b[o]) <= n
                 /\ InNumber(b, at, cr, o + 1, v * 10 + Digit(b[o]))
    /\ o = cr => b[o] = CR /\ b[o + 1] = LF /\ v = n

LEMMA HeaderByte ==
    ASSUME NEW b \in Seq(Bytes), NEW mark, NEW n \in Nat, NEW at, NEW cr, HeaderAt(b, mark, n, at, cr),
           NEW o, NEW v, InNumber(b, at, cr, o, v)
    PROVE  NextByte(b, at, cr, n, o, v)
<1>0. o \in at + 1..cr /\ v = Prefixes(b, at, 0)[o - 1]
  BY DEF InNumber
<1> DEFINE m == Prefixes(b, at, 0)
           x == v * 10 + Digit(b[o])
<1>1. /\ at \in Nat /\ cr \in Nat /\ 1 <= at /\ at + 1 < cr /\ cr + 1 <= Len(b) /\ b[cr] = CR /\ b[cr + 1] = LF
      /\ (\A i \in at + 1..cr - 1 : b[i] \in Digits) /\ m[cr - 1] = n
  BY DEF HeaderAt
<1>2. Len(b) \in Nat /\ 0 \in Int
  BY LenProperties
<1>3. ArePrefixes(m, b, at, 0)
  BY <1>1, <1>2, PrefixesDef, Zenon
<1> HIDE DEF m
<1>4. ASSUME o # cr
      PROVE  b[o] \in Digits /\ b[o] # CR /\ x \in Int /\ x <= n /\ x = m[(o + 1) - 1] /\ o + 1 \in at + 1..cr
  <2>1. /\ o \in at + 1..cr - 1 /\ o + 1 \in at + 1..cr /\ o \in 1..Len(b) /\ o - 1 \in 0..Len(b) /\ o \in 0..Len(b)
        /\ ~(o <= at) /\ (o + 1) - 1 = o /\ cr - 1 \in at..Len(b) /\ o \in at..cr - 1
        /\ \A i \in o + 1..cr - 1 : i \in at + 1..cr - 1
    BY <1>0, <1>1, <1>2, <1>4
  <2>2. b[o] \in Digits
    BY <1>1, <2>1, Zenon
  <2>3. b[o] # CR
    BY <2>2, SMTT(30) DEF Digits, CR
  <2>4. v = m[o - 1]
    BY <1>0, Zenon DEF m
  <2>5. m[o] = x /\ m[o] \in Int
    BY <1>3, <2>1, <2>4, Zenon DEF ArePrefixes, NextValue
  <2>6. ~(m[o] > n)
    <3> SUFFICES ASSUME m[o] > n PROVE FALSE
      OBVIOUS
    <3>1. \A i \in o + 1..cr - 1 : b[i] \in Digits
      BY <1>1, <2>1, Zenon
    <3>2. m[cr - 1] > n
      <4> DEFINE h == cr - 1
      <4>1. h \in at..Len(b) /\ o \in at..h /\ \A i \in o + 1..h : b[i] \in Digits
        BY <2>1, <3>1, SMTT(30)
      <4> HIDE DEF h
      <4>2. m[h] > n
        BY <1>1, <4>1, PrefixesGrow, SMTT(30) DEF m
      <4> QED BY <4>2, Zenon DEF h
    <3> QED BY <1>1, <3>2
  <2>7. x \in Int /\ x <= n
    BY <2>5, <2>6
  <2> QED BY <2>1, <2>2, <2>3, <2>5, <2>7, Zenon
<1>5. o = cr => b[o] = CR /\ b[o + 1] = LF /\ v = n
  BY <1>0, <1>1, Zenon DEF m
<1> QED BY <1>4, <1>5, Zenon DEF m, InNumber, NextByte

LEMMA Layout ==
    ASSUME FramesInv, NEW k \in 1..Len(sent)
    PROVE  /\ sent[k] \in Commands /\ LaidOut(stream, sent[k], frames[k], End(k - 1)) /\ stream \in Seq(Bytes)
           /\ Len(sent) \in Nat /\ Len(stream) \in Nat /\ k # 0
<1>1. sent \in Seq(Commands) /\ Len(sent) \in Nat /\ Len(stream) \in Nat /\ stream \in Seq(Bytes)
  BY LenProperties DEF FramesInv
<1>2. sent[k] \in Commands
  BY <1>1, ElementOfSeq
<1>3. k # 0
  BY <1>1
<1> QED BY <1>1, <1>2, <1>3, Zenon DEF FramesInv

LEMMA EndType ==
    ASSUME FramesInv, NEW n \in 0..Len(sent)
    PROVE  End(n) \in Nat /\ End(n) <= Len(stream) /\ Len(stream) \in Nat /\ Len(sent) \in Nat
<1>1. Len(sent) \in Nat /\ Len(stream) \in Nat
  BY LenProperties DEF FramesInv
<1>2. CASE n = 0
  BY <1>1, <1>2 DEF End
<1>3. CASE n # 0
  <2>1. n \in 1..Len(sent)
    BY <1>1, <1>3
  <2>2. frames[n][Len(frames[n])].last \in Nat /\ frames[n][Len(frames[n])].last <= Len(stream)
    BY <2>1, Layout, LaidEnd, Zenon
  <2> QED BY <1>1, <1>3, <2>2, Zenon DEF End
<1> QED BY <1>2, <1>3

\* Bytes behind a command belong to the next one.
LEMMA CommandAhead ==
    ASSUME FramesInv, NEW n \in 0..Len(sent), Len(stream) > End(n)
    PROVE  n + 1 \in 1..Len(sent) /\ frames[n + 1][1].at = End(n) + 1
<1>1. End(n) \in Nat /\ Len(stream) \in Nat /\ Len(sent) \in Nat
  BY EndType
<1>2. n # Len(sent)
  <2>1. End(Len(sent)) = Len(stream)
    BY DEF FramesInv
  <2> QED BY <1>1, <2>1
<1>3. n + 1 \in 1..Len(sent) /\ (n + 1) - 1 = n
  BY <1>1, <1>2
<1>4. LaidOut(stream, sent[n + 1], frames[n + 1], End((n + 1) - 1))
  BY <1>3, Layout, Zenon
<1> QED BY <1>3, <1>4, Zenon DEF LaidOut

\* Bytes behind a frame of a command that has arguments left belong to the next argument.
LEMMA FrameAhead ==
    ASSUME FramesInv, NEW k \in 1..Len(sent), NEW j \in 1..Len(frames[k]), j <= Len(sent[k]),
           Len(stream) > frames[k][j].last
    PROVE  j + 1 \in 1..Len(frames[k]) /\ frames[k][j + 1].at = frames[k][j].last + 1
<1>1. /\ sent[k] \in Commands /\ LaidOut(stream, sent[k], frames[k], End(k - 1)) /\ stream \in Seq(Bytes)
      /\ Len(sent) \in Nat /\ Len(stream) \in Nat /\ k # 0
  BY Layout
<1>2. Len(frames[k]) \in Nat /\ Len(sent[k]) \in Nat
  BY <1>1, LaidEnd, CommandBytes, Zenon
<1>3. j # Len(frames[k])
  <2> SUFFICES ASSUME j = Len(frames[k]) PROVE FALSE
    OBVIOUS
  <2>1. ~InFull(k)
    BY <1>2 DEF InFull
  <2>2. ~(k < Len(sent))
    BY <2>1, Zenon DEF FramesInv
  <2>3. k = Len(sent)
    BY <1>1, <2>2
  <2>4. frames[k][j].last = Len(stream)
    BY <1>1, <2>3, Zenon DEF FramesInv, End
  <2> QED BY <1>1, <2>4
<1>4. j + 1 \in 1..Len(frames[k]) /\ j + 1 \in 2..Len(frames[k]) /\ (j + 1) - 1 = j
  BY <1>2, <1>3
<1>5. frames[k][j + 1].at = frames[k][(j + 1) - 1].last + 1
  BY <1>1, <1>4, Zenon DEF LaidOut
<1> QED BY <1>4, <1>5, Zenon

\* A command is not there in full when one of its frames is not.
LEMMA NotYet ==
    ASSUME FramesInv, NEW h \in Nat, NEW k \in 1..Len(sent), NEW j \in 1..Len(frames[k]), frames[k][j].last > h
    PROVE  Beyond(k, h)
<1>1. /\ sent[k] \in Commands /\ LaidOut(stream, sent[k], frames[k], End(k - 1)) /\ stream \in Seq(Bytes) /\ k # 0
  BY Layout
<1>2. Len(frames[k]) \in 1..Len(frames[k]) /\ Len(frames[k]) \in Nat /\ frames[k][Len(frames[k])].last \in Nat
  BY <1>1, LaidEnd, Zenon
<1>3. j <= Len(frames[k])
  BY <1>2
<1>4. frames[k][j].last <= End(k)
  BY <1>1, <1>2, <1>3, LaidOrder, Zenon DEF End
<1>5. frames[k][j].last \in Nat /\ End(k) \in Nat
  <2>1. j \in 1..Len(sent[k]) + 1 /\ frames[k][j] \in FrameType /\ FrameOk(stream, sent[k], j, frames[k][j])
    BY <1>1, LaidFrame, Zenon
  <2>2. frames[k][j].last \in Nat
    BY <1>1, <2>1, FrameFacts, Zenon
  <2> QED BY <1>1, <1>2, <2>2, Zenon DEF End
<1>6. End(k) > h
  BY <1>4, <1>5
<1> QED BY <1>6, Zenon DEF Beyond

\* The number in the header j of the command c.
SizeOf(c, j) == IF j = 1 THEN Len(c) ELSE Len(c[j - 1])
MarkOf(j) == IF j = 1 THEN STAR ELSE DOLLAR

LEMMA FrameHeader ==
    ASSUME FramesInv, NEW k \in 1..Len(sent), NEW j \in 1..Len(frames[k])
    PROVE  LET f == frames[k][j]
               c == sent[k]
           IN /\ HeaderAt(stream, MarkOf(j), SizeOf(c, j), f.at, f.cr) /\ SizeOf(c, j) \in Nat /\ stream \in Seq(Bytes)
              /\ f.at \in Nat /\ f.cr \in Nat /\ f.last \in Nat
              /\ 1 <= f.at /\ f.at + 1 < f.cr /\ f.cr < f.last /\ f.last <= Len(stream) /\ Len(stream) \in Nat
              /\ c \in Commands /\ j \in 1..Len(c) + 1 /\ Len(c) \in Nat /\ Len(frames[k]) \in 1..Len(c) + 1
              /\ FrameOk(stream, c, j, f)
<1> DEFINE f == frames[k][j]
           c == sent[k]
<1>1. c \in Commands /\ LaidOut(stream, c, frames[k], End(k - 1)) /\ stream \in Seq(Bytes) /\ Len(stream) \in Nat
  BY Layout
<1>2. j \in 1..Len(c) + 1 /\ f \in FrameType /\ FrameOk(stream, c, j, f)
  BY <1>1, LaidFrame, Zenon
<1>3. /\ f.at \in Nat /\ f.cr \in Nat /\ f.last \in Nat /\ 1 <= f.at /\ f.at + 1 < f.cr /\ f.cr < f.last /\ f.last <= Len(stream)
      /\ j # 1 => j - 1 \in 1..Len(c)
  BY <1>1, <1>2, FrameFacts, Zenon
<1>4. SizeOf(c, j) \in Nat /\ Len(c) \in Nat
  BY <1>1, <1>3, CommandBytes, Zenon DEF SizeOf
<1>5. HeaderAt(stream, MarkOf(j), SizeOf(c, j), f.at, f.cr)
  BY <1>2, Zenon DEF FrameOk, SizeOf, MarkOf
<1>6. Len(frames[k]) \in 1..Len(c) + 1
  BY <1>1, Zenon DEF LaidOut
<1> QED BY <1>1, <1>2, <1>3, <1>4, <1>5, <1>6, Zenon

LEMMA HeaderStart ==
    ASSUME NEW b \in Seq(Bytes), NEW mark, NEW n, NEW at, NEW cr, HeaderAt(b, mark, n, at, cr)
    PROVE  b[at] = mark /\ InNumber(b, at, cr, at + 1, 0)
<1>1. at \in Nat /\ cr \in Nat /\ 1 <= at /\ at + 1 < cr /\ cr + 1 <= Len(b) /\ b[at] = mark
  BY DEF HeaderAt
<1>2. Len(b) \in Nat /\ 0 \in Int
  BY LenProperties
<1>3. at + 1 \in at + 1..cr /\ (at + 1) - 1 = at /\ at \in 1..Len(b) /\ at <= at
  BY <1>1, <1>2
<1>4. ArePrefixes(Prefixes(b, at, 0), b, at, 0)
  BY <1>1, <1>2, PrefixesDef, Zenon
<1>5. Prefixes(b, at, 0)[at] = 0
  BY <1>3, <1>4, Zenon DEF ArePrefixes, NextValue
<1> QED BY <1>1, <1>3, <1>5, Zenon DEF InNumber

\* A sequence and what it is with one more element.
Longer(s, e, t) == Len(t) = Len(s) + 1 /\ t[Len(s) + 1] = e /\ \A i \in 1..Len(s) : t[i] = s[i]

LEMMA Appended ==
    ASSUME NEW S, NEW s \in Seq(S), NEW e \in S
    PROVE  Append(s, e) \in Seq(S) /\ Longer(s, e, Append(s, e))
  BY AppendProperties DEF Longer

LEMMA BodyRead ==
    ASSUME NEW b \in Seq(Bytes), NEW a \in Seq(Bytes), NEW from \in Nat, 1 <= from, BodyAt(b, a, from)
    PROVE  SubSeq(b, from, from + Len(a) - 1) = a
<1> DEFINE n == Len(a)
           h == from + n - 1
           s == SubSeq(b, from, h)
<1>1. n \in Nat /\ Len(b) \in Nat /\ from + n + 1 <= Len(b)
  BY LenProperties DEF BodyAt
<1>2. CASE n = 0
  <2>1. a = <<>>
    BY <1>2, EmptySeq
  <2>2. from > h /\ from \in Int /\ h \in Int
    BY <1>1, <1>2
  <2> HIDE DEF h
  <2>3. s = <<>>
    BY <2>2, SubSeqEmpty
  <2> QED BY <2>1, <2>3, Zenon DEF h
<1>3. CASE n # 0
  <2>1. from \in 1..Len(b) + 1 /\ h \in from - 1..Len(b) /\ h - from + 1 = n /\ \A i \in 1..n : from + i - 1 \in 1..Len(b)
    BY <1>1, <1>3
  <2> HIDE DEF h
  <2>2. s \in Seq(Bytes) /\ Len(s) = n /\ \A i \in 1..n : s[i] = b[from + i - 1]
    <3>1. s \in Seq(Bytes) /\ Len(s) = (IF from <= h THEN h - from + 1 ELSE 0) /\ \A i \in 1..h - from + 1 : s[i] = b[from + i - 1]
      BY <2>1, SubSeqProperties
    <3>2. from <= h
      BY <1>1, <1>3 DEF h
    <3> QED BY <2>1, <3>1, <3>2, Zenon
  <2> HIDE DEF s
  <2>3. \A i \in 1..n : s[i] = a[i]
    BY <2>2, Zenon DEF BodyAt
  <2>4. s = a
    BY <2>2, <2>3, SeqEqual
  <2> QED BY <2>4, Zenon DEF s, h
<1> QED BY <1>2, <1>3

LEMMA ParserFacts ==
    ASSUME FramesInv, ParserInv
    PROVE  /\ Len(delivered) \in 0..Len(sent) /\ Len(result) \in Nat /\ Len(sent) \in Nat /\ Len(stream) \in Nat
           /\ Len(delivered) + 1 \in Nat /\ 1 <= Len(delivered) + 1 /\ (Len(delivered) + 1) - 1 = Len(delivered)
           /\ Len(delivered) + 1 <= Len(sent) => Len(delivered) + 1 \in 1..Len(sent)
<1>1. Len(delivered) \in Nat /\ Len(result) \in Nat /\ Len(sent) \in Nat /\ Len(stream) \in Nat /\ Len(delivered) <= Len(sent)
  BY LenProperties DEF ParserInv, ParserTyped, CaughtUp, FramesInv
<1> QED BY <1>1

\* try_parse waits for bytes of the next command.
LEMMA Waits ==
    ASSUME ParserInv, UNCHANGED framesVars, Leave("wait"), Outstanding(Len(delivered) + 1)
    PROVE  ParserInv'
<1>1. /\ stream' = stream /\ sent' = sent /\ frames' = frames /\ state' = "wait" /\ arrived' = arrived /\ base' = base
      /\ delivered' = delivered /\ offset' = offset /\ num' = num /\ left' = left /\ result' = result
  BY DEF framesVars, Leave
<1>2. PICK n : n = Len(delivered)
  BY Zenon
<1>3. ParserTyped'
  BY <1>1 DEF ParserInv, ParserTyped
<1>4. CaughtUp(n)'
  BY <1>1, <1>2, Zenon DEF ParserInv, CaughtUp, InFull, End
<1>5. Outstanding(n + 1)'
  BY <1>1, <1>2, ZenonT(60) DEF Outstanding, Beyond, InFull, End
<1>6. \A r : Position(n + 1, r)'
  BY <1>1, <1>5 DEF Position
<1> QED BY <1>1, <1>2, <1>3, <1>4, <1>6, Zenon DEF ParserInv

\* A step inside a command.
LEMMA Proceeds ==
    ASSUME ParserInv, UNCHANGED framesVars, UNCHANGED <<arrived, base, delivered>>, result' \in Seq(Seq(Bytes)), num' \in Int,
           state' \in {"array", "args", "bulk", "payload"}, Position(Len(delivered) + 1, Len(result))'
    PROVE  ParserInv'
<1>1. /\ stream' = stream /\ sent' = sent /\ frames' = frames /\ arrived' = arrived /\ base' = base /\ delivered' = delivered
  BY DEF framesVars
<1>2. PICK n : n = Len(delivered)
  BY Zenon
<1>3. ParserTyped'
  BY <1>1 DEF ParserInv, ParserTyped
<1>4. CaughtUp(n)'
  BY <1>1, <1>2, Zenon DEF ParserInv, CaughtUp, InFull, End
<1> QED BY <1>1, <1>2, <1>3, <1>4, Zenon DEF ParserInv

LEMMA TryParseStep ==
    ASSUME FramesInv, ParserInv, UNCHANGED framesVars, TryParse
    PROVE  ParserInv'
<1>0. PICK n, k : n = Len(delivered) /\ k = n + 1
  BY Zenon
<1>1. /\ n \in 0..Len(sent) /\ Len(sent) \in Nat /\ Len(stream) \in Nat /\ k \in Nat /\ k - 1 = n
      /\ k <= Len(sent) => k \in 1..Len(sent)
  BY <1>0, ParserFacts
<1>2. base = End(n) /\ arrived \in Nat /\ base \in Nat /\ arrived <= Len(stream) /\ MinBuffer \in 1..4
  BY <1>0, RespAssumption DEF ParserInv, ParserTyped, CaughtUp
<1>3. ASSUME k \in 1..Len(sent)
      PROVE  /\ 1 \in 1..Len(frames[k]) /\ frames[k][1].at = base + 1 /\ frames[k][1].last \in Nat
             /\ frames[k][1].last > base + 3 /\ HeaderAt(stream, STAR, Len(sent[k]), frames[k][1].at, frames[k][1].cr)
             /\ stream \in Seq(Bytes)
  <2>1. LaidOut(stream, sent[k], frames[k], End(k - 1)) /\ sent[k] \in Commands /\ stream \in Seq(Bytes)
    BY <1>3, Layout
  <2>2. Len(frames[k]) \in 1..Len(frames[k]) /\ Len(frames[k]) \in Nat
    BY <2>1, LaidEnd, Zenon
  <2>3. 1 \in 1..Len(frames[k])
    BY <2>2
  <2>4. frames[k][1].at = base + 1
    BY <1>1, <1>2, <2>1, Zenon DEF LaidOut
  <2>5. /\ HeaderAt(stream, MarkOf(1), SizeOf(sent[k], 1), frames[k][1].at, frames[k][1].cr)
        /\ frames[k][1].cr \in Nat /\ frames[k][1].last \in Nat /\ frames[k][1].at \in Nat
        /\ frames[k][1].at + 1 < frames[k][1].cr /\ frames[k][1].cr < frames[k][1].last
    BY <1>3, <2>3, FrameHeader, Zenon
  <2>6. frames[k][1].last > base + 3
    <3>1. \A a, c, l \in Nat : a = base + 1 /\ a + 1 < c /\ c < l => l > base + 3
      BY <1>2, SMTT(30)
    <3> QED BY <2>4, <2>5, <3>1, Zenon
  <2> QED BY <2>1, <2>3, <2>4, <2>5, <2>6, Zenon DEF MarkOf, SizeOf
<1>4. CASE Buffered < MinBuffer
  <2>1. arrived <= base + 3
    BY <1>2, <1>4 DEF Buffered
  <2>2. Outstanding(k)
    <3>1. CASE k <= Len(sent)
      <4>1. frames[k][1].last > arrived
        <5>1. \A l \in Nat : l > base + 3 => l > arrived
          BY <1>2, <2>1
        <5> QED BY <1>1, <1>3, <3>1, <5>1, Zenon
      <4> QED BY <1>1, <1>2, <1>3, <3>1, <4>1, NotYet, Zenon DEF Outstanding
    <3>2. CASE ~(k <= Len(sent))
      BY <3>2, Zenon DEF Outstanding, Beyond
    <3> QED BY <3>1, <3>2
  <2>3. Leave("wait")
    BY <1>4, Zenon DEF TryParse
  <2> QED BY <1>0, <2>2, <2>3, Waits, Zenon
<1>5. CASE ~(Buffered < MinBuffer)
  <2>1. Len(stream) > End(n)
    BY <1>1, <1>2, <1>5 DEF Buffered
  <2>2. k \in 1..Len(sent)
    BY <1>0, <1>1, <2>1, CommandAhead, Zenon
  <2>3. PICK f : f = frames[k][1]
    BY Zenon
  <2>4. f.at = base + 1 /\ HeaderAt(stream, STAR, Len(sent[k]), f.at, f.cr) /\ stream \in Seq(Bytes)
    BY <1>3, <2>2, <2>3, Zenon
  <2>5. stream[f.at] = STAR /\ InNumber(stream, f.at, f.cr, f.at + 1, 0)
    BY <2>4, HeaderStart, Zenon
  <2>6. /\ state' = "array" /\ offset' = base + 2 /\ num' = 0
        /\ UNCHANGED <<arrived, base, delivered, left, result>>
    BY <1>5, <2>4, <2>5, Zenon DEF TryParse
  <2>7. offset' = f.at + 1
    BY <1>2, <2>4, <2>6, SMTT(30)
  <2>8. stream' = stream /\ sent' = sent /\ frames' = frames
    BY DEF framesVars
  <2>9. InHeader(f)'
    BY <2>5, <2>6, <2>7, <2>8, Zenon DEF InHeader
  <2>10. k <= Len(sent')
    BY <1>1, <2>2, <2>8
  <2>11. InHeader(frames[k][1])'
    BY <2>3, <2>8, <2>9, Zenon DEF InHeader
  <2>12. \A r : Position(k, r)'
    BY <2>6, <2>10, <2>11, SMTT(30) DEF Position
  <2>13. result' \in Seq(Seq(Bytes)) /\ num' \in Int /\ state' \in {"array", "args", "bulk", "payload"} /\ delivered' = delivered
    BY <2>6 DEF ParserInv, ParserTyped
  <2>14. Position(Len(delivered) + 1, Len(result))'
    BY <1>0, <2>12, <2>13, ZenonT(60)
  <2> QED BY <2>6, <2>13, <2>14, Proceeds, Zenon
<1> QED BY <1>4, <1>5

LEMMA NumberRound ==
    ASSUME FramesInv, arrived \in Nat, NEW k \in 1..Len(sent), NEW j \in 1..Len(frames[k]), InHeader(frames[k][j]),
           NEW p, NEW max \in Nat, SizeOf(sent[k], j) <= max, NumberByte(p, max), UNCHANGED framesVars
    PROVE  \/ Leave("wait") /\ Outstanding(k)
           \/ InHeader(frames[k][j])' /\ num' \in Int /\ UNCHANGED <<arrived, base, delivered, state, left, result>>
<1>0. PICK f : f = frames[k][j]
  BY Zenon
<1>1. PICK s : s = SizeOf(sent[k], j)
  BY Zenon
<1>2. /\ HeaderAt(stream, MarkOf(j), s, f.at, f.cr) /\ s \in Nat /\ stream \in Seq(Bytes) /\ f.cr \in Nat /\ f.last \in Nat
      /\ f.cr < f.last /\ f.at \in Nat
  BY <1>0, <1>1, FrameHeader, Zenon
<1>3. InNumber(stream, f.at, f.cr, offset, num) /\ offset \in f.at + 1..f.cr
  BY <1>0, Zenon DEF InHeader, InNumber
<1>4. /\ offset # f.cr => /\ stream[offset] \in Digits /\ stream[offset] # CR /\ num * 10 + Digit(stream[offset]) \in Int
                          /\ num * 10 + Digit(stream[offset]) <= s
                          /\ InNumber(stream, f.at, f.cr, offset + 1, num * 10 + Digit(stream[offset]))
      /\ offset = f.cr => stream[offset] = CR
  <2>1. NextByte(stream, f.at, f.cr, s, offset, num)
    BY <1>2, <1>3, HeaderByte, Zenon
  <2> QED BY <2>1, Zenon DEF NextByte
<1>5. CASE offset > arrived
  <2>1. f.last > arrived
    <3>1. PICK at, cr, l : at = f.at /\ cr = f.cr /\ l = f.last
      BY Zenon
    <3>2. at \in Nat /\ cr \in Nat /\ l \in Nat /\ cr < l /\ offset \in at + 1..cr
      BY <1>2, <1>3, <3>1, ZenonT(60)
    <3>3. l > arrived
      BY <1>5, <3>2
    <3> QED BY <3>1, <3>3, SMTT(30)
  <2>2. Outstanding(k)
    BY <1>0, <2>1, NotYet, Zenon DEF Outstanding
  <2> QED BY <1>5, <2>2, Zenon DEF NumberByte
<1>6. CASE ~(offset > arrived)
  <2>1. offset <= arrived
    BY <1>2, <1>3, <1>6, SMTT(30)
  <2>2. offset # f.cr
    BY <1>4, <2>1, Zenon DEF NumberByte
  <2>3. ~(num * 10 + Digit(stream[offset]) > max)
    <3>1. \A x \in Int : x <= s => ~(x > max)
      BY <1>1, <1>2
    <3> QED BY <1>4, <2>2, <3>1, ZenonT(60)
  <2>4. /\ num' = num * 10 + Digit(stream[offset]) /\ offset' = offset + 1
        /\ UNCHANGED <<arrived, base, delivered, state, left, result>>
    BY <1>4, <1>6, <2>2, <2>3, Zenon DEF NumberByte
  <2>5. stream' = stream /\ frames' = frames
    BY DEF framesVars
  <2>6. InHeader(frames[k][j])'
    BY <1>0, <1>4, <2>2, <2>4, <2>5, Zenon DEF InHeader
  <2> QED BY <1>4, <2>2, <2>4, <2>6, ZenonT(60)
<1> QED BY <1>5, <1>6

\* At the CR of a header, the number is complete.
LEMMA HeaderRead ==
    ASSUME FramesInv, arrived \in Nat, NEW k \in 1..Len(sent), NEW j \in 1..Len(frames[k]), InHeader(frames[k][j]),
           offset <= arrived, stream[offset] = CR
    PROVE  /\ offset = frames[k][j].cr /\ num = SizeOf(sent[k], j) /\ offset \in Nat /\ num \in Nat
           /\ ~LineFeed => Outstanding(k)
<1>0. PICK f : f = frames[k][j]
  BY Zenon
<1>1. PICK s : s = SizeOf(sent[k], j)
  BY Zenon
<1>2. /\ HeaderAt(stream, MarkOf(j), s, f.at, f.cr) /\ s \in Nat /\ stream \in Seq(Bytes) /\ f.cr \in Nat /\ f.last \in Nat
      /\ f.cr < f.last /\ f.at \in Nat
  BY <1>0, <1>1, FrameHeader, Zenon
<1>3. InNumber(stream, f.at, f.cr, offset, num) /\ offset \in f.at + 1..f.cr
  BY <1>0, Zenon DEF InHeader, InNumber
<1>4. (offset # f.cr => stream[offset] # CR) /\ (offset = f.cr => stream[offset + 1] = LF /\ num = s)
  <2>1. NextByte(stream, f.at, f.cr, s, offset, num)
    BY <1>2, <1>3, HeaderByte, Zenon
  <2> QED BY <2>1, Zenon DEF NextByte
<1>5. offset = f.cr /\ num = s /\ stream[offset + 1] = LF
  BY <1>4, Zenon
<1>6. ASSUME ~LineFeed PROVE Outstanding(k)
  <2>1. ~(offset + 1 <= arrived)
    BY <1>5, <1>6, Zenon DEF LineFeed
  <2>2. f.last > arrived
    <3>1. \A l \in Nat : f.cr < l => l > arrived
      BY <1>2, <1>5, <2>1, SMTT(30)
    <3> QED BY <1>2, <3>1, ZenonT(60)
  <2> QED BY <1>0, <2>2, NotYet, Zenon DEF Outstanding
<1> QED BY <1>0, <1>1, <1>2, <1>5, <1>6, Zenon

LEMMA SizesBounded ==
    ASSUME NEW c \in Commands, NEW j \in 1..Len(c) + 1
    PROVE  /\ MaxArray \in Nat /\ MaxString \in Nat
           /\ j = 1 => SizeOf(c, j) <= MaxArray
           /\ j # 1 => SizeOf(c, j) <= MaxString
<1>1. Len(c) \in Nat
  BY CommandBytes
<1>2. j # 1 => j - 1 \in 1..Len(c)
  BY <1>1
<1> QED BY <1>2, RespAssumption, Zenon DEF SizeOf

LEMMA InArrayFacts ==
    ASSUME FramesInv, ParserInv, state = "array"
    PROVE  LET k == Len(delivered) + 1
           IN k \in 1..Len(sent) /\ 1 \in 1..Len(frames[k]) /\ InHeader(frames[k][1]) /\ arrived \in Nat
<1>1. PICK k : k = Len(delivered) + 1
  BY Zenon
<1>2. k <= Len(sent) /\ InHeader(frames[k][1]) /\ arrived \in Nat
  BY <1>1 DEF ParserInv, Position, ParserTyped
<1>3. k \in 1..Len(sent)
  BY <1>1, <1>2, ParserFacts, Zenon
<1>4. Len(frames[k]) \in Nat /\ Len(frames[k]) \in 1..Len(frames[k])
  BY <1>3, Layout, LaidEnd, Zenon
<1>5. 1 \in 1..Len(frames[k])
  BY <1>4, SMTT(30)
<1> QED BY <1>1, <1>2, <1>3, <1>5, Zenon

LEMMA ArrayByteStep ==
    ASSUME FramesInv, ParserInv, UNCHANGED framesVars, NumberByte("array", MaxArray)
    PROVE  ParserInv'
<1>0. state = "array"
  BY DEF NumberByte
<1>1. PICK k : k = Len(delivered) + 1
  BY Zenon
<1>2. k \in 1..Len(sent) /\ 1 \in 1..Len(frames[k]) /\ InHeader(frames[k][1]) /\ arrived \in Nat
  BY <1>0, <1>1, InArrayFacts, Zenon
<1>3. sent[k] \in Commands /\ 1 \in 1..Len(sent[k]) + 1
  BY <1>2, FrameHeader, Zenon
<1>4. MaxArray \in Nat /\ SizeOf(sent[k], 1) <= MaxArray
  BY <1>3, SizesBounded, Zenon
<1>5. \/ Leave("wait") /\ Outstanding(k)
      \/ InHeader(frames[k][1])' /\ num' \in Int /\ UNCHANGED <<arrived, base, delivered, state, left, result>>
  BY <1>2, <1>4, NumberRound, SMTT(30)
<1>6. CASE Leave("wait") /\ Outstanding(k)
  BY <1>1, <1>6, Waits, Zenon
<1>7. CASE InHeader(frames[k][1])' /\ num' \in Int /\ UNCHANGED <<arrived, base, delivered, state, left, result>>
  <2>1. sent' = sent /\ state' = "array" /\ delivered' = delivered /\ result' = result
    BY <1>0, <1>7, SMTT(30) DEF framesVars
  <2>2. k <= Len(sent)
    BY <1>2, ParserFacts, SMTT(30)
  <2>3. \A r : Position(k, r)'
    BY <1>7, <2>1, <2>2, SMTT(30) DEF Position
  <2>4. Position(Len(delivered) + 1, Len(result))'
    BY <1>1, <2>1, <2>3, Zenon
  <2>5. result' \in Seq(Seq(Bytes)) /\ state' \in {"array", "args", "bulk", "payload"}
    BY <2>1 DEF ParserInv, ParserTyped
  <2> QED BY <1>7, <2>4, <2>5, Proceeds, Zenon
<1> QED BY <1>5, <1>6, <1>7, Zenon

LEMMA ArrayHeaderStep ==
    ASSUME FramesInv, ParserInv, UNCHANGED framesVars, ArrayHeader
    PROVE  ParserInv'
<1>0. state = "array" /\ offset <= arrived /\ stream[offset] = CR
  BY DEF ArrayHeader, Ends
<1>1. PICK k : k = Len(delivered) + 1
  BY Zenon
<1>2. k \in 1..Len(sent) /\ 1 \in 1..Len(frames[k]) /\ InHeader(frames[k][1]) /\ arrived \in Nat
  BY <1>0, <1>1, InArrayFacts, Zenon
<1>3. /\ offset = frames[k][1].cr /\ num = SizeOf(sent[k], 1) /\ offset \in Nat /\ num \in Nat
      /\ ~LineFeed => Outstanding(k)
  BY <1>0, <1>2, HeaderRead
<1>4. CASE ~LineFeed
  BY <1>1, <1>3, <1>4, Waits, Zenon DEF ArrayHeader
<1>5. CASE LineFeed
  <2>1. /\ state' = "args" /\ offset' = offset + 2 /\ left' = num /\ result' = <<>>
        /\ UNCHANGED <<arrived, base, delivered, num>>
    BY <1>5, Zenon DEF ArrayHeader
  <2>2. stream' = stream /\ sent' = sent /\ frames' = frames
    BY DEF framesVars
  <2>3. FrameOk(stream, sent[k], 1, frames[k][1]) /\ Len(sent[k]) \in Nat /\ Len(frames[k]) \in 1..Len(sent[k]) + 1
    BY <1>2, FrameHeader, Zenon
  <2>4. frames[k][1].last = offset + 1
    BY <1>3, <2>3, Zenon DEF FrameOk
  <2>5. offset + 1 <= arrived
    BY <1>5 DEF LineFeed
  <2>6. InCommand(k, 0)'
    <3>1. k <= Len(sent) /\ 0 < Len(frames[k]) /\ num = Len(sent[k]) - 0 /\ ~ \E i \in 1..0 : TRUE
      BY <1>2, <1>3, <2>3, ParserFacts, SMTT(30) DEF SizeOf
    <3> QED BY <2>1, <2>2, <3>1, ZenonT(60) DEF InCommand
  <2>7. InArgs(k, 0)'
    <3>1. 0 + 1 = 1 /\ offset + 2 = (offset + 1) + 1 /\ (offset + 1) + 1 <= arrived + 1
      <4>1. offset \in Nat /\ arrived \in Nat
        BY <1>2, <1>3, Zenon
      <4> QED BY <2>5, <4>1
    <3> QED BY <2>1, <2>2, <2>4, <2>6, <3>1, Zenon DEF InArgs
  <2>8. Position(k, 0)'
    BY <2>1, <2>7 DEF Position
  <2>9. Len(<<>>) = 0 /\ <<>> \in Seq(Seq(Bytes))
    BY EmptySeq
  <2>10. Position(Len(delivered) + 1, Len(result))'
    BY <1>1, <2>1, <2>8, <2>9, Zenon
  <2>11. result' \in Seq(Seq(Bytes)) /\ num' \in Int /\ state' \in {"array", "args", "bulk", "payload"}
    BY <2>1, <2>9 DEF ParserInv, ParserTyped
  <2> QED BY <2>1, <2>10, <2>11, Proceeds, Zenon
<1> QED BY <1>4, <1>5, SMTT(30)

LEMMA InCommandFacts ==
    ASSUME FramesInv, ParserInv, NEW k, NEW r, k = Len(delivered) + 1, r = Len(result), InCommand(k, r)
    PROVE  /\ k \in 1..Len(sent) /\ k <= Len(sent) /\ r \in Nat /\ r + 1 \in 1..Len(frames[k]) /\ r <= Len(sent[k])
           /\ Len(sent[k]) \in Nat /\ sent[k] \in Commands /\ Len(frames[k]) \in 1..Len(sent[k]) + 1 /\ arrived \in Nat
           /\ (r + 2 <= Len(frames[k]) => r + 2 \in 1..Len(frames[k])) /\ r + 2 # 1 /\ (r + 2) - 1 = r + 1
           /\ left = Len(sent[k]) - r /\ (r + 1) + 1 = r + 2
<1>1. k <= Len(sent) /\ r < Len(frames[k]) /\ left = Len(sent[k]) - r /\ arrived \in Nat
  BY DEF InCommand, ParserInv, ParserTyped
<1>2. k \in 1..Len(sent) /\ r \in Nat
  BY <1>1, ParserFacts, Zenon
<1>3. sent[k] \in Commands /\ LaidOut(stream, sent[k], frames[k], End(k - 1))
  BY <1>2, Layout, Zenon
<1>4. Len(sent[k]) \in Nat /\ Len(frames[k]) \in 1..Len(sent[k]) + 1
  BY <1>3, CommandBytes, Zenon DEF LaidOut
<1>5. /\ r + 1 \in 1..Len(frames[k]) /\ r <= Len(sent[k]) /\ (r + 2 <= Len(frames[k]) => r + 2 \in 1..Len(frames[k]))
      /\ r + 2 # 1 /\ (r + 2) - 1 = r + 1 /\ (r + 1) + 1 = r + 2
  BY <1>1, <1>2, <1>4
<1> QED BY <1>1, <1>2, <1>3, <1>4, <1>5, Zenon

\* The command does not end before its next argument has arrived.
LEMMA NotYetNext ==
    ASSUME FramesInv, NEW h \in Nat, NEW k \in 1..Len(sent), NEW j \in 1..Len(frames[k]), j <= Len(sent[k]),
           frames[k][j].last >= h
    PROVE  Beyond(k, h)
<1> SUFFICES ASSUME InFull(k) PROVE Beyond(k, h)
  BY DEF Beyond
<1>1. /\ sent[k] \in Commands /\ Len(sent[k]) \in Nat /\ Len(frames[k]) \in 1..Len(sent[k]) + 1 /\ frames[k][j].last \in Nat
      /\ LaidOut(stream, sent[k], frames[k], End(k - 1))
  BY FrameHeader, Layout, Zenon
<1>2. j + 1 \in 1..Len(frames[k]) /\ j + 1 \in 2..Len(frames[k]) /\ (j + 1) - 1 = j
  BY <1>1, SMTT(30) DEF InFull
<1>3. frames[k][j + 1].at = frames[k][j].last + 1
  <2>1. frames[k][j + 1].at = frames[k][(j + 1) - 1].last + 1
    BY <1>1, <1>2, Zenon DEF LaidOut
  <2> QED BY <1>2, <2>1, Zenon
<1>4. /\ frames[k][j + 1].at \in Nat /\ frames[k][j + 1].cr \in Nat /\ frames[k][j + 1].last \in Nat
      /\ frames[k][j + 1].at + 1 < frames[k][j + 1].cr /\ frames[k][j + 1].cr < frames[k][j + 1].last
  BY <1>2, FrameHeader, Zenon
<1>5. frames[k][j + 1].last > h
  <2>1. \A x, a, c, l \in Nat : x >= h /\ a = x + 1 /\ a + 1 < c /\ c < l => l > h
    OBVIOUS
  <2> QED BY <1>1, <1>3, <1>4, <2>1, Zenon
<1> QED BY <1>2, <1>5, NotYet, Zenon

LEMMA BulkByteStep ==
    ASSUME FramesInv, ParserInv, UNCHANGED framesVars, NumberByte("bulk", MaxString)
    PROVE  ParserInv'
<1>0. state = "bulk"
  BY DEF NumberByte
<1>1. PICK k, r : k = Len(delivered) + 1 /\ r = Len(result)
  BY Zenon
<1>2. InCommand(k, r) /\ r + 2 <= Len(frames[k]) /\ InHeader(frames[k][r + 2])
  BY <1>0, <1>1, Zenon DEF ParserInv, Position, InBulk
<1>3. /\ k \in 1..Len(sent) /\ k <= Len(sent) /\ r + 2 \in 1..Len(frames[k]) /\ r + 2 # 1 /\ arrived \in Nat
  BY <1>1, <1>2, InCommandFacts, Zenon
<1>4. sent[k] \in Commands /\ r + 2 \in 1..Len(sent[k]) + 1
  BY <1>3, FrameHeader, Zenon
<1>5. MaxString \in Nat /\ SizeOf(sent[k], r + 2) <= MaxString
  BY <1>3, <1>4, SizesBounded, Zenon
<1>6. \/ Leave("wait") /\ Outstanding(k)
      \/ InHeader(frames[k][r + 2])' /\ num' \in Int /\ UNCHANGED <<arrived, base, delivered, state, left, result>>
  <2>1. PICK j : j = r + 2
    BY Zenon
  <2>2. /\ j \in 1..Len(frames[k]) /\ InHeader(frames[k][j]) /\ SizeOf(sent[k], j) <= MaxString
    BY <1>2, <1>3, <1>5, <2>1, Zenon
  <2>3. \/ Leave("wait") /\ Outstanding(k)
        \/ InHeader(frames[k][j])' /\ num' \in Int /\ UNCHANGED <<arrived, base, delivered, state, left, result>>
    BY <1>3, <1>5, <2>2, NumberRound
  <2> QED BY <2>1, <2>3, Zenon
<1>7. CASE Leave("wait") /\ Outstanding(k)
  BY <1>1, <1>7, Waits, Zenon
<1>8. CASE InHeader(frames[k][r + 2])' /\ num' \in Int /\ UNCHANGED <<arrived, base, delivered, state, left, result>>
  <2>1. sent' = sent /\ frames' = frames /\ state' = "bulk" /\ delivered' = delivered /\ result' = result /\ left' = left
    BY <1>0, <1>8 DEF framesVars
  <2>2. InCommand(k, r)'
    BY <1>2, <2>1, Zenon DEF InCommand
  <2>3. InBulk(k, r)'
    BY <1>2, <1>8, <2>1, <2>2, Zenon DEF InBulk
  <2>4. Position(k, r)'
    BY <2>1, <2>3 DEF Position
  <2>5. Position(Len(delivered) + 1, Len(result))'
    BY <1>1, <2>1, <2>4, Zenon
  <2>6. result' \in Seq(Seq(Bytes)) /\ state' \in {"array", "args", "bulk", "payload"}
    BY <2>1 DEF ParserInv, ParserTyped
  <2> QED BY <1>8, <2>5, <2>6, Proceeds, Zenon
<1> QED BY <1>6, <1>7, <1>8, SMTT(30)

LEMMA BulkHeaderStep ==
    ASSUME FramesInv, ParserInv, UNCHANGED framesVars, BulkHeader
    PROVE  ParserInv'
<1>0. state = "bulk" /\ offset <= arrived /\ stream[offset] = CR
  BY DEF BulkHeader, Ends
<1>1. PICK k, r : k = Len(delivered) + 1 /\ r = Len(result)
  BY Zenon
<1>2. InCommand(k, r) /\ r + 2 <= Len(frames[k]) /\ InHeader(frames[k][r + 2])
  BY <1>0, <1>1, Zenon DEF ParserInv, Position, InBulk
<1>3. k \in 1..Len(sent) /\ r + 2 \in 1..Len(frames[k]) /\ r + 2 # 1 /\ arrived \in Nat /\ (r + 2) - 1 = r + 1
  BY <1>1, <1>2, InCommandFacts, Zenon
<1>4. /\ offset = frames[k][r + 2].cr /\ num = SizeOf(sent[k], r + 2) /\ num \in Nat /\ (~LineFeed => Outstanding(k))
  BY <1>0, <1>2, <1>3, HeaderRead, Zenon
<1>5. CASE ~LineFeed
  BY <1>1, <1>4, <1>5, Waits, Zenon DEF BulkHeader
<1>6. CASE LineFeed
  <2>1. /\ state' = "payload" /\ offset' = offset + 2 /\ UNCHANGED <<arrived, base, delivered, num, left, result>>
    BY <1>6, Zenon DEF BulkHeader
  <2>2. stream' = stream /\ sent' = sent /\ frames' = frames
    BY DEF framesVars
  <2>3. InCommand(k, r)'
    BY <1>2, <2>1, <2>2, Zenon DEF InCommand
  <2>4. num = Len(sent[k][r + 1])
    BY <1>3, <1>4, Zenon DEF SizeOf
  <2>5. InPayload(k, r)'
    BY <1>2, <1>4, <2>1, <2>2, <2>3, <2>4, Zenon DEF InPayload
  <2>6. Position(k, r)'
    BY <2>1, <2>5 DEF Position
  <2>7. Position(Len(delivered) + 1, Len(result))'
    BY <1>1, <2>1, <2>6, Zenon
  <2>8. result' \in Seq(Seq(Bytes)) /\ num' \in Int /\ state' \in {"array", "args", "bulk", "payload"}
    BY <2>1 DEF ParserInv, ParserTyped
  <2> QED BY <2>1, <2>7, <2>8, Proceeds, Zenon
<1> QED BY <1>5, <1>6

LEMMA ArgumentStep ==
    ASSUME FramesInv, ParserInv, UNCHANGED framesVars, Argument
    PROVE  ParserInv'
<1>0. state = "args" /\ left > 0
  BY DEF Argument
<1>1. PICK k, r : k = Len(delivered) + 1 /\ r = Len(result)
  BY Zenon
<1>2. InCommand(k, r) /\ offset = frames[k][r + 1].last + 1 /\ offset <= arrived + 1
  BY <1>0, <1>1, Zenon DEF ParserInv, Position, InArgs
<1>3. /\ k \in 1..Len(sent) /\ r + 1 \in 1..Len(frames[k]) /\ r <= Len(sent[k]) /\ Len(sent[k]) \in Nat /\ r \in Nat
      /\ arrived \in Nat /\ left = Len(sent[k]) - r /\ (r + 1) + 1 = r + 2 /\ r + 2 # 1
  BY <1>1, <1>2, InCommandFacts, Zenon
<1>4. r + 1 <= Len(sent[k])
  BY <1>0, <1>3
<1>5. PICK e : e = frames[k][r + 1].last
  BY Zenon
<1>6. e \in Nat /\ offset = e + 1 /\ Len(stream) \in Nat /\ arrived <= Len(stream) /\ stream \in Seq(Bytes)
  <2>1. e \in Nat /\ Len(stream) \in Nat /\ stream \in Seq(Bytes)
    BY <1>3, <1>5, FrameHeader, Zenon
  <2> QED BY <1>2, <1>5, <2>1, Zenon DEF ParserInv, ParserTyped
<1>7. CASE offset > arrived
  <2>1. e >= arrived
    BY <1>3, <1>6, <1>7
  <2>2. Outstanding(k)
    BY <1>3, <1>4, <1>5, <2>1, NotYetNext, Zenon DEF Outstanding
  <2> QED BY <1>1, <1>7, <2>2, Waits, Zenon DEF Argument
<1>8. CASE ~(offset > arrived)
  <2>1. Len(stream) > e
    BY <1>3, <1>6, <1>8
  <2>2. r + 2 \in 1..Len(frames[k]) /\ frames[k][r + 2].at = e + 1
    <3>1. PICK j : j = r + 1
      BY Zenon
    <3>2. j \in 1..Len(frames[k]) /\ j <= Len(sent[k]) /\ Len(stream) > frames[k][j].last /\ j + 1 = r + 2
      BY <1>3, <1>4, <1>5, <2>1, <3>1, Zenon
    <3>3. j + 1 \in 1..Len(frames[k]) /\ frames[k][j + 1].at = frames[k][j].last + 1
      BY <1>3, <3>2, FrameAhead, Zenon
    <3> QED BY <1>5, <3>1, <3>2, <3>3, Zenon
  <2>3. PICK f : f = frames[k][r + 2]
    BY Zenon
  <2>4. HeaderAt(stream, DOLLAR, SizeOf(sent[k], r + 2), f.at, f.cr)
    BY <1>3, <2>2, <2>3, FrameHeader, Zenon DEF MarkOf
  <2>5. stream[f.at] = DOLLAR /\ InNumber(stream, f.at, f.cr, f.at + 1, 0) /\ f.at = offset
    <3>1. stream \in Seq(Bytes)
      BY <1>6
    <3>2. stream[f.at] = DOLLAR /\ InNumber(stream, f.at, f.cr, f.at + 1, 0)
      BY <2>4, <3>1, HeaderStart, Zenon
    <3>3. f.at = offset
      BY <1>6, <2>2, <2>3, Zenon
    <3> QED BY <3>2, <3>3
  <2>6. state' = "bulk" /\ offset' = offset + 1 /\ num' = 0 /\ UNCHANGED <<arrived, base, delivered, left, result>>
    BY <1>8, <2>5, Zenon DEF Argument
  <2>7. stream' = stream /\ sent' = sent /\ frames' = frames
    BY DEF framesVars
  <2>8. InCommand(k, r)'
    BY <1>2, <2>6, <2>7, Zenon DEF InCommand
  <2>9. InHeader(frames[k][r + 2])'
    BY <2>3, <2>5, <2>6, <2>7, ZenonT(60) DEF InHeader
  <2>10. r + 2 <= Len(frames[k])
    <3>1. Len(frames[k]) \in Nat
      BY <1>3, Layout, LaidEnd, Zenon
    <3> QED BY <2>2, <3>1
  <2>11. InBulk(k, r)'
    BY <2>7, <2>8, <2>9, <2>10, ZenonT(60) DEF InBulk
  <2>12. Position(k, r)'
    BY <2>6, <2>11 DEF Position
  <2>13. Position(Len(delivered) + 1, Len(result))'
    BY <1>1, <2>6, <2>12, Zenon
  <2>14. result' \in Seq(Seq(Bytes)) /\ num' \in Int /\ state' \in {"array", "args", "bulk", "payload"}
    BY <2>6 DEF ParserInv, ParserTyped
  <2> QED BY <2>6, <2>13, <2>14, Proceeds, Zenon
<1> QED BY <1>7, <1>8

LEMMA PayloadStep ==
    ASSUME FramesInv, ParserInv, UNCHANGED framesVars, Payload
    PROVE  ParserInv'
<1>0. state = "payload"
  BY DEF Payload
<1>1. PICK k, r : k = Len(delivered) + 1 /\ r = Len(result)
  BY Zenon
<1>2. InCommand(k, r) /\ r + 2 <= Len(frames[k]) /\ offset = frames[k][r + 2].cr + 2 /\ num = Len(sent[k][r + 1])
  BY <1>0, <1>1, Zenon DEF ParserInv, Position, InPayload
<1>3. /\ k \in 1..Len(sent) /\ k <= Len(sent) /\ r + 2 \in 1..Len(frames[k]) /\ r + 2 # 1 /\ arrived \in Nat /\ (r + 2) - 1 = r + 1
      /\ r \in Nat /\ left = Len(sent[k]) - r /\ Len(sent[k]) \in Nat /\ Len(frames[k]) \in 1..Len(sent[k]) + 1
      /\ sent[k] \in Commands /\ (r + 1) + 1 = r + 2
  BY <1>1, <1>2, InCommandFacts, Zenon
<1>4. PICK f, a : f = frames[k][r + 2] /\ a = sent[k][r + 1]
  BY Zenon
<1>5. FrameOk(stream, sent[k], r + 2, f) /\ stream \in Seq(Bytes) /\ f.cr \in Nat /\ f.last \in Nat
  BY <1>3, <1>4, FrameHeader, Zenon
<1>6. BodyAt(stream, a, f.cr + 2) /\ f.last = f.cr + Len(a) + 3
  BY <1>3, <1>4, <1>5, Zenon DEF FrameOk
<1>7. a \in Seq(Bytes) /\ Len(a) \in Nat
  <2>1. r + 1 \in 1..Len(sent[k])
    BY <1>2, <1>3
  <2> QED BY <1>3, <1>4, <2>1, CommandBytes, Zenon
<1>8. offset \in Nat /\ 1 <= offset /\ num \in Nat /\ f.last = offset + num + 1 /\ num = Len(a) /\ offset = f.cr + 2
  <2>1. PICK c, n, l : c = f.cr /\ n = Len(a) /\ l = f.last
    BY Zenon
  <2>2. c \in Nat /\ n \in Nat /\ l = c + n + 3 /\ offset = c + 2 /\ num = n
    BY <1>2, <1>4, <1>5, <1>6, <1>7, <2>1, Zenon
  <2>3. offset \in Nat /\ 1 <= offset /\ num \in Nat /\ l = offset + num + 1
    BY <2>2
  <2> QED BY <2>1, <2>2, <2>3, Zenon
<1>9. CASE ~Complete
  <2>1. offset + num + 1 > arrived
    BY <1>3, <1>8, <1>9, SMTT(30) DEF Complete
  <2>2. Outstanding(k)
    BY <1>3, <1>4, <1>8, <2>1, NotYet, Zenon DEF Outstanding
  <2> QED BY <1>1, <1>9, <2>2, Waits, Zenon DEF Payload
<1>10. CASE Complete
  <2>1. SubSeq(stream, offset, offset + num - 1) = a
    <3>1. BodyAt(stream, a, offset)
      BY <1>6, <1>8, Zenon
    <3>2. SubSeq(stream, offset, offset + Len(a) - 1) = a
      BY <1>5, <1>7, <1>8, <3>1, BodyRead, Zenon
    <3> QED BY <1>8, <3>2, Zenon
  <2>2. /\ state' = "args" /\ offset' = offset + num + 2 /\ left' = left - 1 /\ result' = Append(result, a)
        /\ UNCHANGED <<arrived, base, delivered, num>>
    BY <1>10, <2>1, Zenon DEF Payload
  <2>3. stream' = stream /\ sent' = sent /\ frames' = frames
    BY DEF framesVars
  <2>4. result \in Seq(Seq(Bytes))
    BY DEF ParserInv, ParserTyped
  <2>5. /\ result' \in Seq(Seq(Bytes)) /\ Len(result') = r + 1 /\ result'[r + 1] = a /\ \A i \in 1..r : result'[i] = result[i]
    <3>1. Append(result, a) \in Seq(Seq(Bytes)) /\ Longer(result, a, Append(result, a))
      BY <1>7, <2>4, Appended, Zenon
    <3> QED BY <1>1, <2>2, <3>1, Zenon DEF Longer
  <2>6. InCommand(k, r + 1)'
    <3>1. r + 1 < Len(frames[k]) /\ left - 1 = Len(sent[k]) - (r + 1) /\ \A i \in 1..r + 1 : i = r + 1 \/ i \in 1..r
      BY <1>2, <1>3
    <3>2. \A i \in 1..r : result[i] = sent[k][i]
      BY <1>2, Zenon DEF InCommand
    <3>3. \A i \in 1..r + 1 : result'[i] = sent[k][i]
      BY <1>4, <2>5, <3>1, <3>2, Zenon
    <3> QED BY <1>3, <2>2, <2>3, <3>1, <3>3, Zenon DEF InCommand
  <2>7. InArgs(k, r + 1)'
    <3>1. offset + num + 2 = (offset + num + 1) + 1 /\ (offset + num + 1) + 1 <= arrived + 1
      <4>1. offset \in Nat /\ num \in Nat /\ arrived \in Nat /\ offset + num + 1 <= arrived
        BY <1>3, <1>8, <1>10, Zenon DEF Complete
      <4> QED BY <4>1
    <3>2. frames[k][(r + 1) + 1].last = offset + num + 1
      BY <1>3, <1>4, <1>8, Zenon
    <3> QED BY <2>2, <2>3, <2>6, <3>1, <3>2, Zenon DEF InArgs
  <2>8. Position(k, r + 1)'
    BY <2>2, <2>7 DEF Position
  <2>9. Position(Len(delivered) + 1, Len(result))'
    BY <1>1, <2>2, <2>5, <2>8, Zenon
  <2>10. num' \in Int /\ state' \in {"array", "args", "bulk", "payload"}
    BY <2>2 DEF ParserInv, ParserTyped
  <2> QED BY <2>2, <2>5, <2>9, <2>10, Proceeds, Zenon
<1> QED BY <1>9, <1>10

LEMMA DeliverStep ==
    ASSUME FramesInv, ParserInv, UNCHANGED framesVars, Deliver
    PROVE  ParserInv'
<1>0. /\ state = "args" /\ left = 0 /\ delivered' = Append(delivered, result) /\ base' = offset - 1 /\ state' = "try"
      /\ arrived' = arrived /\ num' = num /\ result' = result /\ stream' = stream /\ sent' = sent /\ frames' = frames
  BY DEF Deliver, framesVars
<1>1. PICK n, k, r : n = Len(delivered) /\ k = n + 1 /\ r = Len(result)
  <2> WITNESS Len(delivered), Len(delivered) + 1, Len(result)
  <2> QED BY Zenon
<1>2. InCommand(k, r) /\ offset = frames[k][r + 1].last + 1 /\ offset <= arrived + 1
  BY <1>0, <1>1, Zenon DEF ParserInv, Position, InArgs
<1>3. /\ k \in 1..Len(sent) /\ k <= Len(sent) /\ r \in Nat /\ r + 1 \in 1..Len(frames[k]) /\ Len(sent[k]) \in Nat
      /\ sent[k] \in Commands /\ Len(frames[k]) \in 1..Len(sent[k]) + 1 /\ left = Len(sent[k]) - r /\ arrived \in Nat
  BY <1>1, <1>2, InCommandFacts, Zenon
<1>4. r = Len(sent[k])
  BY <1>0, <1>3
<1>5. Len(frames[k]) = r + 1
  BY <1>3, <1>4
<1>6. InFull(k) /\ k # 0
  BY <1>1, <1>4, <1>5, ParserFacts DEF InFull
<1>7. PICK e : e = frames[k][r + 1].last
  BY Zenon
<1>8. e \in Nat /\ e = End(k)
  <2>1. e \in Nat
    BY <1>3, <1>7, FrameHeader, Zenon
  <2> QED BY <1>5, <1>6, <1>7, <2>1, Zenon DEF End
<1>9. offset - 1 = e /\ e <= arrived
  <2>1. offset = e + 1
    BY <1>2, <1>7, Zenon
  <2>2. offset <= arrived + 1 /\ arrived \in Nat /\ e \in Nat
    BY <1>2, <1>3, <1>8, ZenonT(60)
  <2> QED BY <2>1, <2>2
<1>10. result = sent[k]
  <2>1. result \in Seq(Seq(Bytes)) /\ sent[k] \in Seq(Seq(Bytes))
    BY <1>3, FramesAssumption, SMTT(30) DEF ParserInv, ParserTyped, Bytes
  <2>2. \A i \in 1..r : result[i] = sent[k][i]
    BY <1>2, Zenon DEF InCommand
  <2> QED BY <1>1, <1>4, <2>1, <2>2, SeqEqual, Zenon
<1>11. delivered \in Seq(Seq(Seq(Bytes))) /\ result \in Seq(Seq(Bytes)) /\ n \in Nat
  BY <1>1, LenProperties DEF ParserInv, ParserTyped
<1>12. /\ delivered' \in Seq(Seq(Seq(Bytes))) /\ Len(delivered') = k /\ delivered'[k] = result
       /\ \A i \in 1..n : delivered'[i] = delivered[i]
  <2>1. Append(delivered, result) \in Seq(Seq(Seq(Bytes))) /\ Longer(delivered, result, Append(delivered, result))
    BY <1>11, Appended, Zenon
  <2> QED BY <1>0, <1>1, <2>1, Zenon DEF Longer
<1>13. ParserTyped'
  <2>1. base' \in Nat
    BY <1>0, <1>8, <1>9, Zenon
  <2> QED BY <1>0, <1>12, <2>1, SMTT(30) DEF ParserInv, ParserTyped
<1>14. CaughtUp(k)'
  <2>1. \A i \in 1..k : i = k \/ i \in 1..n
    BY <1>1, <1>11, SMTT(30)
  <2>2. \A i \in 1..n : InFull(i) /\ delivered[i] = sent[i]
    BY <1>1, Zenon DEF ParserInv, CaughtUp
  <2>3. \A i \in 1..k : InFull(i) /\ delivered'[i] = sent[i]
    BY <1>6, <1>10, <1>12, <2>1, <2>2, Zenon
  <2>4. \A i \in 1..k : InFull(i)' /\ delivered'[i] = sent'[i]
    BY <1>0, <2>3, Zenon DEF InFull
  <2>5. End(k)' = End(k)
    BY <1>0, ZenonT(60) DEF End
  <2> QED BY <1>0, <1>3, <1>8, <1>9, <2>4, <2>5, Zenon DEF CaughtUp
<1>15. Position(Len(delivered) + 1, Len(result))'
  BY <1>0 DEF Position
<1> QED BY <1>12, <1>13, <1>14, <1>15, Zenon DEF ParserInv

LEMMA ReceiveStep ==
    ASSUME FramesInv, ParserInv, UNCHANGED framesVars, Receive
    PROVE  ParserInv'
<1>1. /\ arrived' \in arrived + 1..Len(stream) /\ state' = "try" /\ base' = base /\ delivered' = delivered /\ num' = num
      /\ result' = result /\ stream' = stream /\ sent' = sent /\ frames' = frames
  BY DEF Receive, framesVars
<1>2. PICK n : n = Len(delivered)
  BY Zenon
<1>3. Len(stream) \in Nat /\ arrived \in Nat /\ base \in Nat /\ base <= arrived
  BY ParserFacts DEF ParserInv, ParserTyped, CaughtUp
<1>4. arrived' \in Nat /\ arrived' <= Len(stream) /\ base <= arrived'
  BY <1>1, <1>3
<1>5. ParserTyped'
  BY <1>1, <1>4 DEF ParserInv, ParserTyped
<1>6. CaughtUp(n)'
  <2>1. n <= Len(sent) /\ (\A i \in 1..n : InFull(i) /\ delivered[i] = sent[i]) /\ base = End(n)
    BY <1>2, Zenon DEF ParserInv, CaughtUp
  <2>2. (\A i \in 1..n : InFull(i)' <=> InFull(i)) /\ End(n)' = End(n)
    BY <1>1, ZenonT(60) DEF InFull, End
  <2> QED BY <1>1, <1>4, <2>1, <2>2, Zenon DEF CaughtUp
<1>7. Position(Len(delivered) + 1, Len(result))'
  BY <1>1 DEF Position
<1> QED BY <1>1, <1>2, <1>5, <1>6, <1>7, Zenon DEF ParserInv

LEMMA OverflowStep ==
    ASSUME FramesInv, ParserInv, UNCHANGED framesVars, Overflow
    PROVE  ParserInv'
<1>1. /\ Buffered > MaxBuffer /\ state' = "refused" /\ arrived' = arrived /\ base' = base /\ delivered' = delivered /\ num' = num
      /\ result' = result /\ stream' = stream /\ sent' = sent /\ frames' = frames
  BY SMTT(30) DEF Overflow, Leave, framesVars
<1>2. PICK n : n = Len(delivered)
  BY Zenon
<1>3. ParserTyped'
  BY <1>1 DEF ParserInv, ParserTyped
<1>4. CaughtUp(n)'
  <2>1. n <= Len(sent) /\ (\A i \in 1..n : InFull(i) /\ delivered[i] = sent[i]) /\ base = End(n) /\ base <= arrived
    BY <1>2, ZenonT(60) DEF ParserInv, CaughtUp
  <2>2. (\A i \in 1..n : InFull(i)' <=> InFull(i)) /\ End(n)' = End(n)
    BY <1>1, Zenon DEF InFull, End
  <2> QED BY <1>1, <2>1, <2>2, Zenon DEF CaughtUp
<1>5. Buffered' > MaxBuffer
  BY <1>1, Zenon DEF Buffered
<1>6. Position(Len(delivered) + 1, Len(result))'
  BY <1>1, <1>5 DEF Position
<1> QED BY <1>1, <1>2, <1>3, <1>4, <1>6, Zenon DEF ParserInv

LEMMA NumberGrows ==
    ASSUME NEW b \in Seq(Bytes), NEW c \in Seq(Bytes), Extends(c, b), NEW mark, NEW n, NEW at, NEW cr,
           HeaderAt(b, mark, n, at, cr), NEW o, NEW v, InNumber(b, at, cr, o, v)
    PROVE  InNumber(c, at, cr, o, v)
<1>1. at \in Nat /\ cr \in Nat /\ 1 <= at /\ cr + 1 <= Len(b) /\ Len(b) \in Nat
  BY LenProperties, SMTT(30) DEF HeaderAt
<1>2. o \in at + 1..cr /\ v = Prefixes(b, at, 0)[o - 1]
  BY DEF InNumber
<1>3. o - 1 \in 0..Len(b)
  BY <1>1, <1>2, SMTT(30)
<1>4. \A i \in 0..Len(b) : Prefixes(c, at, 0)[i] = Prefixes(b, at, 0)[i]
  BY <1>1, PrefixesAlike, Zenon
<1> QED BY <1>2, <1>3, <1>4, Zenon DEF InNumber

LEMMA EndTypes == FramesInv => \A i \in 0..Len(sent) : End(i) \in Nat
BY EndType, Zenon

LEMMA EndTypeNext == FramesInv' => \A i \in 0..Len(sent') : End(i)' \in Nat
<1>1. (FramesInv => \A i \in 0..Len(sent) : End(i) \in Nat)'
  BY EndTypes, PTL
<1> QED BY <1>1

\* A write does not disturb the parser.
LEMMA WriteKeeps ==
    ASSUME FramesInv, ParserInv, FramesInv', Grown, UNCHANGED parserVars
    PROVE  ParserInv'
<1>0. PICK n, k, r : n = Len(delivered) /\ k = n + 1 /\ r = Len(result)
  <2> WITNESS Len(delivered), Len(delivered) + 1, Len(result)
  <2> QED BY Zenon
<1>1. /\ arrived' = arrived /\ base' = base /\ delivered' = delivered /\ state' = state /\ offset' = offset /\ num' = num
      /\ left' = left /\ result' = result
  BY DEF parserVars
<1>2. /\ n \in 0..Len(sent) /\ k \in Nat /\ (k <= Len(sent) => k \in 1..Len(sent)) /\ Len(sent) \in Nat /\ Len(stream) \in Nat
      /\ 1 <= k
  BY <1>0, ParserFacts
<1>3. /\ stream \in Seq(Bytes) /\ stream' \in Seq(Bytes) /\ Len(sent') \in Nat /\ Len(stream') \in Nat
  BY LenProperties, SMTT(30) DEF FramesInv
<1>4. Extends(stream', stream) /\ Len(sent) <= Len(sent') /\ Len(stream) <= Len(stream')
  BY DEF Grown, Extends
<1>5. arrived \in Nat /\ arrived <= Len(stream)
  BY SMTT(30) DEF ParserInv, ParserTyped
<1>6. ParserTyped'
  <2>1. arrived <= Len(stream')
    BY <1>2, <1>3, <1>4, <1>5, SMTT(30)
  <2> QED BY <1>1, <2>1, SMTT(30) DEF ParserInv, ParserTyped
<1>7. CaughtUp(n)'
  <2>1. n <= Len(sent) /\ (\A i \in 1..n : InFull(i) /\ delivered[i] = sent[i]) /\ base = End(n) /\ base <= arrived
    BY <1>0, Zenon DEF ParserInv, CaughtUp
  <2>2. n <= Len(sent') /\ (\A i \in 1..n : i \in 1..Len(sent)) /\ (n = 0 \/ (n \in 1..Len(sent) /\ n \in 1..n))
    BY <1>2, <1>3, <1>4, SMTT(30)
  <2>3. \A i \in 1..n : InFull(i)' /\ delivered[i] = sent'[i]
    BY <2>1, <2>2, Zenon DEF Grown
  <2>4. End(n)' = End(n)
    <3>1. CASE n = 0
      BY <3>1, Zenon DEF End
    <3>2. CASE n \in 1..Len(sent) /\ n \in 1..n
      BY <2>1, <3>2, Zenon DEF Grown
    <3> QED BY <2>2, <3>1, <3>2, SMTT(30)
  <2> QED BY <1>1, <2>1, <2>2, <2>3, <2>4, Zenon DEF CaughtUp
<1>8. ASSUME NEW j \in 1..Len(frames[k]), k <= Len(sent), InHeader(frames[k][j])
      PROVE  InHeader(frames[k][j])'
  <2>1. PICK f : f = frames[k][j]
    BY Zenon
  <2>2. k \in 1..Len(sent)
    BY <1>2, <1>8, Zenon
  <2>3. HeaderAt(stream, MarkOf(j), SizeOf(sent[k], j), f.at, f.cr)
    BY <2>1, <2>2, FrameHeader, Zenon
  <2>4. InNumber(stream, f.at, f.cr, offset, num)
    BY <1>8, <2>1, Zenon DEF InHeader
  <2>5. InNumber(stream', f.at, f.cr, offset, num)
    BY <1>3, <1>4, <2>3, <2>4, NumberGrows, Zenon
  <2>6. frames'[k][j] = f
    BY <2>1, <2>2, Zenon DEF Grown
  <2> QED BY <1>1, <2>5, <2>6, Zenon DEF InHeader
<1>9. ASSUME InCommand(k, r)
      PROVE  /\ InCommand(k, r)' /\ k \in 1..Len(sent) /\ r + 1 \in 1..Len(frames[k]) /\ frames'[k][r + 1] = frames[k][r + 1]
             /\ r + 2 <= Len(frames[k]) => /\ r + 2 \in 1..Len(frames[k]) /\ frames'[k][r + 2] = frames[k][r + 2]
                                           /\ r + 2 <= Len(frames'[k])
             /\ sent'[k] = sent[k]
  <2>1. /\ k \in 1..Len(sent) /\ k <= Len(sent) /\ r \in Nat /\ r + 1 \in 1..Len(frames[k])
        /\ Len(frames[k]) \in 1..Len(sent[k]) + 1 /\ Len(sent[k]) \in Nat
        /\ r + 2 <= Len(frames[k]) => r + 2 \in 1..Len(frames[k])
    BY <1>0, <1>9, InCommandFacts, Zenon
  <2>2. /\ sent'[k] = sent[k] /\ Len(frames[k]) <= Len(frames'[k]) /\ \A j \in 1..Len(frames[k]) : frames'[k][j] = frames[k][j]
    BY <2>1, Zenon DEF Grown
  <2>3. k <= Len(sent') /\ k \in 1..Len(sent')
    BY <1>2, <1>3, <1>4, <2>1, SMTT(30)
  <2>4. Len(frames'[k]) \in Nat
    BY <2>3, <1>3, LenProperties, ElementOfSeq, SMTT(30) DEF FramesInv
  <2>5. r < Len(frames'[k]) /\ (r + 2 <= Len(frames[k]) => r + 2 <= Len(frames'[k]))
    BY <2>1, <2>2, <2>4, SMTT(30)
  <2>6. left = Len(sent[k]) - r /\ \A i \in 1..r : result[i] = sent[k][i]
    BY <1>9, Zenon DEF InCommand
  <2>7. InCommand(k, r)'
    BY <1>1, <2>2, <2>3, <2>5, <2>6, Zenon DEF InCommand
  <2> QED BY <2>1, <2>2, <2>5, <2>7, Zenon
<1>10. state = "array" => k <= Len(sent') /\ InHeader(frames[k][1])'
  <2> SUFFICES ASSUME state = "array" PROVE k <= Len(sent') /\ InHeader(frames[k][1])'
    OBVIOUS
  <2>1. k \in 1..Len(sent) /\ 1 \in 1..Len(frames[k]) /\ InHeader(frames[k][1])
    BY <1>0, InArrayFacts, ZenonT(60)
  <2>2. k <= Len(sent) /\ k <= Len(sent')
    BY <1>2, <1>3, <1>4, <2>1, SMTT(30)
  <2> QED BY <1>8, <2>1, <2>2, Zenon
<1>11. state = "args" => InArgs(k, r)'
  BY <1>0, <1>1, <1>9, Zenon DEF ParserInv, Position, InArgs
<1>12. state = "bulk" => InBulk(k, r)'
  <2> SUFFICES ASSUME state = "bulk" PROVE InBulk(k, r)'
    OBVIOUS
  <2>1. InCommand(k, r) /\ r + 2 <= Len(frames[k]) /\ InHeader(frames[k][r + 2])
    BY <1>0, Zenon DEF ParserInv, Position, InBulk
  <2>2. k <= Len(sent)
    BY <2>1, Zenon DEF InCommand
  <2>3. InHeader(frames[k][r + 2])'
    BY <1>8, <1>9, <2>1, <2>2, Zenon
  <2> QED BY <1>9, <2>1, <2>3, Zenon DEF InBulk
<1>13. state = "payload" => InPayload(k, r)'
  BY <1>0, <1>1, <1>9, Zenon DEF ParserInv, Position, InPayload
<1>14. state = "wait" => Outstanding(k)'
  <2> SUFFICES ASSUME state = "wait", k <= Len(sent'), InFull(k)' PROVE End(k)' > arrived
    BY <1>1 DEF Outstanding, Beyond
  <2>1. Outstanding(k)
    BY <1>0, Zenon DEF ParserInv, Position
  <2>2. k \in 1..Len(sent')
    BY <1>2, <1>3
  <2>3. CASE k <= Len(sent) /\ InFull(k)
    BY <1>2, <2>1, <2>3, Zenon DEF Outstanding, Beyond, Grown
  <2>4. CASE ~(k <= Len(sent) /\ InFull(k))
    <3>1. End(k)' > Len(stream)
      BY <2>2, <2>4, Zenon DEF Grown
    <3>2. End(k)' \in Nat
      <4>1. k \in 0..Len(sent') /\ 0 \in Nat
        BY <1>3, <2>2
      <4> QED BY <4>1, EndTypeNext, Zenon
    <3> QED BY <1>2, <1>5, <3>1, <3>2, SMTT(30)
  <2> QED BY <2>3, <2>4, SMTT(30)
<1>15. state = "refused" => Buffered' > MaxBuffer
  BY <1>1, Zenon DEF ParserInv, Position, Buffered
<1>16. Position(k, r)'
  BY <1>1, <1>10, <1>11, <1>12, <1>13, <1>14, <1>15, Zenon DEF Position
<1> QED BY <1>0, <1>1, <1>6, <1>7, <1>16, Zenon DEF ParserInv

LEMMA ParserBegins == RespInit => FramesInv /\ ParserInv
<1> SUFFICES ASSUME RespInit PROVE FramesInv /\ ParserInv
  OBVIOUS
<1>1. FramesInv
  BY FramesBegin DEF RespInit
<1>2. /\ stream = <<>> /\ sent = <<>> /\ frames = <<>> /\ arrived = 0 /\ base = 0 /\ delivered = <<>> /\ state = "try"
      /\ num = 0 /\ result = <<>>
  BY DEF RespInit, FramesInit, ParserInit
<1>3. Len(<<>>) = 0 /\ 0 \in Nat /\ 0 \in Int /\ 0 <= 0 /\ ~ \E i \in 1..0 : TRUE
  OBVIOUS
<1>4. <<>> \in Seq(Seq(Seq(Bytes))) /\ <<>> \in Seq(Seq(Bytes))
  BY EmptySeq
<1>5. ParserTyped
  BY <1>2, <1>3, <1>4 DEF ParserTyped
<1>6. CaughtUp(0)
  <2>1. 0 <= Len(sent) /\ End(0) = 0
    BY <1>2, <1>3, Zenon DEF End
  <2> QED BY <1>2, <1>3, <2>1, Zenon DEF CaughtUp
<1>7. Position(Len(delivered) + 1, Len(result))
  BY <1>2 DEF Position
<1> QED BY <1>1, <1>2, <1>3, <1>5, <1>6, <1>7, Zenon DEF ParserInv

LEMMA ParserStep == FramesInv /\ ParserInv /\ [RespNext]_respVars => FramesInv' /\ ParserInv'
<1> SUFFICES ASSUME FramesInv, ParserInv, [RespNext]_respVars PROVE FramesInv' /\ ParserInv'
  OBVIOUS
<1>1. CASE WriteFrame /\ UNCHANGED parserVars
  BY <1>1, WriteStep, WriteKeeps, Zenon
<1>2. ASSUME UNCHANGED framesVars PROVE FramesInv'
  <2>1. stream' = stream /\ sent' = sent /\ frames' = frames
    BY <1>2 DEF framesVars
  <2> QED BY <2>1, Zenon DEF FramesInv, InFull, End
<1>3. CASE ParserNext /\ UNCHANGED framesVars
  BY <1>2, <1>3, TryParseStep, ArrayByteStep, BulkByteStep, ArrayHeaderStep, BulkHeaderStep, ArgumentStep, PayloadStep,
     DeliverStep, ReceiveStep, OverflowStep, Zenon DEF ParserNext
<1>4. CASE UNCHANGED respVars
  <2>1. UNCHANGED framesVars /\ UNCHANGED parserVars
    BY <1>4, SMTT(30) DEF respVars
  <2>2. ParserInv'
    BY <2>1, Zenon DEF framesVars, parserVars, ParserInv, ParserTyped, CaughtUp, InFull, End, Position, InHeader, InCommand, InArgs,
                InBulk, InPayload, Outstanding, Beyond, Buffered
  <2> QED BY <1>2, <2>1, <2>2, SMTT(30)
<1> QED BY <1>1, <1>3, <1>4, Zenon DEF RespNext

LEMMA ParserInvSafe == FramesInv /\ ParserInv => FragmentSafe
<1> SUFFICES ASSUME FramesInv, ParserInv PROVE FragmentSafe
  OBVIOUS
<1>1. PICK n : n = Len(delivered)
  BY Zenon
<1>2. /\ n <= Len(sent) /\ (\A i \in 1..n : InFull(i) /\ delivered[i] = sent[i]) /\ base = End(n) /\ base <= arrived
      /\ (state = "wait" => Outstanding(n + 1)) /\ (state = "refused" => Buffered > MaxBuffer)
  BY <1>1, Zenon DEF ParserInv, CaughtUp, Position
<1>3. n < Len(sent) => n + 1 <= Len(sent)
  BY <1>1, ParserFacts
<1> QED BY <1>1, <1>2, <1>3, Zenon DEF FragmentSafe, Outstanding, Beyond

\* parse_command returns the commands of a pipeline in order, unchanged and as soon as they
\* have arrived, and refuses none that the buffer can hold, however the reads cut the stream
\* and whatever bytes the arguments contain.
THEOREM FragmentsAreSafe == RespSpec => []FragmentSafe
<1>1. FramesInv /\ ParserInv => FragmentSafe
  BY ParserInvSafe
<1> QED BY <1>1, ParserBegins, ParserStep, PTL DEF RespSpec

----------------------------------------------------------------------------
(* The reader of the log *)

ReaderTyped ==
    /\ cut \in Nat /\ cut <= Len(stream) /\ spot \in Nat /\ parts \in Seq(Seq(Bytes)) /\ read \in Seq(Seq(Seq(Bytes)))
    /\ mode \in {"writing", "next", "parts", "clean", "error"}

ReadUp(n) == n <= Len(sent) /\ \A k \in 1..n : InFull(k) /\ read[k] = sent[k]

\* In the command n + 1, with the first r arguments read.
ReadingParts(n, r) ==
    /\ n + 1 <= Len(sent) /\ r < Len(frames[n + 1]) /\ missing = Len(sent[n + 1]) - r
    /\ \A i \in 1..r : parts[i] = sent[n + 1][i]
    /\ spot = frames[n + 1][r + 1].last + 1 /\ spot <= cut + 1 /\ End(n) < cut

Torn(n) == n < Len(sent) /\ End(n) < cut /\ Beyond(n + 1, cut)

\* Where the reader is.
Reading(n, r) ==
    /\ mode = "writing" => spot = 1 /\ cut = 0 /\ n = 0
    /\ mode = "next" => spot = End(n) + 1 /\ End(n) <= cut
    /\ mode = "parts" => ReadingParts(n, r)
    /\ mode = "clean" => cut = End(n)
    /\ mode = "error" => Torn(n)

ReaderInv == ReaderTyped /\ ReadUp(Len(read)) /\ Reading(Len(read), Len(parts))

\* The first LF behind the mark of a header is the one that ends it.
LEMMA HeaderNoLf ==
    ASSUME NEW b \in Seq(Bytes), NEW mark \in {STAR, DOLLAR}, NEW n, NEW at, NEW cr, HeaderAt(b, mark, n, at, cr), NEW i \in at..cr
    PROVE  b[i] # LF
<1>1. at \in Nat /\ cr \in Nat /\ b[at] = mark /\ b[cr] = CR /\ \A j \in at + 1..cr - 1 : b[j] \in Digits
  BY SMTT(30) DEF HeaderAt
<1>2. i = at \/ i = cr \/ i \in at + 1..cr - 1
  BY <1>1, SMTT(30)
<1>3. mark # LF /\ CR # LF /\ LF \notin Digits
  BY SMTT(30) DEF STAR, DOLLAR, CR, LF, Digits
<1> QED BY <1>1, <1>2, <1>3, Zenon

LEMMA HeaderLine ==
    ASSUME stream \in Seq(Bytes), NEW mark \in {STAR, DOLLAR}, NEW n, NEW cr, HeaderAt(stream, mark, n, spot, cr),
           cut \in Nat, spot <= cut
    PROVE  /\ cr + 1 <= cut => IsHeader(mark) /\ LineEnd = cr + 1 /\ Size = n
           /\ ~(cr + 1 <= cut) => ~IsHeader(mark)
<1> DEFINE S == {i \in spot..cut : stream[i] = LF}
<1>1. /\ spot \in Nat /\ cr \in Nat /\ spot + 1 < cr /\ stream[spot] = mark /\ stream[cr] = CR /\ stream[cr + 1] = LF
      /\ (\A i \in spot + 1..cr - 1 : stream[i] \in Digits) /\ Prefixes(stream, spot, 0)[cr - 1] = n
  BY DEF HeaderAt
<1>2. \A i \in spot..cr : stream[i] # LF
  BY HeaderNoLf, Zenon
<1>3. ASSUME cr + 1 <= cut PROVE IsHeader(mark) /\ LineEnd = cr + 1 /\ Size = n
  <2>1. cr + 1 \in S
    BY <1>1, <1>3, SMTT(30)
  <2>2. \A j \in S : cr + 1 <= j /\ j \in Nat
    <3>1. ASSUME NEW j \in spot..cut, stream[j] = LF PROVE cr + 1 <= j /\ j \in Nat
      <4>1. j \notin spot..cr
        BY <1>2, <3>1, Zenon
      <4> QED BY <1>1, <4>1, SMTT(30)
    <3> QED BY <3>1, SMTT(30)
  <2>3. S # {}
    BY <2>1
  <2>4. LineEnd = CHOOSE i \in S : \A j \in S : i <= j
    BY <2>3, Zenon DEF LineEnd
  <2> HIDE DEF S
  <2>5. LineEnd \in S /\ \A j \in S : LineEnd <= j
    BY <2>1, <2>2, <2>4, Zenon
  <2>6. LineEnd = cr + 1
    <3>1. LineEnd <= cr + 1 /\ cr + 1 <= LineEnd /\ LineEnd \in Nat
      BY <2>1, <2>2, <2>5, Zenon
    <3> QED BY <1>1, <3>1
  <2>7. cr + 1 > spot + 2 /\ (cr + 1) - 1 = cr /\ (cr + 1) - 2 = cr - 1
    BY <1>1
  <2> QED BY <1>1, <2>6, <2>7, Zenon DEF IsHeader, Size
<1>4. ASSUME ~(cr + 1 <= cut) PROVE ~IsHeader(mark)
  <2>1. \A i \in spot..cut : i \in spot..cr
    BY <1>1, <1>4, SMTT(30)
  <2>2. S = {}
    BY <1>2, <2>1, Zenon
  <2>3. LineEnd = cut
    BY <2>2, ZenonT(60) DEF LineEnd
  <2>4. cut \in spot..cut
    BY <1>1, SMTT(30)
  <2> QED BY <1>2, <2>1, <2>3, <2>4, Zenon DEF IsHeader
<1> QED BY <1>3, <1>4, SMTT(30)

LEMMA ReaderFacts ==
    ASSUME FramesInv, ReaderInv
    PROVE  /\ Len(read) \in 0..Len(sent) /\ Len(parts) \in Nat /\ Len(sent) \in Nat /\ Len(stream) \in Nat
           /\ Len(read) + 1 \in Nat /\ 1 <= Len(read) + 1 /\ Len(read) + 1 # 0
           /\ (Len(read) + 1 <= Len(sent) => Len(read) + 1 \in 1..Len(sent)) /\ stream \in Seq(Bytes)
           /\ End(Len(read)) \in Nat /\ cut \in Nat /\ cut <= Len(stream) /\ spot \in Nat
<1>1. /\ Len(read) \in Nat /\ Len(parts) \in Nat /\ Len(sent) \in Nat /\ Len(stream) \in Nat /\ Len(read) <= Len(sent)
      /\ stream \in Seq(Bytes) /\ cut \in Nat /\ cut <= Len(stream) /\ spot \in Nat
  BY LenProperties, SMTT(30) DEF ReaderInv, ReaderTyped, ReadUp, FramesInv
<1>2. Len(read) \in 0..Len(sent)
  BY <1>1
<1>3. End(Len(read)) \in Nat
  BY <1>2, EndTypes, Zenon
<1> QED BY <1>1, <1>2, <1>3, SMTT(30)

\* A step that reads no command.
LEMMA ReadsOn ==
    ASSUME ReaderInv, UNCHANGED framesVars, UNCHANGED read, cut' \in Nat, cut' <= Len(stream), spot' \in Nat,
           parts' \in Seq(Seq(Bytes)), mode' \in {"next", "parts", "clean", "error"}, Reading(Len(read), Len(parts))'
    PROVE  ReaderInv'
<1>1. stream' = stream /\ sent' = sent /\ frames' = frames /\ read' = read
  BY DEF framesVars
<1>2. PICK n : n = Len(read)
  BY Zenon
<1>3. ReaderTyped'
  BY <1>1 DEF ReaderInv, ReaderTyped
<1>4. ReadUp(n)'
  BY <1>1, <1>2, Zenon DEF ReaderInv, ReadUp, InFull
<1> QED BY <1>1, <1>2, <1>3, <1>4, ZenonT(60) DEF ReaderInv

LEMMA CrashStep ==
    ASSUME FramesInv, ReaderInv, UNCHANGED framesVars, Crash
    PROVE  ReaderInv'
<1>1. /\ mode = "writing" /\ mode' = "next" /\ cut' \in 0..Len(stream) /\ spot' = spot /\ parts' = parts /\ read' = read
  BY DEF Crash
<1>2. PICK n : n = Len(read)
  BY Zenon
<1>3. spot = 1 /\ n = 0
  BY <1>1, <1>2, Zenon DEF ReaderInv, Reading
<1>4. cut' \in Nat /\ cut' <= Len(stream) /\ 0 <= cut' /\ 0 + 1 = 1
  BY <1>1, ReaderFacts
<1>5. End(n)' = 0
  BY <1>3, Zenon DEF End
<1>6. \A r : Reading(n, r)'
  BY <1>1, <1>3, <1>4, <1>5, SMTT(30) DEF Reading
<1>7. parts' \in Seq(Seq(Bytes)) /\ spot' \in Nat
  BY <1>1 DEF ReaderInv, ReaderTyped
<1>8. Reading(Len(read), Len(parts))'
  BY <1>1, <1>2, <1>6, Zenon
<1> QED BY <1>1, <1>4, <1>7, <1>8, ReadsOn, Zenon

LEMMA EndOfFileStep ==
    ASSUME FramesInv, ReaderInv, UNCHANGED framesVars, EndOfFile
    PROVE  ReaderInv'
<1>1. /\ mode = "next" /\ spot > cut /\ mode' = "clean" /\ cut' = cut /\ spot' = spot /\ parts' = parts /\ read' = read
  BY SMTT(30) DEF EndOfFile
<1>2. PICK n : n = Len(read)
  BY Zenon
<1>3. spot = End(n) + 1 /\ End(n) <= cut /\ End(n) \in Nat /\ cut \in Nat
  BY <1>1, <1>2, ReaderFacts, Zenon DEF ReaderInv, Reading
<1>4. cut = End(n)
  BY <1>1, <1>3
<1>5. End(n)' = End(n)
  BY Zenon DEF framesVars, End
<1>6. \A r : Reading(n, r)'
  BY <1>1, <1>4, <1>5, SMTT(30) DEF Reading
<1>7. parts' \in Seq(Seq(Bytes)) /\ spot' \in Nat /\ cut' \in Nat /\ cut' <= Len(stream)
  BY <1>1 DEF ReaderInv, ReaderTyped
<1>8. Reading(Len(read), Len(parts))'
  BY <1>1, <1>2, <1>6, Zenon
<1> QED BY <1>1, <1>7, <1>8, ReadsOn, Zenon

LEMMA FailStep ==
    ASSUME FramesInv, ReaderInv, UNCHANGED framesVars, Fail, Torn(Len(read))
    PROVE  ReaderInv'
<1>1. mode' = "error" /\ cut' = cut /\ spot' = spot /\ parts' = parts /\ read' = read
  BY DEF Fail
<1>2. PICK n : n = Len(read)
  BY Zenon
<1>3. Torn(n)'
  <2>1. stream' = stream /\ sent' = sent /\ frames' = frames
    BY SMTT(30) DEF framesVars
  <2> QED BY <1>1, <1>2, <2>1, Zenon DEF Torn, Beyond, End, InFull
<1>4. \A r : Reading(n, r)'
  BY <1>1, <1>3, SMTT(30) DEF Reading
<1>5. parts' \in Seq(Seq(Bytes)) /\ spot' \in Nat /\ cut' \in Nat /\ cut' <= Len(stream)
  BY <1>1 DEF ReaderInv, ReaderTyped
<1>6. Reading(Len(read), Len(parts))'
  BY <1>1, <1>2, <1>4, Zenon
<1> QED BY <1>1, <1>5, <1>6, ReadsOn, Zenon

\* The header of the frame j of the command k, read from its first byte on.
LEMMA FrameLine ==
    ASSUME FramesInv, cut \in Nat, NEW k \in 1..Len(sent), NEW j \in 1..Len(frames[k]), NEW cr,
           spot = frames[k][j].at, cr = frames[k][j].cr, spot <= cut
    PROVE  /\ cr + 1 <= cut => IsHeader(MarkOf(j)) /\ LineEnd = cr + 1 /\ Size = SizeOf(sent[k], j)
           /\ ~(cr + 1 <= cut) => ~IsHeader(MarkOf(j))
<1>1. HeaderAt(stream, MarkOf(j), SizeOf(sent[k], j), spot, cr) /\ stream \in Seq(Bytes)
  BY FrameHeader, Zenon
<1>2. MarkOf(j) \in {STAR, DOLLAR}
  BY Zenon DEF MarkOf
<1> QED BY <1>1, <1>2, HeaderLine, Zenon

LEMMA TornAt ==
    ASSUME FramesInv, NEW n \in Nat, NEW k \in 1..Len(sent), k = n + 1, cut \in Nat, End(n) < cut, Beyond(k, cut)
    PROVE  Torn(n)
<1>1. Len(sent) \in Nat
  BY LenProperties, SMTT(30) DEF FramesInv
<1>2. n < Len(sent)
  BY <1>1
<1> QED BY <1>2, Zenon DEF Torn

LEMMA NextCommandStep ==
    ASSUME FramesInv, ReaderInv, UNCHANGED framesVars, NextCommand
    PROVE  ReaderInv'
<1>0. mode = "next" /\ spot <= cut
  BY SMTT(30) DEF NextCommand
<1>1. PICK n, k : n = Len(read) /\ k = n + 1
  BY Zenon
<1>2. PICK e : e = End(n)
  BY Zenon
<1>3. spot = e + 1 /\ e <= cut /\ e \in Nat /\ cut \in Nat /\ cut <= Len(stream) /\ Len(stream) \in Nat /\ n \in 0..Len(sent)
      /\ stream \in Seq(Bytes)
  BY <1>0, <1>1, <1>2, ReaderFacts, Zenon DEF ReaderInv, Reading
<1>4. e < cut /\ Len(stream) > e /\ n \in Nat
  BY <1>0, <1>3
<1>5. k \in 1..Len(sent) /\ frames[k][1].at = spot
  BY <1>1, <1>2, <1>3, <1>4, CommandAhead, Zenon
<1>6. Len(frames[k]) \in Nat /\ 1 \in 1..Len(frames[k]) /\ 0 < Len(frames[k])
  <2>1. Len(frames[k]) \in Nat /\ Len(frames[k]) >= 1
    <3>1. Len(frames[k]) \in Nat /\ Len(frames[k]) \in 1..Len(frames[k])
      BY <1>5, Layout, LaidEnd, Zenon
    <3> QED BY <3>1
  <2> QED BY <2>1
<1>7. PICK f, c : f = frames[k][1] /\ c = sent[k]
  BY Zenon
<1>8. PICK cr : cr = f.cr
  BY Zenon
<1>9. cr \in Nat /\ f.last = cr + 1 /\ SizeOf(c, 1) = Len(c) /\ MarkOf(1) = STAR /\ Len(c) \in Nat
  <2>1. f.cr \in Nat /\ FrameOk(stream, c, 1, f) /\ Len(c) \in Nat
    BY <1>5, <1>6, <1>7, FrameHeader, Zenon
  <2> QED BY <1>8, <2>1, Zenon DEF FrameOk, SizeOf, MarkOf
<1>10. /\ cr + 1 <= cut => IsHeader(STAR) /\ LineEnd = cr + 1 /\ Size = Len(c)
       /\ ~(cr + 1 <= cut) => ~IsHeader(STAR)
  BY <1>0, <1>3, <1>5, <1>6, <1>7, <1>8, <1>9, FrameLine, Zenon
<1>11. CASE ~(cr + 1 <= cut)
  <2>1. f.last > cut
    BY <1>3, <1>9, <1>11, SMTT(30)
  <2>2. Beyond(k, cut)
    BY <1>3, <1>5, <1>6, <1>7, <2>1, NotYet, Zenon
  <2>3. Torn(n)
    BY <1>1, <1>2, <1>3, <1>4, <1>5, <2>2, TornAt, Zenon
  <2>4. Fail
    BY <1>10, <1>11, Zenon DEF NextCommand
  <2> QED BY <1>1, <2>3, <2>4, FailStep, Zenon
<1>12. CASE cr + 1 <= cut
  <2>1. /\ mode' = "parts" /\ missing' = Len(c) /\ parts' = <<>> /\ spot' = (cr + 1) + 1 /\ cut' = cut /\ read' = read
    BY <1>10, <1>12, Zenon DEF NextCommand
  <2>2. stream' = stream /\ sent' = sent /\ frames' = frames
    BY DEF framesVars
  <2>3. /\ n + 1 <= Len(sent) /\ Len(c) - 0 = Len(c) /\ (\A i \in 1..0 : FALSE) /\ 0 + 1 = 1 /\ Len(parts') = 0
        /\ (cr + 1) + 1 <= cut + 1 /\ (cr + 1) + 1 \in Nat
    BY <1>1, <1>3, <1>5, <1>9, <1>12, <2>1, SMTT(30)
  <2>4. End(n)' = End(n)
    BY <2>2, Zenon DEF End
  <2>5. ReadingParts(n, 0)'
    BY <1>1, <1>2, <1>4, <1>6, <1>7, <1>9, <2>1, <2>2, <2>3, <2>4, Zenon DEF ReadingParts
  <2>6. Reading(n, 0)'
    BY <2>1, <2>5, SMTT(30) DEF Reading
  <2>7. Reading(Len(read), Len(parts))'
    BY <1>1, <2>1, <2>3, <2>6, Zenon
  <2>8. parts' \in Seq(Seq(Bytes)) /\ spot' \in Nat /\ cut' \in Nat /\ cut' <= Len(stream)
    BY <1>3, <2>1, <2>3, SMTT(30)
  <2> QED BY <2>1, <2>7, <2>8, ReadsOn, Zenon
<1> QED BY <1>11, <1>12, SMTT(30)

LEMMA InPartsFacts ==
    ASSUME FramesInv, ReaderInv, NEW k, NEW r, k = Len(read) + 1, r = Len(parts), ReadingParts(Len(read), r)
    PROVE  /\ k \in 1..Len(sent) /\ k <= Len(sent) /\ r \in Nat /\ Len(read) \in Nat /\ r + 1 \in 1..Len(frames[k]) /\ r <= Len(sent[k])
           /\ Len(sent[k]) \in Nat /\ sent[k] \in Commands /\ Len(frames[k]) \in 1..Len(sent[k]) + 1
           /\ r + 2 # 1 /\ (r + 2) - 1 = r + 1 /\ (r + 1) + 1 = r + 2
           /\ missing = Len(sent[k]) - r
<1>1. k <= Len(sent) /\ r < Len(frames[k]) /\ missing = Len(sent[k]) - r
  BY SMTT(30) DEF ReadingParts
<1>2. k \in 1..Len(sent) /\ r \in Nat /\ Len(read) \in Nat
  BY <1>1, ReaderFacts, SMTT(30)
<1>3. sent[k] \in Commands /\ Len(sent[k]) \in Nat /\ Len(frames[k]) \in 1..Len(sent[k]) + 1
  BY <1>2, Layout, CommandBytes, LenProperties, SMTT(30) DEF LaidOut
<1> QED BY <1>1, <1>2, <1>3, SMTT(30)

LEMMA NextPartStep ==
    ASSUME FramesInv, ReaderInv, UNCHANGED framesVars, NextPart
    PROVE  ReaderInv'
<1>0. mode = "parts" /\ missing > 0
  BY Zenon DEF NextPart
<1>1. PICK n, k, r : n = Len(read) /\ k = n + 1 /\ r = Len(parts)
  <2> WITNESS Len(read), Len(read) + 1, Len(parts)
  <2> QED BY Zenon
<1>2. ReadingParts(n, r)
  BY <1>0, <1>1, Zenon DEF ReaderInv, Reading
<1>3. /\ k \in 1..Len(sent) /\ k <= Len(sent) /\ r \in Nat /\ n \in Nat /\ r + 1 \in 1..Len(frames[k]) /\ Len(sent[k]) \in Nat
      /\ sent[k] \in Commands /\ Len(frames[k]) \in 1..Len(sent[k]) + 1 /\ missing = Len(sent[k]) - r
      /\ r + 2 # 1 /\ (r + 2) - 1 = r + 1 /\ (r + 1) + 1 = r + 2
  BY <1>1, <1>2, InPartsFacts, Zenon
<1>4. r + 1 <= Len(sent[k]) /\ r + 1 \in 1..Len(sent[k]) /\ missing - 1 = Len(sent[k]) - (r + 1)
  BY <1>0, <1>3, SMTT(30)
<1>5. PICK e : e = frames[k][r + 1].last
  BY Zenon
<1>6. /\ e \in Nat /\ spot = e + 1 /\ spot <= cut + 1 /\ End(n) < cut /\ Len(stream) \in Nat /\ cut \in Nat
      /\ cut <= Len(stream) /\ stream \in Seq(Bytes)
  <2>1. e \in Nat
    BY <1>3, <1>5, FrameHeader, Zenon
  <2>2. spot = e + 1 /\ spot <= cut + 1 /\ End(n) < cut
    BY <1>1, <1>2, <1>5, Zenon DEF ReadingParts
  <2> QED BY <2>1, <2>2, ReaderFacts, Zenon
<1>7. ASSUME Beyond(k, cut), Fail PROVE ReaderInv'
  <2>1. Torn(n)
    BY <1>1, <1>3, <1>6, <1>7, TornAt, Zenon
  <2> QED BY <1>1, <1>7, <2>1, FailStep, Zenon
<1>8. CASE spot > cut
  <2>1. e >= cut /\ ~(cut > spot + 2) /\ {i \in spot..cut : stream[i] = LF} = {}
    BY <1>6, <1>8, SMTT(30)
  <2>2. LineEnd = cut
    BY <2>1, Zenon DEF LineEnd
  <2>3. Fail
    BY <2>1, <2>2, Zenon DEF NextPart, IsHeader
  <2>4. Beyond(k, cut)
    BY <1>3, <1>4, <1>5, <1>6, <2>1, NotYetNext, Zenon
  <2> QED BY <1>7, <2>3, <2>4, SMTT(30)
<1>9. CASE ~(spot > cut)
  <2>1. Len(stream) > e /\ spot <= cut
    BY <1>6, <1>9, SMTT(30)
  <2>2. r + 2 \in 1..Len(frames[k]) /\ frames[k][r + 2].at = e + 1
    <3>1. PICK j : j = r + 1
      BY Zenon
    <3>2. j \in 1..Len(frames[k]) /\ j <= Len(sent[k]) /\ Len(stream) > frames[k][j].last /\ j + 1 = r + 2
      BY <1>3, <1>4, <1>5, <2>1, <3>1, Zenon
    <3>3. j + 1 \in 1..Len(frames[k]) /\ frames[k][j + 1].at = frames[k][j].last + 1
      BY <1>3, <3>2, FrameAhead, Zenon
    <3> QED BY <1>5, <3>1, <3>2, <3>3, Zenon
  <2>3. PICK f, a : f = frames[k][r + 2] /\ a = sent[k][r + 1]
    BY Zenon
  <2>4. PICK cr, last, l : cr = f.cr /\ last = f.last /\ l = Len(a)
    BY Zenon
  <2>5. /\ cr \in Nat /\ last \in Nat /\ a \in Seq(Bytes) /\ l \in Nat /\ SizeOf(sent[k], r + 2) = l /\ MarkOf(r + 2) = DOLLAR
        /\ BodyAt(stream, a, cr + 2) /\ last = cr + l + 3
    <3>1. f.cr \in Nat /\ f.last \in Nat /\ FrameOk(stream, sent[k], r + 2, f)
      BY <1>3, <2>2, <2>3, FrameHeader, Zenon
    <3>2. a \in Seq(Bytes) /\ Len(a) \in Nat
      BY <1>3, <1>4, <2>3, CommandBytes, Zenon
    <3> QED BY <1>3, <2>3, <2>4, <3>1, <3>2, Zenon DEF FrameOk, SizeOf, MarkOf
  <2>6. /\ cr + 1 <= cut => IsHeader(DOLLAR) /\ LineEnd = cr + 1 /\ Size = l
        /\ ~(cr + 1 <= cut) => ~IsHeader(DOLLAR)
    BY <1>3, <1>6, <2>1, <2>2, <2>3, <2>4, <2>5, FrameLine, Zenon
  <2>7. ASSUME last > cut PROVE Beyond(k, cut)
    BY <1>3, <1>6, <2>2, <2>3, <2>4, <2>7, NotYet, Zenon
  <2>8. CASE ~(cr + 1 <= cut)
    <3>1. last > cut
      BY <1>6, <2>5, <2>8, SMTT(30)
    <3>2. Fail
      BY <2>6, <2>8, Zenon DEF NextPart
    <3> QED BY <1>7, <2>7, <3>1, <3>2, SMTT(30)
  <2>9. CASE cr + 1 <= cut
    <3>1. /\ ((cr + 1) + 1) + l = (cr + 2) + l /\ ((cr + 2) + l) + 1 = last /\ ((cr + 1) + l) + 3 = last + 1
          /\ (cr + 1) + 1 = cr + 2 /\ (cr + 1) + l = cr + 2 + l - 1 /\ cr + 2 \in Nat /\ 1 <= cr + 2
          /\ (~(last <= cut) => last > cut) /\ last + 1 \in Nat /\ (last <= cut => last + 1 <= cut + 1)
      BY <1>6, <2>5, SMTT(30)
    <3>2. stream[(cr + 2) + l] = CR /\ stream[((cr + 2) + l) + 1] = LF
      BY <2>4, <2>5, Zenon DEF BodyAt
    <3>3. Closed(LineEnd + 1 + Size) <=> last <= cut
      BY <2>6, <2>9, <3>1, <3>2, Zenon DEF Closed
    <3>4. CASE ~(last <= cut)
      <4>1. Fail
        BY <2>6, <2>9, <3>3, <3>4, ZenonT(60) DEF NextPart
      <4> QED BY <1>7, <2>7, <3>1, <3>4, <4>1, SMTT(30)
    <3>5. CASE last <= cut
      <4>1. SubSeq(stream, cr + 2, cr + 2 + l - 1) = a
        <5>1. SubSeq(stream, cr + 2, (cr + 2) + Len(a) - 1) = a
          BY <1>6, <2>5, <3>1, BodyRead, Zenon
        <5> QED BY <2>4, <5>1, Zenon
      <4>2. /\ parts' = Append(parts, a) /\ spot' = last + 1 /\ missing' = missing - 1
            /\ mode' = mode /\ cut' = cut /\ read' = read
        BY <2>6, <2>9, <3>1, <3>3, <3>5, <4>1, Zenon DEF NextPart
      <4>3. parts \in Seq(Seq(Bytes))
        BY DEF ReaderInv, ReaderTyped
      <4>4. /\ parts' \in Seq(Seq(Bytes)) /\ Len(parts') = r + 1 /\ parts'[r + 1] = a /\ \A i \in 1..r : parts'[i] = parts[i]
        <5>1. Append(parts, a) \in Seq(Seq(Bytes)) /\ Longer(parts, a, Append(parts, a))
          BY <2>5, <4>3, Appended, Zenon
        <5> QED BY <1>1, <4>2, <5>1, Zenon DEF Longer
      <4>5. \A i \in 1..r + 1 : parts'[i] = sent[k][i]
        <5>1. \A i \in 1..r + 1 : i = r + 1 \/ i \in 1..r
          BY <1>3, SMTT(30)
        <5> QED BY <1>1, <1>2, <2>3, <4>4, <5>1, Zenon DEF ReadingParts
      <4>6. stream' = stream /\ sent' = sent /\ frames' = frames
        BY DEF framesVars
      <4>7. End(n)' = End(n)
        BY <4>6, Zenon DEF End
      <4>8. r + 1 < Len(frames[k])
        <5>1. PICK m : m = Len(frames[k])
          BY Zenon
        <5>2. m \in Nat /\ r + 2 \in 1..m
          <6>1. Len(frames[k]) \in Nat
            BY <1>3, Layout, LaidEnd, Zenon
          <6> QED BY <2>2, <5>1, <6>1, Zenon
        <5>3. r + 1 < m
          BY <1>3, <5>2, SMTT(30)
        <5> QED BY <5>1, <5>3, SMTT(30)
      <4>9. ReadingParts(n, r + 1)'
        BY <1>1, <1>3, <1>4, <1>6, <2>3, <2>4, <3>1, <3>5, <4>2, <4>5, <4>6, <4>7, <4>8, ZenonT(60) DEF ReadingParts
      <4>10. Reading(n, r + 1)'
        BY <1>0, <4>2, <4>9, SMTT(30) DEF Reading
      <4>11. Reading(Len(read), Len(parts))'
        BY <1>1, <4>2, <4>4, <4>10, Zenon
      <4>12. spot' \in Nat /\ cut' \in Nat /\ cut' <= Len(stream) /\ mode' \in {"next", "parts", "clean", "error"}
        BY <1>0, <1>6, <3>1, <4>2, Zenon
      <4> QED BY <4>2, <4>4, <4>11, <4>12, ReadsOn, Zenon
    <3> QED BY <3>4, <3>5, SMTT(30)
  <2> QED BY <2>8, <2>9
<1> QED BY <1>8, <1>9

LEMMA CommandReadStep ==
    ASSUME FramesInv, ReaderInv, UNCHANGED framesVars, CommandRead
    PROVE  ReaderInv'
<1>0. /\ mode = "parts" /\ missing = 0 /\ mode' = "next" /\ read' = Append(read, parts) /\ cut' = cut /\ spot' = spot
      /\ parts' = parts /\ stream' = stream /\ sent' = sent /\ frames' = frames
  BY SMTT(30) DEF CommandRead, framesVars
<1>1. PICK n, k, r : n = Len(read) /\ k = n + 1 /\ r = Len(parts)
  <2> WITNESS Len(read), Len(read) + 1, Len(parts)
  <2> QED BY Zenon
<1>2. ReadingParts(n, r)
  BY <1>0, <1>1, Zenon DEF ReaderInv, Reading
<1>3. /\ k \in 1..Len(sent) /\ k <= Len(sent) /\ r \in Nat /\ n \in Nat /\ r + 1 \in 1..Len(frames[k]) /\ Len(sent[k]) \in Nat
      /\ sent[k] \in Commands /\ Len(frames[k]) \in 1..Len(sent[k]) + 1 /\ missing = Len(sent[k]) - r
  BY <1>1, <1>2, InPartsFacts, Zenon
<1>4. r = Len(sent[k])
  BY <1>0, <1>3, SMTT(30)
<1>5. Len(frames[k]) = r + 1
  BY <1>3, <1>4, SMTT(30)
<1>6. InFull(k) /\ k # 0
  BY <1>1, <1>3, <1>4, <1>5, SMTT(30) DEF InFull
<1>7. PICK e : e = frames[k][r + 1].last
  BY Zenon
<1>8. e \in Nat /\ e = End(k)
  <2>1. e \in Nat
    BY <1>3, <1>7, FrameHeader, Zenon
  <2> QED BY <1>5, <1>6, <1>7, <2>1, Zenon DEF End
<1>9. spot = e + 1 /\ e <= cut
  <2>1. spot = e + 1 /\ spot <= cut + 1 /\ cut \in Nat
    BY <1>1, <1>2, <1>7, ReaderFacts, Zenon DEF ReadingParts
  <2> QED BY <1>8, <2>1, SMTT(30)
<1>10. parts = sent[k]
  <2>1. parts \in Seq(Seq(Bytes)) /\ sent[k] \in Seq(Seq(Bytes))
    BY <1>3, FramesAssumption, SMTT(30) DEF ReaderInv, ReaderTyped, Bytes
  <2>2. \A i \in 1..r : parts[i] = sent[k][i]
    BY <1>1, <1>2, Zenon DEF ReadingParts
  <2> QED BY <1>1, <1>4, <2>1, <2>2, SeqEqual, Zenon
<1>11. read \in Seq(Seq(Seq(Bytes))) /\ parts \in Seq(Seq(Bytes))
  BY SMTT(30) DEF ReaderInv, ReaderTyped
<1>12. read' \in Seq(Seq(Seq(Bytes))) /\ Len(read') = k /\ read'[k] = parts /\ \A i \in 1..n : read'[i] = read[i]
  <2>1. Append(read, parts) \in Seq(Seq(Seq(Bytes))) /\ Longer(read, parts, Append(read, parts))
    BY <1>11, Appended, Zenon
  <2> QED BY <1>0, <1>1, <2>1, Zenon DEF Longer
<1>13. ReaderTyped'
  BY <1>0, <1>12, SMTT(30) DEF ReaderInv, ReaderTyped
<1>14. ReadUp(k)'
  <2>1. \A i \in 1..k : i = k \/ i \in 1..n
    BY <1>1, <1>3, SMTT(30)
  <2>2. \A i \in 1..n : InFull(i) /\ read[i] = sent[i]
    BY <1>1, Zenon DEF ReaderInv, ReadUp
  <2>3. \A i \in 1..k : InFull(i) /\ read'[i] = sent[i]
    BY <1>6, <1>10, <1>12, <2>1, <2>2, Zenon
  <2>4. \A i \in 1..k : InFull(i)' /\ read'[i] = sent'[i]
    BY <1>0, <2>3, Zenon DEF InFull
  <2> QED BY <1>0, <1>3, <2>4, Zenon DEF ReadUp
<1>15. Reading(k, r)'
  <2>1. End(k)' = End(k)
    BY <1>0, Zenon DEF End
  <2> QED BY <1>0, <1>8, <1>9, <2>1, SMTT(30) DEF Reading
<1> QED BY <1>0, <1>1, <1>12, <1>13, <1>14, <1>15, Zenon DEF ReaderInv

LEMMA LogGrows ==
    ASSUME FramesInv, ReaderInv, FramesInv', Grown, mode = "writing", UNCHANGED readerVars
    PROVE  ReaderInv'
<1>1. mode' = mode /\ cut' = cut /\ spot' = spot /\ missing' = missing /\ parts' = parts /\ read' = read
  BY SMTT(30) DEF readerVars
<1>2. PICK n : n = Len(read)
  BY Zenon
<1>3. spot = 1 /\ cut = 0 /\ n = 0
  BY <1>2, Zenon DEF ReaderInv, Reading
<1>4. Len(sent') \in Nat /\ Len(stream') \in Nat
  BY LenProperties, Zenon DEF FramesInv
<1>5. 0 <= Len(stream') /\ n <= Len(sent') /\ \A i \in 1..n : FALSE
  BY <1>3, <1>4, SMTT(30)
<1>6. ReaderTyped'
  BY <1>1, <1>3, <1>5, SMTT(30) DEF ReaderInv, ReaderTyped
<1>7. ReadUp(n)'
  BY <1>5, ZenonT(60) DEF ReadUp
<1>8. \A r : Reading(n, r)'
  BY <1>1, <1>3, SMTT(30) DEF Reading
<1> QED BY <1>1, <1>2, <1>6, <1>7, <1>8, Zenon DEF ReaderInv

LEMMA ReaderBegins == LogInit => FramesInv /\ ReaderInv
<1> SUFFICES ASSUME LogInit PROVE FramesInv /\ ReaderInv
  OBVIOUS
<1>1. FramesInv
  BY FramesBegin DEF LogInit
<1>2. mode = "writing" /\ cut = 0 /\ spot = 1 /\ parts = <<>> /\ read = <<>>
  BY SMTT(30) DEF LogInit, ReaderInit
<1>3. Len(stream) \in Nat /\ Len(sent) \in Nat
  BY <1>1, LenProperties, SMTT(30) DEF FramesInv
<1>4. PICK n : n = Len(read)
  BY Zenon
<1>5. n = 0 /\ n <= Len(sent) /\ \A i \in 1..n : FALSE
  BY <1>2, <1>3, <1>4, SMTT(30)
<1>6. ReaderTyped
  BY <1>2, <1>3, SMTT(30) DEF ReaderTyped
<1>7. ReadUp(n)
  BY <1>5, ZenonT(60) DEF ReadUp
<1>8. \A r : Reading(n, r)
  BY <1>2, <1>5, SMTT(30) DEF Reading
<1> QED BY <1>1, <1>4, <1>6, <1>7, <1>8, Zenon DEF ReaderInv

LEMMA ReaderStep == FramesInv /\ ReaderInv /\ [LogNext]_logVars => FramesInv' /\ ReaderInv'
<1> SUFFICES ASSUME FramesInv, ReaderInv, [LogNext]_logVars PROVE FramesInv' /\ ReaderInv'
  OBVIOUS
<1>1. CASE mode = "writing" /\ WriteFrame /\ UNCHANGED readerVars
  BY <1>1, WriteStep, LogGrows, Zenon
<1>2. ASSUME UNCHANGED framesVars PROVE FramesInv'
  <2>1. stream' = stream /\ sent' = sent /\ frames' = frames
    BY <1>2 DEF framesVars
  <2> QED BY <2>1, Zenon DEF FramesInv, InFull, End
<1>3. CASE ReaderNext /\ UNCHANGED framesVars
  BY <1>2, <1>3, CrashStep, NextCommandStep, EndOfFileStep, NextPartStep, CommandReadStep, Zenon DEF ReaderNext
<1>4. CASE UNCHANGED logVars
  <2>1. UNCHANGED framesVars /\ UNCHANGED readerVars
    BY <1>4 DEF logVars
  <2>2. ReaderInv'
    BY <2>1, Zenon DEF framesVars, readerVars, ReaderInv, ReaderTyped, ReadUp, InFull, End, Reading, ReadingParts, Torn, Beyond
  <2> QED BY <1>2, <2>1, <2>2
<1> QED BY <1>1, <1>3, <1>4, Zenon DEF LogNext

LEMMA ReaderInvSafe == FramesInv /\ ReaderInv => TornLogDetected
<1> SUFFICES ASSUME FramesInv, ReaderInv PROVE TornLogDetected
  OBVIOUS
<1>1. PICK n : n = Len(read)
  BY Zenon
<1>2. /\ n <= Len(sent) /\ (\A i \in 1..n : InFull(i) /\ read[i] = sent[i])
      /\ (mode = "clean" => cut = End(n)) /\ (mode = "error" => Torn(n))
  BY <1>1, Zenon DEF ReaderInv, ReadUp, Reading
<1>3. /\ n < Len(sent) => n + 1 <= Len(sent)
      /\ n < Len(sent) => n + 1 \in 0..Len(sent)
      /\ cut \in Nat
  BY <1>1, ReaderFacts, SMTT(30)
<1>4. n < Len(sent) => End(n + 1) \in Nat
  BY <1>3, EndTypes, Zenon
<1>5. ASSUME Torn(n) PROVE n < Len(sent) /\ End(n) < cut /\ (InFull(n + 1) => End(n + 1) > cut)
  BY <1>3, <1>5, Zenon DEF Torn, Beyond
<1>6. n < Len(sent) /\ End(n + 1) > cut => cut < End(n + 1)
  BY <1>3, <1>4, SMTT(30)
<1> QED BY <1>1, <1>2, <1>5, <1>6, Zenon DEF TornLogDetected

\* CommandReader, on a log of any commands that a crash has cut at any byte: it returns
\* the commands that are there in full, in order and unchanged, and reports a clean end
\* exactly when the cut is between two commands.
THEOREM TornLogsAreDetected == LogSpec => []TornLogDetected
<1>1. FramesInv /\ ReaderInv => TornLogDetected
  BY ReaderInvSafe
<1> QED BY <1>1, ReaderBegins, ReaderStep, PTL DEF LogSpec
=============================================================================
