--------------------------- MODULE HashKeys_proofs ---------------------------
(***************************************************************************)
(* Proofs about HashKeys, for any connections, fields and bounds: types,    *)
(* HSET reaches the hash of its key, HDEL removes an empty hash or one that *)
(* an HSET filled after its test, no empty hash is left behind, and growth  *)
(* is counted.                                                              *)
(***************************************************************************)
EXTENDS HashKeys, FiniteSetTheorems, TLAPS

Pcs == {"idle", "hset", "fill", "grown", "hget", "lazy", "taken", "hdel", "strip", "shrink",
        "sweep", "remove", "del", "set", "expire"}
Rec == [pc: Pcs, now: 0..MaxClock, fields: SUBSET Fields, put: SUBSET Bytes, obj: Objs \cup {Nil, Str}, old: Nat,
        detached: BOOLEAN, late: BOOLEAN]

\* A handler past its lookup holds an object, and HSET has fields to add.
Local(r) ==
    /\ r.pc \in {"fill", "grown", "strip", "shrink"} => r.obj \in Objs
    /\ r.pc \in {"hset", "fill"} => r.put # {}

Typed == TypeOK /\ \A c \in Conns : Local(th[c])

LEMMA BytesFinite == IsFiniteSet(Bytes)
<1>1. IsFiniteSet(0..MaxLen)
  BY BoundsAssumption, FS_Interval
<1> QED
  BY <1>1, SetsAssumption, FS_Product DEF Bytes

LEMMA HashSizeNat ==
    ASSUME heap \in [Objs -> SUBSET Bytes], NEW o \in Objs
    PROVE  IsFiniteSet(heap[o]) /\ Cardinality(heap[o]) \in Nat /\ HashSize(o) \in Nat
<1>1. heap[o] \subseteq Bytes
  OBVIOUS
<1>2. IsFiniteSet(heap[o])
  BY <1>1, BytesFinite, FS_Subset
<1>3. Cardinality(heap[o]) \in Nat
  BY <1>2, FS_CardinalityType
<1> QED
  BY <1>2, <1>3 DEF HashSize, Overhead

LEMMA SizeOfNat ==
    ASSUME TypeOK, NEW v \in Objs \cup {Nil, Str}
    PROVE  SizeOf(v) \in Nat
<1>1. CASE v = Nil
  BY <1>1, SetsAssumption DEF SizeOf
<1>2. CASE v = Str
  <2>1. v # Nil
    BY <1>2, SetsAssumption
  <2>2. SizeOf(v) = StringSize
    BY <1>2, <2>1 DEF SizeOf
  <2> QED
    BY <2>2 DEF StringSize
<1>3. CASE v \in Objs
  <2>1. HashSize(v) \in Nat
    BY <1>3, HashSizeNat DEF TypeOK
  <2> QED
    BY <1>3, <2>1, SetsAssumption DEF SizeOf
<1> QED
  BY <1>1, <1>2, <1>3

LEMMA IdleGood ==
    Idle \in Rec /\ Local(Idle)
BY BoundsAssumption DEF Idle, Rec, Pcs, Local

LEMMA NoEntryGood ==
    NoEntry \in [val: Objs \cup {Nil, Str}, exp: 1..Never] /\ NoEntry.val = Nil
BY BoundsAssumption DEF NoEntry, Never

\* Taking the entry out of the map only marks the handlers.
LEMMA DetachedGood ==
    ASSUME th \in [Conns -> Rec], \A c \in Conns : Local(th[c])
    PROVE  /\ Detached \in [Conns -> Rec]
           /\ \A c \in Conns :
                /\ Local(Detached[c])
                /\ Detached[c].pc = th[c].pc /\ Detached[c].obj = th[c].obj
                /\ Detached[c].old = th[c].old /\ Detached[c].late = th[c].late
                /\ Detached[c].detached = (th[c].detached \/ (th[c].pc = "fill" /\ th[c].obj = entry.val))
<1> SUFFICES ASSUME NEW c \in Conns
             PROVE  /\ Detached[c] \in Rec
                    /\ Local(Detached[c])
                    /\ Detached[c].pc = th[c].pc /\ Detached[c].obj = th[c].obj
                    /\ Detached[c].old = th[c].old /\ Detached[c].late = th[c].late
                    /\ Detached[c].detached = (th[c].detached \/ (th[c].pc = "fill" /\ th[c].obj = entry.val))
  BY Zenon DEF Detached
<1> DEFINE d == th[c].detached \/ (th[c].pc = "fill" /\ th[c].obj = entry.val)
           r == [th[c] EXCEPT !.detached = d]
<1>1. Detached[c] = r
  BY DEF Detached
<1>2. d \in BOOLEAN
  OBVIOUS
<1> HIDE DEF d
<1>3. /\ r \in Rec /\ r.pc = th[c].pc /\ r.obj = th[c].obj /\ r.put = th[c].put
      /\ r.old = th[c].old /\ r.late = th[c].late /\ r.detached = d
  BY <1>2 DEF Rec
<1> QED
  BY <1>1, <1>3 DEF Local, d

\* ... and whoever takes it goes on to measure it.
LEMMA TookGood ==
    ASSUME Typed, NEW c \in Conns
    PROVE  /\ Took(c) \in [Conns -> Rec] /\ \A d \in Conns : Local(Took(c)[d])
           /\ Took(c)[c].pc \in {"idle", "taken"}
           /\ \A d \in Conns : d # c => Took(c)[d] = Detached[d]
<1>1. th \in [Conns -> Rec] /\ \A d \in Conns : Local(th[d])
  BY DEF Typed, TypeOK, Rec, Pcs
<1>2. Detached \in [Conns -> Rec] /\ \A d \in Conns : Local(Detached[d])
  BY <1>1, DetachedGood, Zenon
<1> DEFINE r == [Idle EXCEPT !.pc = "taken", !.obj = entry.val]
           q == IF entry.val = Nil THEN Idle ELSE r
<1>3. r \in Rec /\ Local(r) /\ r.pc = "taken"
  <2>1. entry.val \in Objs \cup {Nil, Str} /\ Idle \in Rec
    BY IdleGood DEF Typed, TypeOK
  <2>2. r \in Rec
    BY <2>1, Zenon DEF Rec, Pcs
  <2>3. r.pc = "taken"
    BY <2>1 DEF Rec
  <2> QED
    BY <2>2, <2>3 DEF Local
<1> HIDE DEF r
<1>4. q \in Rec /\ Local(q) /\ q.pc \in {"idle", "taken"}
  BY <1>3, IdleGood DEF Idle
<1> HIDE DEF q
<1>5. Took(c) = [Detached EXCEPT ![c] = q]
  BY DEF Took, q, r
<1> QED
  BY <1>2, <1>4, <1>5

LEMMA BecomeGood ==
    ASSUME Typed, NEW c \in Conns, NEW r \in Rec, Local(r), Become(c, r)
    PROVE  th' \in [Conns -> Rec] /\ \A d \in Conns : Local(th'[d])
BY DEF Typed, TypeOK, Rec, Pcs, Become

----------------------------------------------------------------------------
(* Types. *)

\* A step that leaves the threads good and the rest in range.
LEMMA TypedAgain ==
    ASSUME Typed, th' \in [Conns -> Rec], \A c \in Conns : Local(th'[c]),
           entry' \in [val: Objs \cup {Nil, Str}, exp: 1..Never], heap' \in [Objs -> SUBSET Bytes],
           readers' \subseteq Conns, mem' \in Int, UNCHANGED <<clock, sent, shrunk>>
    PROVE  Typed'
BY DEF Typed, TypeOK, Rec, Pcs

LEMMA TypedInit ==
    Init => Typed
<1> SUFFICES ASSUME Init PROVE Typed
  OBVIOUS
<1>1. th \in [Conns -> Rec] /\ \A c \in Conns : Local(th[c])
  BY IdleGood DEF Init
<1>2. entry \in [val: Objs \cup {Nil, Str}, exp: 1..Never]
  BY NoEntryGood DEF Init
<1>3. shrunk \in BOOLEAN
  BY Zenon DEF Init
<1>4. /\ heap \in [Objs -> SUBSET Bytes] /\ readers \subseteq Conns /\ mem \in Int
      /\ clock \in 0..MaxClock /\ sent \in 0..MaxCommands
  BY BoundsAssumption DEF Init
<1> QED
  BY <1>1, <1>2, <1>3, <1>4 DEF Typed, TypeOK, Rec, Pcs

LEMMA TypedReceive ==
    ASSUME Typed, NEW c \in Conns, NEW p \in {"hset", "hdel", "hget", "del", "set", "expire"},
           NEW S \in SUBSET Fields, NEW B \in SUBSET Bytes, p = "hset" => B # {}, Receive(c, p, S, B)
    PROVE  Typed'
<1>1. PICK t \in 0..clock : Become(c, [Idle EXCEPT !.pc = p, !.now = t, !.fields = S, !.put = B])
  BY Zenon DEF Receive
<1> DEFINE r == [Idle EXCEPT !.pc = p, !.now = t, !.fields = S, !.put = B]
<1>2. t \in 0..MaxClock
  BY BoundsAssumption DEF Typed, TypeOK
<1>3. Idle \in Rec
  BY IdleGood
<1>4. r \in Rec /\ Local(r)
  <2>1. r \in Rec
    BY <1>2, <1>3, Zenon DEF Rec, Pcs
  <2>2. r.pc = p /\ r.put = B
    BY <1>3 DEF Rec
  <2> QED
    BY <2>1, <2>2 DEF Local
<1> HIDE DEF r
<1>5. th' \in [Conns -> Rec] /\ \A d \in Conns : Local(th'[d])
  BY <1>1, <1>4, BecomeGood DEF r
<1>6. sent' \in 0..MaxCommands
  BY BoundsAssumption DEF Receive, Typed, TypeOK
<1>7. shrunk' \in BOOLEAN
  BY DEF Receive
<1> QED
  BY <1>5, <1>6, <1>7 DEF Receive, Typed, TypeOK, Rec, Pcs

\* Whatever HSET writes has a byte: the name of a field.
LEMMA WrittenBytes ==
    ASSUME NEW S \in (SUBSET Fields) \ {{}}, NEW n \in [S -> 0..MaxLen]
    PROVE  Written(n) \in SUBSET Bytes /\ Written(n) # {}
<1>1. PICK f \in S : TRUE
  OBVIOUS
<1>2. <<f, 0>> \in Bytes /\ 0 <= n[f] /\ f \in DOMAIN n
  BY <1>1, BoundsAssumption DEF Bytes
<1>3. <<f, 0>> \in Written(n)
  BY <1>2 DEF Written
<1> QED
  BY <1>3 DEF Written

LEMMA FilledBytes ==
    ASSUME Typed, NEW c \in Conns, th[c].pc = "fill"
    PROVE  th[c].obj \in Objs /\ Filled(c) \in SUBSET Bytes /\ Filled(c) # {}
<1>1. th[c] \in Rec /\ Local(th[c]) /\ heap \in [Objs -> SUBSET Bytes]
  BY DEF Typed, TypeOK, Rec, Pcs
<1>2. th[c].obj \in Objs /\ th[c].put # {} /\ th[c].put \subseteq Bytes
  BY <1>1 DEF Local, Rec
<1> QED
  BY <1>1, <1>2 DEF Filled, Without

\* What HsetFill does to the handlers.
LEMMA FillThreads ==
    ASSUME Typed, NEW c \in Conns, HsetFill(c)
    PROVE  /\ th' \in [Conns -> Rec] /\ \A d \in Conns : Local(th'[d])
           /\ th'[c].pc = "grown" /\ th'[c].obj = th[c].obj /\ th'[c].old = th[c].old
           /\ \A d \in Conns \ {c} :
                /\ th'[d].pc = th[d].pc /\ th'[d].obj = th[d].obj /\ th'[d].old = th[d].old
                /\ th'[d].detached = th[d].detached
                /\ th'[d].late = (th[d].late \/ (th[d].pc = "remove" /\ th[c].obj = entry.val))
<1>1. th \in [Conns -> Rec] /\ (\A d \in Conns : Local(th[d])) /\ th[c].pc = "fill"
  BY DEF Typed, TypeOK, Rec, Pcs, HsetFill, At
<1> DEFINE r == [Idle EXCEPT !.pc = "grown", !.obj = th[c].obj, !.old = th[c].old]
           l(d) == th[d].late \/ (th[d].pc = "remove" /\ th[c].obj = entry.val)
           q(d) == [th[d] EXCEPT !.late = l(d)]
<1>2. th' = [d \in Conns |-> IF d = c THEN r ELSE q(d)]
  BY Zenon DEF HsetFill
<1>3. r \in Rec /\ Local(r) /\ r.pc = "grown" /\ r.obj = th[c].obj /\ r.old = th[c].old
  <2>1. Idle \in Rec /\ th[c].obj \in Objs /\ th[c].old \in Nat
    BY <1>1, IdleGood DEF Local, Rec
  <2>2. r \in Rec
    BY <2>1, Zenon DEF Rec, Pcs
  <2>3. r.pc = "grown" /\ r.obj = th[c].obj /\ r.old = th[c].old
    BY <2>1 DEF Rec
  <2> QED
    BY <2>1, <2>2, <2>3 DEF Local
<1>4. ASSUME NEW d \in Conns
      PROVE  /\ q(d) \in Rec /\ Local(q(d)) /\ q(d).pc = th[d].pc /\ q(d).obj = th[d].obj
             /\ q(d).old = th[d].old /\ q(d).detached = th[d].detached /\ q(d).late = l(d)
  <2>1. l(d) \in BOOLEAN /\ th[d] \in Rec /\ Local(th[d])
    BY <1>1
  <2> HIDE DEF l
  <2>2. /\ q(d) \in Rec /\ q(d).pc = th[d].pc /\ q(d).obj = th[d].obj /\ q(d).put = th[d].put
        /\ q(d).old = th[d].old /\ q(d).detached = th[d].detached /\ q(d).late = l(d)
    BY <2>1 DEF Rec
  <2> QED
    BY <2>1, <2>2 DEF Local
<1> HIDE DEF r, q
<1>5. th'[c] = r /\ \A d \in Conns \ {c} : th'[d] = q(d)
  BY <1>2
<1>6. th' \in [Conns -> Rec]
  BY <1>2, <1>3, <1>4
<1> QED
  BY <1>3, <1>4, <1>5, <1>6, Zenon

LEMMA TypedFill ==
    ASSUME Typed, NEW c \in Conns, HsetFill(c)
    PROVE  Typed'
<1>1. th[c].pc = "fill" /\ heap' = [heap EXCEPT ![th[c].obj] = Filled(c)] /\ heap \in [Objs -> SUBSET Bytes]
  BY DEF HsetFill, At, Typed, TypeOK
<1>2. heap' \in [Objs -> SUBSET Bytes]
  BY <1>1, FilledBytes, Zenon
<1>3. shrunk' \in BOOLEAN
  BY DEF HsetFill
<1>4. UNCHANGED <<entry, readers, mem, clock, sent>>
  BY DEF HsetFill
<1> QED
  BY <1>2, <1>3, <1>4, FillThreads DEF Typed, TypeOK, Rec, Pcs

LEMMA TypedHset ==
    ASSUME Typed, NEW c \in Conns, HsetDropExpired(c) \/ HsetEntry(c) \/ HsetFill(c) \/ HsetAccount(c)
    PROVE  Typed'
<1>t. /\ th \in [Conns -> Rec] /\ th[c] \in Rec /\ Local(th[c]) /\ \A d \in Conns : Local(th[d])
      /\ entry \in [val: Objs \cup {Nil, Str}, exp: 1..Never] /\ heap \in [Objs -> SUBSET Bytes]
      /\ readers \subseteq Conns /\ mem \in Int /\ entry.val \in Objs \cup {Nil, Str}
  BY DEF Typed, TypeOK, Rec, Pcs
<1>1. CASE HsetDropExpired(c)
  <2>1. th' \in [Conns -> Rec] /\ \A d \in Conns : Local(th'[d])
    BY <1>1, <1>t, DetachedGood DEF HsetDropExpired
  <2>2. mem' \in Int
    <3>1. SizeOf(entry.val) \in Nat
      BY <1>t, SizeOfNat DEF Typed
    <3> QED
      BY <1>1, <1>t, <3>1 DEF HsetDropExpired
  <2> QED
    BY <1>1, <1>t, <2>1, <2>2, NoEntryGood, TypedAgain DEF HsetDropExpired
<1>2. CASE HsetEntry(c)
  <2>0. 0 \in 0..MaxClock
    BY BoundsAssumption
  <2>1. th[c].pc = "hset" /\ th[c].put # {}
    BY <1>2, <1>t DEF HsetEntry, At, Local
  <2>2. ASSUME NEW o \in Objs, NEW z \in Nat
        PROVE  WithObject(c, o, z) \in Rec /\ Local(WithObject(c, o, z))
    <3>1. WithObject(c, o, z) \in Rec
      BY <1>t, <2>0, Zenon DEF WithObject, Rec, Pcs
    <3>2. WithObject(c, o, z).obj = o /\ WithObject(c, o, z).put = th[c].put
      BY <1>t DEF WithObject, Rec
    <3> QED
      BY <2>1, <3>1, <3>2 DEF Local
  <2>3. UNCHANGED <<readers, mem, clock, sent, shrunk>>
    BY <1>2 DEF HsetEntry
  <2>4. CASE Answer(c) /\ UNCHANGED <<entry, heap>>
    BY <1>t, <2>3, <2>4, IdleGood, BecomeGood, TypedAgain DEF Answer
  <2>5. CASE IsHash /\ Become(c, WithObject(c, entry.val, HashSize(entry.val))) /\ UNCHANGED <<entry, heap>>
    <3>1. HashSize(entry.val) \in Nat /\ entry.val \in Objs
      BY <1>t, <2>5, HashSizeNat DEF IsHash
    <3>2. th' \in [Conns -> Rec] /\ \A d \in Conns : Local(th'[d])
      BY <2>2, <2>5, <3>1, BecomeGood
    <3> QED
      BY <1>t, <2>3, <2>5, <3>2, TypedAgain
  <2>6. ASSUME NEW o \in Objs \ InUse, entry' = [val |-> o, exp |-> Never],
               heap' = [heap EXCEPT ![o] = {}], Become(c, WithObject(c, o, 0))
        PROVE  Typed'
    <3>1. th' \in [Conns -> Rec] /\ \A d \in Conns : Local(th'[d])
      BY <2>2, <2>6, BecomeGood
    <3>2. entry' \in [val: Objs \cup {Nil, Str}, exp: 1..Never]
      BY <2>6, BoundsAssumption DEF Never
    <3>3. heap' \in [Objs -> SUBSET Bytes]
      BY <1>t, <2>6
    <3> QED
      BY <1>t, <2>3, <3>1, <3>2, <3>3, TypedAgain
  <2> QED
    BY <1>2, <2>4, <2>5, <2>6 DEF HsetEntry
<1>3. CASE HsetFill(c)
  BY <1>3, TypedFill
<1>4. CASE HsetAccount(c)
  <2>1. th[c].obj \in Objs /\ th[c].old \in Nat
    BY <1>4, <1>t DEF HsetAccount, At, Local, Rec
  <2>2. HashSize(th[c].obj) \in Nat
    BY <1>t, <2>1, HashSizeNat
  <2>3. mem' \in Int
    BY <1>4, <1>t, <2>1, <2>2 DEF HsetAccount
  <2> QED
    BY <1>4, <1>t, <2>3, IdleGood, BecomeGood, TypedAgain DEF HsetAccount, Answer
<1> QED
  BY <1>1, <1>2, <1>3, <1>4

\* HDEL after its removals.
LEMMA StrippedGood ==
    ASSUME NEW c \in Conns, th[c] \in Rec, th[c].obj \in Objs, NEW next \in {"idle", "sweep", "shrink"}
    PROVE  Stripped(c, next) \in Rec /\ Local(Stripped(c, next)) /\ Stripped(c, next).pc = next
<1>1. Idle \in Rec /\ Idle.pc = "idle" /\ Local(Idle) /\ th[c].old \in Nat
  BY IdleGood DEF Idle, Rec
<1>2. CASE next = "idle"
  BY <1>1, <1>2 DEF Stripped
<1>3. CASE next = "sweep"
  <2> DEFINE r == [Idle EXCEPT !.pc = "sweep", !.old = th[c].old]
  <2>1. r \in Rec
    BY <1>1, Zenon DEF Rec, Pcs
  <2>2. r.pc = "sweep"
    BY <1>1 DEF Rec
  <2>3. Stripped(c, next) = r
    BY <1>3 DEF Stripped
  <2> QED
    BY <1>3, <2>1, <2>2, <2>3 DEF Local
<1>4. CASE next = "shrink"
  <2> DEFINE r == [Idle EXCEPT !.pc = "shrink", !.old = th[c].old, !.obj = th[c].obj]
  <2>1. r \in Rec
    BY <1>1, Zenon DEF Rec, Pcs
  <2>2. r.pc = "shrink" /\ r.obj = th[c].obj
    BY <1>1 DEF Rec
  <2>3. Stripped(c, next) = r
    BY <1>4 DEF Stripped
  <2> QED
    BY <1>4, <2>1, <2>2, <2>3 DEF Local
<1> QED
  BY <1>2, <1>3, <1>4

LEMMA TypedHdel ==
    ASSUME Typed, NEW c \in Conns,
           \/ HgetRead(c) \/ HdelGet(c) \/ HdelStrip(c) \/ HdelAccount(c) \/ ExpireKey(c)
    PROVE  Typed'
<1>t. /\ th \in [Conns -> Rec] /\ th[c] \in Rec /\ Local(th[c]) /\ \A d \in Conns : Local(th[d])
      /\ entry \in [val: Objs \cup {Nil, Str}, exp: 1..Never] /\ heap \in [Objs -> SUBSET Bytes]
      /\ readers \subseteq Conns /\ mem \in Int /\ entry.val \in Objs \cup {Nil, Str}
  BY DEF Typed, TypeOK, Rec, Pcs
<1> DEFINE lazy == [Idle EXCEPT !.pc = "lazy", !.now = th[c].now]
<1>l. lazy \in Rec /\ Local(lazy)
  <2>1. Idle \in Rec /\ th[c].now \in 0..MaxClock
    BY <1>t, IdleGood DEF Rec
  <2>2. lazy \in Rec
    BY <2>1, Zenon DEF Rec, Pcs
  <2>3. lazy.pc = "lazy"
    BY <2>1 DEF Rec
  <2> QED
    BY <2>2, <2>3 DEF Local
<1> HIDE DEF lazy
<1>n. Become(c, lazy) \/ Become(c, Idle) => th' \in [Conns -> Rec] /\ \A d \in Conns : Local(th'[d])
  BY <1>l, IdleGood, BecomeGood
<1>1. CASE NotFound(c)
  BY <1>1, <1>t, <1>n, TypedAgain DEF NotFound, lazy
<1>2. CASE HdelGet(c) /\ ~NotFound(c)
  <2> DEFINE z == HashSize(entry.val)
             r == [th[c] EXCEPT !.pc = "strip", !.now = 0, !.obj = entry.val, !.old = z]
  <2>1. /\ entry.val \in Objs /\ readers' = readers \cup {c} /\ Become(c, r)
        /\ UNCHANGED <<entry, heap, mem, clock, sent, shrunk>>
    BY <1>2 DEF HdelGet, IsHash
  <2>2. z \in Nat
    BY <1>t, <2>1, HashSizeNat
  <2> HIDE DEF z
  <2>3. r \in Rec /\ Local(r)
    <3>1. 0 \in 0..MaxClock
      BY BoundsAssumption
    <3>2. r \in Rec
      BY <1>t, <2>1, <2>2, <3>1, Zenon DEF Rec, Pcs
    <3>3. r.pc = "strip" /\ r.obj = entry.val
      BY <1>t DEF Rec
    <3> QED
      BY <2>1, <3>2, <3>3 DEF Local
  <2> HIDE DEF r
  <2> QED
    BY <1>t, <2>1, <2>3, BecomeGood, TypedAgain
<1>3. CASE HdelStrip(c)
  <2> DEFINE kept == Without(th[c].obj, th[c].fields)
             next == IF kept = heap[th[c].obj] THEN "idle" ELSE IF kept = {} THEN "sweep" ELSE "shrink"
             r == Stripped(c, next)
  <2>1. /\ heap' = [heap EXCEPT ![th[c].obj] = kept]
        /\ readers' = IF next = "shrink" THEN readers ELSE readers \ {c}
        /\ Become(c, r)
        /\ UNCHANGED <<entry, mem, clock, sent, shrunk>>
        /\ th[c].pc = "strip"
    BY <1>3, Zenon DEF HdelStrip, At
  <2>2. th[c].obj \in Objs /\ kept \in SUBSET Bytes /\ next \in {"idle", "sweep", "shrink"}
    BY <1>t, <2>1 DEF Local, Without
  <2> HIDE DEF next, kept
  <2>3. heap' \in [Objs -> SUBSET Bytes] /\ readers' \subseteq Conns
    BY <1>t, <2>1, <2>2
  <2>4. r \in Rec /\ Local(r)
    BY <1>t, <2>1, <2>2, StrippedGood
  <2> HIDE DEF r
  <2>5. th' \in [Conns -> Rec] /\ \A d \in Conns : Local(th'[d])
    BY <2>1, <2>4, BecomeGood
  <2> QED
    BY <1>t, <2>1, <2>3, <2>5, TypedAgain
<1>4. CASE HdelAccount(c)
  <2>1. th[c].obj \in Objs /\ th[c].old \in Nat
    BY <1>4, <1>t DEF HdelAccount, At, Local, Rec
  <2>2. HashSize(th[c].obj) \in Nat
    BY <1>t, <2>1, HashSizeNat
  <2>3. mem' \in Int
    BY <1>4, <1>t, <2>1, <2>2 DEF HdelAccount
  <2> QED
    BY <1>4, <1>t, <2>3, IdleGood, BecomeGood, TypedAgain DEF HdelAccount, Answer
<1>5. CASE ExpireKey(c)
  <2>1. Become(c, lazy) \/ Become(c, Idle)
    BY <1>5 DEF ExpireKey, lazy
  <2>2. th[c].now + 1 \in 1..Never
    BY <1>t, BoundsAssumption DEF Rec, Never
  <2>3. entry' = entry \/ entry' = [entry EXCEPT !.exp = th[c].now + 1]
    BY <1>5 DEF ExpireKey
  <2>4. entry' \in [val: Objs \cup {Nil, Str}, exp: 1..Never]
    BY <1>t, <2>2, <2>3
  <2> QED
    BY <1>5, <1>t, <1>n, <2>1, <2>4, TypedAgain DEF ExpireKey
<1> QED
  BY <1>1, <1>2, <1>3, <1>4, <1>5 DEF HgetRead

\* The steps that take the entry out of the map, or put a string in its place, and the
\* steps before and after.
LEMMA TypedLeave ==
    ASSUME Typed, NEW c \in Conns,
           LazyRemove(c) \/ HdelSweep(c) \/ HdelRemove(c) \/ Discount(c) \/ DelKey(c) \/ SetKey(c)
    PROVE  Typed'
<1>t. /\ entry \in [val: Objs \cup {Nil, Str}, exp: 1..Never] /\ heap \in [Objs -> SUBSET Bytes]
      /\ readers \subseteq Conns /\ mem \in Int /\ th[c].old \in Nat /\ th[c].obj \in Objs \cup {Nil, Str}
  BY DEF Typed, TypeOK, Rec, Pcs
<1> DEFINE r == [Idle EXCEPT !.pc = "remove"]
<1>r. r \in Rec /\ Local(r)
  <2>1. Idle \in Rec
    BY IdleGood
  <2>2. r \in Rec
    BY <2>1, Zenon DEF Rec, Pcs
  <2>3. r.pc = "remove"
    BY <2>1 DEF Rec
  <2> QED
    BY <2>2, <2>3 DEF Local
<1>1. /\ th' = Took(c) \/ Become(c, Idle) \/ Become(c, r)
      /\ \/ entry' = NoEntry \/ entry' = [val |-> Str, exp |-> Never] \/ UNCHANGED entry
      /\ UNCHANGED <<heap, readers, clock, sent, shrunk>>
  BY DEF LazyRemove, HdelSweep, HdelRemove, Discount, DelKey, SetKey, Answer
<1> HIDE DEF r
<1>2. th' \in [Conns -> Rec] /\ \A d \in Conns : Local(th'[d])
  BY <1>1, <1>r, TookGood, BecomeGood, IdleGood
<1>3. entry' \in [val: Objs \cup {Nil, Str}, exp: 1..Never]
  <2>1. [val |-> Str, exp |-> Never] \in [val: Objs \cup {Nil, Str}, exp: 1..Never]
    BY BoundsAssumption DEF Never
  <2> QED
    BY <1>1, <1>t, <2>1, NoEntryGood
<1>4. mem' \in Int
  <2>1. SizeOf(th[c].obj) \in Nat
    BY <1>t, SizeOfNat DEF Typed
  <2> QED
    BY <1>t, <2>1 DEF LazyRemove, HdelSweep, HdelRemove, Discount, DelKey, SetKey, StringSize, Overhead
<1> QED
  BY <1>1, <1>2, <1>3, <1>4, <1>t, TypedAgain

LEMMA TypedNext ==
    Typed /\ [Next]_vars => Typed'
<1> SUFFICES ASSUME Typed, [Next]_vars PROVE Typed'
  OBVIOUS
<1>1. ASSUME NEW c \in Conns, NEW S \in (SUBSET Fields) \ {{}}, NEW n \in [S -> 0..MaxLen],
             Receive(c, "hset", S, Written(n))
      PROVE  Typed'
  <2>1. Written(n) \in SUBSET Bytes /\ Written(n) # {}
    BY WrittenBytes
  <2> QED
    BY <1>1, <2>1, TypedReceive
<1>2. ASSUME NEW c \in Conns, NEW S \in SUBSET Fields, NEW p \in {"hdel", "hget", "del", "set", "expire"},
             Receive(c, p, S, {})
      PROVE  Typed'
  BY <1>2, TypedReceive
<1>3. ASSUME NEW c \in Conns, HandlerStep(c)
      PROVE  Typed'
  BY <1>3, TypedHset, TypedHdel, TypedLeave DEF HandlerStep
<1>4. CASE Tick
  <2>1. clock' \in 0..MaxClock
    BY <1>4, BoundsAssumption DEF Tick, Typed, TypeOK
  <2> QED
    BY <1>4, <2>1 DEF Tick, Typed, TypeOK
<1>5. CASE UNCHANGED vars
  BY <1>5 DEF vars, Typed, TypeOK
<1> QED
  BY <1>1, <1>2, <1>3, <1>4, <1>5 DEF Next

LEMMA TypedHolds ==
    Spec => []Typed
BY TypedInit, TypedNext, PTL DEF Spec

\* Every variable stays in its range.
THEOREM TypeCorrect ==
    Spec => []TypeOK
<1>1. Typed => TypeOK
  BY DEF Typed
<1> QED
  BY <1>1, TypedHolds, PTL

----------------------------------------------------------------------------
(* HSET and the hash of its key. *)

\* An HSET about to fill a hash holds the hash of the key, or has been told otherwise.
Attached == \A c \in Conns : th[c].pc = "fill" => th[c].obj = entry.val \/ th[c].detached

LEMMA AttachedLeave ==
    ASSUME Typed, Attached, th' = Detached \/ (\E c \in Conns : th' = Took(c))
    PROVE  Attached'
<1> SUFFICES ASSUME NEW d \in Conns, th'[d].pc = "fill"
             PROVE  th'[d].detached
  BY DEF Attached
<1>1. th \in [Conns -> Rec] /\ \A c \in Conns : Local(th[c])
  BY DEF Typed, TypeOK, Rec, Pcs
<1>2. th'[d] = Detached[d]
  BY TookGood
<1>3. th[d].pc = "fill"
  BY <1>1, <1>2, DetachedGood
<1> QED
  BY <1>1, <1>2, <1>3, DetachedGood, Zenon DEF Attached

LEMMA AttachedNext ==
    Typed /\ Attached /\ [Next]_vars => Attached'
<1> SUFFICES ASSUME Typed, Attached, [Next]_vars PROVE Attached'
  OBVIOUS
<1>t. /\ th \in [Conns -> Rec] /\ \A c \in Conns : Local(th[c])
      /\ entry \in [val: Objs \cup {Nil, Str}, exp: 1..Never]
  BY DEF Typed, TypeOK, Rec, Pcs
<1>1. ASSUME NEW c \in Conns, NEW r, Become(c, r), r.pc # "fill", entry'.val = entry.val
      PROVE  Attached'
  BY <1>1, <1>t DEF Attached, Become
<1>2. ASSUME NEW c \in Conns, NEW p \in {"hset", "hdel", "hget", "del", "set", "expire"}, NEW S, NEW B,
             Receive(c, p, S, B)
      PROVE  Attached'
  <2>1. PICK t \in 0..clock : Become(c, [Idle EXCEPT !.pc = p, !.now = t, !.fields = S, !.put = B])
    BY <1>2, Zenon DEF Receive
  <2>2. [Idle EXCEPT !.pc = p, !.now = t, !.fields = S, !.put = B].pc = p
    BY IdleGood DEF Rec
  <2> QED
    BY <1>1, <1>2, <2>1, <2>2, Zenon DEF Receive
<1>3. ASSUME NEW c \in Conns, HandlerStep(c)
      PROVE  Attached'
  <2>0. Idle.pc = "idle" /\ Idle \in Rec /\ th[c] \in Rec
    BY <1>t, IdleGood DEF Idle
  <2>1. CASE HsetDropExpired(c) \/ HdelRemove(c) \/ DelKey(c) \/ SetKey(c)
    BY <2>1, AttachedLeave DEF HsetDropExpired, HdelRemove, DelKey, SetKey
  <2>2. CASE LazyRemove(c)
    BY <2>0, <2>2, <1>1, AttachedLeave DEF LazyRemove, Answer
  <2>s. CASE HdelSweep(c)
    <3>1. [Idle EXCEPT !.pc = "remove"].pc = "remove"
      BY <2>0 DEF Rec
    <3> QED
      BY <2>0, <2>s, <3>1, <1>1, Zenon DEF HdelSweep, Answer
  <2>3. CASE HsetEntry(c)
    <3>1. CASE Answer(c) /\ UNCHANGED <<entry, heap>>
      BY <2>0, <3>1, <1>1 DEF Answer
    <3>2. ASSUME NEW o, NEW z, Become(c, WithObject(c, o, z)), entry'.val = o,
                 entry.val = o \/ entry.val = Nil
          PROVE  Attached'
      <4>1. th'[c].obj = o
        BY <1>t, <2>0, <3>2 DEF Become, WithObject, Rec
      <4>2. ASSUME NEW d \in Conns, d # c, th[d].pc = "fill"
            PROVE  th[d].obj = entry'.val \/ th[d].detached
        BY <1>t, <3>2, <4>2, SetsAssumption DEF Attached, Local
      <4>3. \A d \in Conns : d # c => th'[d] = th[d]
        BY <1>t, <3>2 DEF Become
      <4> QED
        BY <3>2, <4>1, <4>2, <4>3 DEF Attached
    <3>3. CASE IsHash /\ Become(c, WithObject(c, entry.val, HashSize(entry.val))) /\ UNCHANGED <<entry, heap>>
      BY <3>2, <3>3
    <3>4. ASSUME NEW o \in Objs \ InUse, entry.val = Nil, entry' = [val |-> o, exp |-> Never],
                 Become(c, WithObject(c, o, 0))
          PROVE  Attached'
      BY <3>2, <3>4
    <3> QED
      BY <2>3, <3>1, <3>3, <3>4 DEF HsetEntry
  <2>4. CASE HsetFill(c)
    <3>1. UNCHANGED entry /\ th'[c].pc = "grown"
      BY <2>4, FillThreads DEF HsetFill
    <3>2. ASSUME NEW d \in Conns \ {c}
          PROVE  th'[d].pc = th[d].pc /\ th'[d].obj = th[d].obj /\ th'[d].detached = th[d].detached
      BY <2>4, FillThreads, Zenon
    <3> QED
      BY <3>1, <3>2 DEF Attached
  <2>5. CASE HsetAccount(c) \/ HdelAccount(c) \/ Discount(c)
    BY <2>0, <2>5, <1>1 DEF HsetAccount, HdelAccount, Discount, Answer
  <2>l. [Idle EXCEPT !.pc = "lazy", !.now = th[c].now].pc = "lazy"
    BY <2>0 DEF Rec
  <2>6. CASE NotFound(c)
    BY <2>0, <2>6, <2>l, <1>1, Zenon DEF NotFound
  <2>7. CASE HdelGet(c) /\ ~NotFound(c)
    <3>1. [th[c] EXCEPT !.pc = "strip", !.now = 0, !.obj = entry.val, !.old = HashSize(entry.val)].pc = "strip"
      BY <2>0 DEF Rec
    <3> QED
      BY <2>7, <3>1, <1>1, Zenon DEF HdelGet
  <2>8. CASE HdelStrip(c)
    <3>1. PICK next \in {"idle", "sweep", "shrink"} : Become(c, Stripped(c, next))
      BY <2>8 DEF HdelStrip
    <3>2. th[c].obj \in Objs
      BY <1>t, <2>8 DEF HdelStrip, At, Local
    <3>3. Stripped(c, next).pc = next
      BY <2>0, <3>2, StrippedGood
    <3> QED
      BY <2>8, <3>1, <3>3, <1>1 DEF HdelStrip
  <2>9. CASE ExpireKey(c)
    <3>1. entry'.val = entry.val
      BY <1>t, <2>9 DEF ExpireKey
    <3> QED
      BY <2>0, <2>9, <2>l, <3>1, <1>1, Zenon DEF ExpireKey
  <2> QED
    BY <1>3, <2>1, <2>2, <2>s, <2>3, <2>4, <2>5, <2>6, <2>7, <2>8, <2>9 DEF HandlerStep, HgetRead
<1>4. CASE Tick \/ UNCHANGED vars
  BY <1>4 DEF Tick, vars, Attached
<1> QED
  BY <1>2, <1>3, <1>4 DEF Next

\* HSET fills the hash of its key, or one that some command took from the key after the
\* lookup: the lookup and the insertion are two critical sections and nothing is lost
\* between them without a command that removes the whole key.
THEOREM HsetReaches ==
    Spec => HsetReachesStore
<1> DEFINE Step == \A c \in Conns : HsetFill(c) => th[c].obj = entry.val \/ th[c].detached
<1>1. Init => Attached
  BY DEF Init, Attached, Idle
<1>2. Attached => Step
  BY DEF Attached, HsetFill, At
<1>3. Attached /\ [Next]_vars => [Step]_vars
  BY <1>2
<1> QED
  BY <1>1, <1>3, TypedHolds, AttachedNext, PTL DEF Spec, HsetReachesStore

\* The HDEL that is about to remove the entry found no fields in it, and only HSETs that had
\* looked the hash up before can have added any: the shard is locked.
Swept ==
    \A c \in Conns : th[c].pc = "remove" =>
        /\ IsHash /\ readers = {}
        /\ heap[entry.val] = {} \/ th[c].late
        /\ \A d \in Conns : th[d].pc = "remove" => d = c

\* Guards are held by the HDELs that look into a hash.
Guarded == \A c \in Conns : th[c].pc \in {"strip", "shrink"} => c \in readers

LEMMA ReceivePcs ==
    ASSUME Typed, NEW c \in Conns, NEW p \in Pcs, NEW S, NEW B, Receive(c, p, S, B)
    PROVE  th[c].pc = "idle" /\ th'[c].pc = p /\ \A d \in Conns \ {c} : th'[d] = th[d]
<1>1. PICK t \in 0..clock : Become(c, [Idle EXCEPT !.pc = p, !.now = t, !.fields = S, !.put = B])
  BY Zenon DEF Receive
<1>2. [Idle EXCEPT !.pc = p, !.now = t, !.fields = S, !.put = B].pc = p
  BY IdleGood DEF Rec
<1>3. th \in [Conns -> Rec] /\ th[c].pc = "idle"
  BY DEF Typed, TypeOK, Rec, Pcs, Receive, At
<1> QED
  BY <1>1, <1>2, <1>3 DEF Become

\* A step of one handler leaves the others where they are, and tells where its own goes.
LEMMA StepPcs ==
    ASSUME Typed, NEW c \in Conns, HandlerStep(c)
    PROVE  /\ \A d \in Conns \ {c} : th'[d].pc = th[d].pc /\ (th[d].late => th'[d].late)
           /\ th'[c].pc = "remove" => HdelSweep(c)
           /\ th'[c].pc = "strip" => HdelGet(c) /\ c \in readers'
           /\ th'[c].pc = "shrink" => HdelStrip(c) /\ readers' = readers
<1>t. th \in [Conns -> Rec] /\ (\A d \in Conns : Local(th[d])) /\ th[c] \in Rec /\ Idle \in Rec /\ Idle.pc = "idle"
  BY IdleGood DEF Typed, TypeOK, Rec, Pcs, Idle
<1>1. ASSUME NEW r, Become(c, r)
      PROVE  th'[c] = r /\ \A d \in Conns \ {c} : th'[d].pc = th[d].pc /\ (th[d].late => th'[d].late)
  BY <1>1, <1>t DEF Become
<1>2. CASE HsetDropExpired(c) \/ HdelRemove(c) \/ DelKey(c) \/ SetKey(c) \/ th' = Took(c)
  <2>1. \A d \in Conns \ {c} : th'[d] = Detached[d]
    BY <1>2, TookGood, Zenon DEF HsetDropExpired, HdelRemove, DelKey, SetKey
  <2>2. \A d \in Conns \ {c} : th'[d].pc = th[d].pc /\ (th[d].late => th'[d].late)
    BY <1>t, <2>1, DetachedGood, Zenon
  <2>3. th'[c].pc \in {"idle", "taken", "hset"}
    <3>1. CASE HsetDropExpired(c)
      BY <1>t, <3>1, DetachedGood DEF HsetDropExpired, At
    <3>2. CASE th' = Took(c)
      BY <3>2, TookGood
    <3> QED
      BY <1>2, <3>1, <3>2, Zenon DEF HdelRemove, DelKey, SetKey
  <2> QED
    BY <2>2, <2>3
<1>3. CASE HsetEntry(c)
  <2>1. PICK r : Become(c, r) /\ r.pc \in {"idle", "fill"}
    <3>1. \A o, z : WithObject(c, o, z).pc = "fill"
      BY <1>t DEF WithObject, Rec
    <3> QED
      BY <1>3, <1>t, <3>1, Zenon DEF HsetEntry, Answer
  <2> QED
    BY <1>1, <2>1
<1>4. CASE HsetFill(c)
  <2>1. th'[c].pc = "grown"
    BY <1>4, FillThreads
  <2>2. \A d \in Conns \ {c} : th'[d].pc = th[d].pc /\ (th[d].late => th'[d].late)
    BY <1>4, FillThreads, Zenon
  <2> QED
    BY <2>1, <2>2
<1>l. [Idle EXCEPT !.pc = "lazy", !.now = th[c].now].pc = "lazy"
  BY <1>t DEF Rec
<1>5. CASE HsetAccount(c) \/ HdelAccount(c) \/ Discount(c) \/ NotFound(c) \/ ExpireKey(c) \/ Answer(c)
  <2>1. PICK r : Become(c, r) /\ r.pc \in {"idle", "lazy"}
    BY <1>5, <1>t, <1>l, Zenon DEF HsetAccount, HdelAccount, Discount, NotFound, ExpireKey, Answer
  <2> QED
    BY <1>1, <2>1
<1>6. CASE HgetRead(c) \/ LazyRemove(c)
  BY <1>2, <1>5, <1>6, Zenon DEF HgetRead, LazyRemove
<1>7. CASE HdelGet(c) /\ ~NotFound(c)
  <2> DEFINE r == [th[c] EXCEPT !.pc = "strip", !.now = 0, !.obj = entry.val, !.old = HashSize(entry.val)]
  <2>1. Become(c, r) /\ readers' = readers \cup {c}
    BY <1>7 DEF HdelGet
  <2>2. r.pc = "strip"
    BY <1>t DEF Rec
  <2> HIDE DEF r
  <2> QED
    BY <1>1, <1>7, <2>1, <2>2
<1>8. CASE HdelStrip(c)
  <2>1. PICK next \in {"idle", "sweep", "shrink"} :
          Become(c, Stripped(c, next)) /\ (next = "shrink" => readers' = readers)
    BY <1>8 DEF HdelStrip
  <2>2. th[c].obj \in Objs
    BY <1>t, <1>8 DEF HdelStrip, At, Local
  <2>3. Stripped(c, next).pc = next
    BY <1>t, <2>2, StrippedGood
  <2> QED
    BY <1>1, <1>8, <2>1, <2>3
<1>9. CASE HdelSweep(c)
  <2>1. PICK r : Become(c, r) /\ r.pc \in {"idle", "remove"}
    <3>1. [Idle EXCEPT !.pc = "remove"].pc = "remove"
      BY <1>t DEF Rec
    <3> QED
      BY <1>9, <1>t, <3>1, Zenon DEF HdelSweep, Answer
  <2> QED
    BY <1>1, <1>9, <2>1
<1> QED
  BY <1>2, <1>3, <1>4, <1>5, <1>6, <1>7, <1>8, <1>9, Zenon DEF HandlerStep

LEMMA GuardedNext ==
    Typed /\ Guarded /\ [Next]_vars => Guarded'
<1> SUFFICES ASSUME Typed, Guarded, [Next]_vars PROVE Guarded'
  OBVIOUS
<1>1. ASSUME NEW c \in Conns, NEW p \in {"hset", "hdel", "hget", "del", "set", "expire"}, NEW S, NEW B,
             Receive(c, p, S, B)
      PROVE  Guarded'
  <2>1. th'[c].pc = p /\ (\A d \in Conns \ {c} : th'[d] = th[d]) /\ UNCHANGED readers
    BY <1>1, ReceivePcs DEF Receive, Pcs
  <2> QED
    BY <2>1 DEF Guarded
<1>2. ASSUME NEW c \in Conns, HandlerStep(c)
      PROVE  Guarded'
  <2>1. \A d \in Conns \ {c} : d \in readers => d \in readers'
    BY <1>2, Zenon
    DEF HandlerStep, HsetDropExpired, HsetEntry, HsetFill, HsetAccount, HgetRead, NotFound, LazyRemove, Discount,
        HdelGet, HdelStrip, HdelAccount, HdelSweep, HdelRemove, DelKey, SetKey, ExpireKey
  <2>2. th'[c].pc = "shrink" => c \in readers'
    <3>1. HdelStrip(c) => th[c].pc = "strip"
      BY Zenon DEF HdelStrip, At
    <3> QED
      BY <1>2, <3>1, StepPcs DEF Guarded
  <2> QED
    BY <1>2, <2>1, <2>2, StepPcs DEF Guarded
<1>3. CASE Tick \/ UNCHANGED vars
  BY <1>3 DEF Tick, vars, Guarded
<1> QED
  BY <1>1, <1>2, <1>3 DEF Next

LEMMA SweptNext ==
    Typed /\ Guarded /\ Swept /\ [Next]_vars => Swept'
<1> SUFFICES ASSUME Typed, Guarded, Swept, [Next]_vars PROVE Swept'
  OBVIOUS
<1>t. /\ th \in [Conns -> Rec] /\ \A c \in Conns : Local(th[c])
      /\ entry \in [val: Objs \cup {Nil, Str}, exp: 1..Never] /\ heap \in [Objs -> SUBSET Bytes]
  BY DEF Typed, TypeOK, Rec, Pcs
\* Nothing happens to the hash and nobody begins to remove.
<1>1. ASSUME UNCHANGED <<entry, heap, readers>>,
             \A d \in Conns : th'[d].pc = "remove" => th[d].pc = "remove" /\ (th[d].late => th'[d].late)
      PROVE  Swept'
  BY <1>1, Zenon DEF Swept, IsHash
<1>2. ASSUME NEW c \in Conns, NEW p \in {"hset", "hdel", "hget", "del", "set", "expire"}, NEW S, NEW B,
             Receive(c, p, S, B)
      PROVE  Swept'
  <2>1. th'[c].pc = p /\ (\A d \in Conns \ {c} : th'[d] = th[d]) /\ UNCHANGED <<entry, heap, readers>>
    BY <1>2, ReceivePcs DEF Receive, Pcs
  <2> QED
    BY <1>1, <2>1
<1>3. ASSUME NEW c \in Conns, HandlerStep(c)
      PROVE  Swept'
  <2>1. CASE HdelSweep(c)
    <3>1. UNCHANGED <<entry, heap, readers>> /\ readers = {} /\ \A d \in Conns : th[d].pc # "remove"
      BY <2>1, Zenon DEF HdelSweep, MayWrite, MayRead, At
    <3>2. \A d \in Conns \ {c} : th'[d].pc # "remove"
      BY <1>3, <3>1, StepPcs
    <3>3. th'[c].pc = "remove" => IsHash /\ heap[entry.val] = {}
      BY <2>1, <1>t DEF HdelSweep, Answer, Become, Idle
    <3> QED
      BY <3>1, <3>2, <3>3 DEF Swept, IsHash
  <2>2. CASE HsetAccount(c) \/ Discount(c)
    <3>1. UNCHANGED <<entry, heap, readers>> /\ ~HdelSweep(c)
      BY <2>2 DEF HsetAccount, Discount, HdelSweep, At
    <3> QED
      BY <1>1, <1>3, <3>1, StepPcs
  <2>3. CASE HsetFill(c)
    <3>1. /\ th[c].obj \in Objs /\ UNCHANGED <<entry, readers>> /\ heap' = [heap EXCEPT ![th[c].obj] = Filled(c)]
      BY <1>t, <2>3 DEF HsetFill, At, Local
    <3>2. ASSUME NEW d \in Conns, th'[d].pc = "remove"
          PROVE  d # c /\ th[d].pc = "remove" /\ th'[d].late = (th[d].late \/ th[c].obj = entry.val)
      BY <2>3, <3>2, FillThreads
    <3>3. th[c].obj # entry.val => heap'[entry.val] = heap[entry.val] \/ ~IsHash
      BY <1>t, <3>1 DEF IsHash
    <3> QED
      BY <3>1, <3>2, <3>3, Zenon DEF Swept, IsHash
  <2>4. CASE HdelRemove(c)
    <3>1. \A d \in Conns : th[d].pc = "remove" => d = c
      BY <2>4, Zenon DEF HdelRemove, At, Swept
    <3>2. ~HdelSweep(c)
      BY <2>4 DEF HdelRemove, HdelSweep, At
    <3> QED
      BY <1>3, <3>1, <3>2, StepPcs DEF Swept
  <2>5. CASE HdelStrip(c) \/ HdelAccount(c)
    <3>1. c \in readers
      BY <2>5 DEF HdelStrip, HdelAccount, At, Guarded
    <3>2. ~HdelSweep(c) /\ \A d \in Conns : th[d].pc # "remove"
      BY <2>5, <3>1 DEF HdelStrip, HdelAccount, HdelSweep, At, Swept
    <3> QED
      BY <1>3, <3>2, StepPcs DEF Swept
  <2>6. CASE ~HdelSweep(c) /\ MayRead
    <3>1. \A d \in Conns : th'[d].pc # "remove"
      BY <1>3, <2>6, StepPcs DEF MayRead, At
    <3> QED
      BY <3>1 DEF Swept
  <2> QED
    BY <1>3, <2>1, <2>2, <2>3, <2>4, <2>5, <2>6, Zenon
    DEF HandlerStep, HsetDropExpired, HsetEntry, HgetRead, LazyRemove, HdelGet, DelKey, SetKey, ExpireKey, MayWrite
<1>4. CASE Tick \/ UNCHANGED vars
  BY <1>4 DEF Tick, vars, Swept, IsHash
<1> QED
  BY <1>2, <1>3, <1>4 DEF Next

LEMMA SweptHolds ==
    Spec => [](Typed /\ Swept)
<1>1. Init => Swept /\ Guarded
  BY DEF Init, Swept, Guarded, Idle
<1> QED
  BY <1>1, TypedHolds, GuardedNext, SweptNext, PTL DEF Spec

\* A hash with fields leaves the map by a command for the whole key, by expiry, or by an HDEL
\* whose test came before an HSET filled it, and in no other way.
THEOREM SweepTakesOnlyLateFields ==
    Spec => SweepTakesOnlyLate
<1> DEFINE Step == IsHash /\ entry'.val # entry.val /\ heap[entry.val] # {} =>
                     \E c \in Conns : \/ DelKey(c) \/ SetKey(c) \/ LazyRemove(c) \/ HsetDropExpired(c)
                                     \/ (HdelRemove(c) /\ th[c].late)
<1>1. Typed /\ Swept /\ [Next]_vars => [Step]_vars
  <2> SUFFICES ASSUME Typed, Swept, [Next]_vars, IsHash, entry'.val # entry.val, heap[entry.val] # {}
               PROVE  \E c \in Conns : \/ DelKey(c) \/ SetKey(c) \/ LazyRemove(c) \/ HsetDropExpired(c)
                                       \/ (HdelRemove(c) /\ th[c].late)
    OBVIOUS
  <2>1. PICK c \in Conns : HandlerStep(c)
    BY Zenon DEF Next, Receive, Tick, vars
  <2>2. ~ExpireKey(c)
    BY DEF ExpireKey, Typed, TypeOK
  <2>3. ~HsetEntry(c)
    BY SetsAssumption DEF HsetEntry, IsHash
  <2>4. HdelRemove(c) => th[c].late
    BY Zenon DEF HdelRemove, At, Swept
  <2> QED
    BY <2>1, <2>2, <2>3, <2>4, Zenon
    DEF HandlerStep, HsetFill, HsetAccount, HgetRead, NotFound, HdelGet, HdelStrip, HdelAccount, HdelSweep, Discount
<1> QED
  BY <1>1, SweptHolds, PTL DEF Spec, SweepTakesOnlyLate

----------------------------------------------------------------------------
(* No empty hash is left. *)

\* Somebody will fill the hash of the key, or sweep it away.
Cares(c) == th[c].pc \in {"sweep", "remove"} \/ (th[c].pc = "fill" /\ th[c].obj = entry.val)
Cared == IsHash /\ heap[entry.val] = {} => \E c \in Conns : Cares(c)

LEMMA CaredNext ==
    Typed /\ Cared /\ [Next]_vars => Cared'
<1> SUFFICES ASSUME Typed, Cared, [Next]_vars, IsHash', heap'[entry'.val] = {}
             PROVE  \E c \in Conns : Cares(c)'
  BY DEF Cared
<1>t. /\ th \in [Conns -> Rec] /\ \A c \in Conns : Local(th[c])
      /\ entry \in [val: Objs \cup {Nil, Str}, exp: 1..Never] /\ heap \in [Objs -> SUBSET Bytes]
      /\ Nil \notin Objs /\ Str \notin Objs
  BY SetsAssumption DEF Typed, TypeOK, Rec, Pcs
\* Somebody who cares goes on caring while another handler moves.
<1>1. ASSUME NEW c \in Conns, NEW r, Become(c, r), ~Cares(c), entry'.val = entry.val,
             heap'[entry.val] = heap[entry.val]
      PROVE  \E d \in Conns : Cares(d)'
  <2>1. PICK d \in Conns : Cares(d)
    BY <1>1 DEF Cared, IsHash
  <2>2. th'[d] = th[d]
    BY <1>1, <1>t, <2>1 DEF Become
  <2> QED
    BY <1>1, <2>1, <2>2 DEF Cares
<1>2. ASSUME NEW c \in Conns, NEW p, NEW S, NEW B, Receive(c, p, S, B)
      PROVE  \E d \in Conns : Cares(d)'
  BY <1>1, <1>2 DEF Receive, Cares, At
<1>3. ASSUME NEW c \in Conns, HandlerStep(c)
      PROVE  \E d \in Conns : Cares(d)'
  <2>0. th[c] \in Rec
    BY <1>t
  <2>1. ~HsetDropExpired(c) /\ ~HdelRemove(c) /\ ~DelKey(c) /\ ~SetKey(c)
    <3>1. entry' # NoEntry
      BY <1>t DEF NoEntry, IsHash
    <3>2. entry' # [val |-> Str, exp |-> Never]
      BY <1>t DEF IsHash
    <3> QED
      BY <3>1, <3>2, Zenon DEF HsetDropExpired, HdelRemove, DelKey, SetKey
  <2>2. CASE LazyRemove(c)
    <3>1. ~Cares(c)
      BY <2>2 DEF LazyRemove, At, Cares
    <3>2. CASE Expired(th[c].now)
      <4>1. entry' = NoEntry
        BY <2>2, <3>2, Zenon DEF LazyRemove
      <4> QED
        BY <1>t, <4>1 DEF NoEntry, IsHash
    <3>3. CASE ~Expired(th[c].now)
      BY <2>2, <3>1, <3>3, <1>1, Zenon DEF LazyRemove, Answer
    <3> QED
      BY <3>2, <3>3
  <2>3. CASE HdelSweep(c)
    <3>1. UNCHANGED <<entry, heap>>
      BY <2>3, Zenon DEF HdelSweep
    <3>2. Become(c, [Idle EXCEPT !.pc = "remove"])
      BY <2>3, <3>1, Zenon DEF HdelSweep, IsHash
    <3>3. th'[c].pc = "remove"
      BY <1>t, <3>2 DEF Become, Idle
    <3> QED
      BY <3>3, Zenon DEF Cares
  <2>4. CASE HsetEntry(c)
    <3>1. ~Cares(c)
      BY <2>4, Zenon DEF HsetEntry, At, Cares
    <3>2. CASE UNCHANGED <<entry, heap>> /\ \E r : Become(c, r)
      BY <3>1, <3>2, <1>1
    <3>3. ASSUME NEW o \in Objs \ InUse, entry' = [val |-> o, exp |-> Never], Become(c, WithObject(c, o, 0))
          PROVE  Cares(c)'
      BY <1>t, <2>0, <3>3 DEF Become, WithObject, Rec, Cares
    <3> QED
      BY <2>4, <3>2, <3>3 DEF HsetEntry, Answer
  <2>5. CASE HsetFill(c)
    <3>1. /\ th[c].pc = "fill" /\ th[c].obj \in Objs /\ Filled(c) # {} /\ UNCHANGED entry
          /\ heap' = [heap EXCEPT ![th[c].obj] = Filled(c)]
      BY <2>5, FilledBytes DEF HsetFill, At
    <3>2. entry.val # th[c].obj
      BY <1>t, <3>1
    <3>3. heap'[entry.val] = heap[entry.val] /\ ~Cares(c)
      BY <1>t, <3>1, <3>2 DEF IsHash, Cares
    <3>4. PICK d \in Conns : Cares(d)
      BY <3>1, <3>3 DEF Cared, IsHash
    <3>5. d # c /\ th'[d].pc = th[d].pc /\ th'[d].obj = th[d].obj
      BY <2>5, <3>3, <3>4, FillThreads
    <3> QED
      BY <3>1, <3>4, <3>5, Zenon DEF Cares
  <2>6. CASE HsetAccount(c) \/ HdelAccount(c) \/ Discount(c)
    BY <2>6, <1>1 DEF HsetAccount, HdelAccount, Discount, Answer, Cares, At
  <2>7. CASE HgetRead(c) \/ HdelGet(c)
    BY <2>7, <1>1 DEF HgetRead, HdelGet, NotFound, Cares, At
  <2>8. CASE HdelStrip(c)
    <3> DEFINE o == th[c].obj
               kept == Without(o, th[c].fields)
    <3>1. /\ heap' = [heap EXCEPT ![o] = kept]
          /\ entry' = entry /\ ~Cares(c) /\ \E r : Become(c, r)
      BY <2>8, Zenon DEF HdelStrip, At, Cares
    <3>2. CASE heap'[entry.val] = heap[entry.val]
      BY <3>1, <3>2, <1>1, Zenon
    <3>3. CASE heap'[entry.val] # heap[entry.val]
      <4>1. o = entry.val /\ kept # heap[o] /\ kept = {}
        BY <1>t, <3>1, <3>3
      <4>2. Become(c, Stripped(c, "sweep"))
        BY <2>8, <4>1 DEF HdelStrip
      <4>3. th'[c].pc = "sweep"
        <5>1. th[c].obj \in Objs
          BY <1>t, <2>8 DEF HdelStrip, At, Local
        <5>2. Stripped(c, "sweep").pc = "sweep"
          BY <2>0, <5>1, StrippedGood
        <5> QED
          BY <1>t, <4>2, <5>2 DEF Become
      <4> QED
        BY <4>3 DEF Cares
    <3> QED
      BY <3>2, <3>3
  <2>9. CASE ExpireKey(c)
    <3>1. entry'.val = entry.val
      BY <1>t, <2>9 DEF ExpireKey
    <3> QED
      BY <2>9, <3>1, <1>1 DEF ExpireKey, Cares, At
  <2> QED
    BY <1>3, <2>1, <2>2, <2>3, <2>4, <2>5, <2>6, <2>7, <2>8, <2>9, Zenon DEF HandlerStep
<1>4. CASE Tick \/ UNCHANGED vars
  BY <1>4 DEF Tick, vars, Cared, Cares, IsHash
<1> QED
  BY <1>2, <1>3, <1>4 DEF Next

\* Whoever takes the last field of a hash also removes the key, unless fields have come
\* back by then: when no command runs the key holds no hash without fields.
THEOREM NoEmptyHashLeft ==
    Spec => []NoEmptyHash
<1>1. Init => Cared
  BY SetsAssumption DEF Init, Cared, IsHash, NoEntry
<1>2. Cared => NoEmptyHash
  BY DEF Cared, NoEmptyHash, Quiet, At, Cares
<1> QED
  BY <1>1, <1>2, TypedHolds, CaredNext, PTL DEF Spec

----------------------------------------------------------------------------
(* Growth is counted. *)

Active(c) == th[c].pc \in {"fill", "grown"}

\* While only reads run and HSETs that let the hash grow, every HSET under way works on the
\* hash of the key, which is no smaller than the HSET found it.  MEMORY_USED is at least the size of the hash, or
\* what one HSET under way found: that one adds all the growth since.
Growing ==
    ~shrunk =>
      /\ entry.exp = Never /\ entry.val # Str
      /\ \A c \in Conns : th[c].pc \in {"idle", "hset", "fill", "grown", "hget"}
      /\ \A c \in Conns : Active(c) => th[c].obj = entry.val /\ th[c].old <= HashSize(entry.val)
      /\ mem >= SizeOf(entry.val) \/ \E c \in Conns : Active(c) /\ mem >= th[c].old

LEMMA GrowingReceive ==
    ASSUME Typed, Growing, ~shrunk', NEW c \in Conns,
           NEW p \in {"hset", "hdel", "hget", "del", "set", "expire"}, NEW S, NEW B, Receive(c, p, S, B)
    PROVE  Growing'
<1>1. /\ ~shrunk /\ p \in {"hset", "hget"} /\ th[c].pc = "idle"
      /\ UNCHANGED <<entry, heap, mem>>
  BY Zenon DEF Receive, At
<1>5. th'[c].pc = p /\ \A d \in Conns : d # c => th'[d] = th[d]
  BY ReceivePcs DEF Pcs
<1>6. \A d \in Conns : Active(d)' <=> Active(d)
  BY <1>1, <1>5 DEF Active
<1>7. \A d \in Conns : Active(d) => th'[d] = th[d]
  BY <1>1, <1>5 DEF Active
<1>8. HashSize(entry.val)' = HashSize(entry.val) /\ SizeOf(entry.val)' = SizeOf(entry.val)
  BY <1>1, SMTT(30) DEF HashSize, SizeOf
<1> QED
  BY <1>1, <1>5, <1>6, <1>7, <1>8, Zenon DEF Growing

LEMMA GrowingHset ==
    ASSUME Typed, Growing, ~shrunk', NEW c \in Conns, HandlerStep(c)
    PROVE  Growing'
<1>t. /\ th \in [Conns -> Rec] /\ th[c] \in Rec /\ \A d \in Conns : Local(th[d]) /\ th[d].old \in Nat
      /\ entry \in [val: Objs \cup {Nil, Str}, exp: 1..Never] /\ heap \in [Objs -> SUBSET Bytes]
      /\ Nil \notin Objs /\ Str \notin Objs /\ Nil # Str /\ mem \in Int
  BY SetsAssumption, SMTT(30) DEF Typed, TypeOK, Rec, Pcs
<1>s. ~shrunk
  <2>1. CASE HsetFill(c)
    BY <2>1, Zenon DEF HsetFill
  <2>2. CASE ~HsetFill(c)
    <3>1. UNCHANGED shrunk
      BY <2>2, Zenon
      DEF HandlerStep, HsetDropExpired, HsetEntry, HsetAccount, HgetRead, NotFound, LazyRemove, Discount,
          HdelGet, HdelStrip, HdelAccount, HdelSweep, HdelRemove, DelKey, SetKey, ExpireKey
    <3> QED
      BY <3>1
  <2> QED
    BY <2>1, <2>2
<1>g. /\ entry.exp = Never /\ entry.val # Str
      /\ \A d \in Conns : th[d].pc \in {"idle", "hset", "fill", "grown", "hget"}
      /\ \A d \in Conns : Active(d) => th[d].obj = entry.val /\ th[d].old <= HashSize(entry.val)
      /\ mem >= SizeOf(entry.val) \/ \E d \in Conns : Active(d) /\ mem >= th[d].old
  BY <1>s, Zenon DEF Growing
<1>h. /\ \A o \in Objs : HashSize(o) \in Nat
      /\ entry.val \in Objs => SizeOf(entry.val) = HashSize(entry.val)
  BY <1>t, HashSizeNat DEF SizeOf
<1>e. ~Expired(th[c].now)
  BY <1>t, <1>g, BoundsAssumption DEF Expired, Never, Rec
<1>i. Idle.pc = "idle"
  BY DEF Idle
<1>1. CASE HsetEntry(c)
  <2>0. th[c].pc = "hset" /\ UNCHANGED mem
    BY <1>1 DEF HsetEntry, At
  <2>1. PICK o \in Objs, z \in Nat :
          /\ Become(c, WithObject(c, o, z))
          /\ \/ /\ o = entry.val /\ z = HashSize(o) /\ UNCHANGED <<entry, heap>>
             \/ /\ entry.val = Nil /\ z = 0
                /\ entry' = [val |-> o, exp |-> Never] /\ heap' = [heap EXCEPT ![o] = {}]
    BY <1>1, <1>g, <1>h DEF HsetEntry, IsHash
  <2>2. /\ th'[c].pc = "fill" /\ th'[c].obj = o /\ th'[c].old = z
        /\ \A d \in Conns : d # c => th'[d] = th[d]
    BY <1>t, <2>1 DEF Become, WithObject, Rec
  <2>3. ~Active(c) /\ Active(c)' /\ \A d \in Conns : Active(d) => Active(d)' /\ th'[d] = th[d]
    BY <2>0, <2>2, SMTT(30) DEF Active
  <2>4. CASE o = entry.val /\ z = HashSize(o) /\ UNCHANGED <<entry, heap>>
    <3>1. HashSize(entry.val)' = HashSize(entry.val) /\ SizeOf(entry.val)' = SizeOf(entry.val)
      BY <2>4 DEF HashSize, SizeOf
    <3>2. \A d \in Conns : Active(d)' => th'[d].obj = entry.val /\ th'[d].old <= HashSize(entry.val)
      BY <2>2, <2>4, <1>g, <1>h, SMTT(30) DEF Active
    <3> QED
      BY <2>0, <2>2, <2>3, <2>4, <3>1, <3>2, <1>g, Zenon DEF Growing
  <2>5. CASE /\ entry.val = Nil /\ z = 0
             /\ entry' = [val |-> o, exp |-> Never] /\ heap' = [heap EXCEPT ![o] = {}]
    <3>1. \A d \in Conns : ~Active(d)
      BY <1>g, <1>t, <2>5, Zenon DEF Active, Local
    <3>2. mem >= 0
      BY <1>g, <1>t, <2>5, <3>1 DEF SizeOf
    <3>3. heap' \in [Objs -> SUBSET Bytes]
      BY <1>t, <2>5
    <3>4. HashSize(entry.val)' \in Nat /\ entry'.val = o
      <4>1. IsFiniteSet(heap'[o])
        BY <1>t, <2>5, FS_EmptySet
      <4>2. Cardinality(heap'[o]) \in Nat
        BY <4>1, FS_CardinalityType
      <4> QED
        BY <2>5, <4>2 DEF HashSize, Overhead
    <3>5. \A d \in Conns : Active(d)' => th'[d].obj = entry'.val /\ th'[d].old = 0
      BY <2>2, <2>5, <3>1, Zenon DEF Active
    <3>6. Active(c)' /\ mem' >= th'[c].old
      BY <2>0, <2>2, <2>3, <2>5, <3>2
    <3>7. entry'.exp = Never /\ entry'.val # Str
      BY <1>t, <2>5
    <3>8. \A d \in Conns : th'[d].pc \in {"idle", "hset", "fill", "grown", "hget"}
      BY <2>2, <1>g
    <3>9. \A d \in Conns : Active(d)' => th'[d].old <= HashSize(entry.val)'
      BY <3>4, <3>5
    <3> QED
      BY <3>5, <3>6, <3>7, <3>8, <3>9, Zenon DEF Growing
  <2> QED
    BY <2>1, <2>4, <2>5
<1>2. CASE HsetFill(c)
  <2> DEFINE o == entry.val
  <2>1. /\ th[c].pc = "fill" /\ Active(c) /\ UNCHANGED <<entry, mem>>
        /\ heap' = [heap EXCEPT ![th[c].obj] = Filled(c)]
        /\ ~(Cardinality(Filled(c)) < Cardinality(heap[th[c].obj]))
    BY <1>2, Zenon DEF HsetFill, At, Active
  <2>2. o \in Objs /\ th[c].obj = o
    BY <1>g, <1>t, <2>1 DEF Local
  <2>3. heap'[o] = Filled(c) /\ Filled(c) \subseteq Bytes
    BY <1>t, <2>1, <2>2, FilledBytes
  <2>4. Cardinality(heap[o]) \in Nat /\ Cardinality(heap'[o]) \in Nat
    <3>1. IsFiniteSet(heap'[o])
      BY <2>3, BytesFinite, FS_Subset
    <3> QED
      BY <2>2, <3>1, <1>t, HashSizeNat, FS_CardinalityType
  <2>5. Cardinality(heap[o]) <= Cardinality(heap'[o])
    BY <2>1, <2>2, <2>3, <2>4
  <2>6. HashSize(o) \in Nat /\ HashSize(o)' \in Nat /\ HashSize(o) <= HashSize(o)'
    BY <2>1, <2>4, <2>5 DEF HashSize, Overhead
  <2>7. /\ th'[c].pc = "grown" /\ th'[c].obj = th[c].obj /\ th'[c].old = th[c].old
        /\ \A d \in Conns : d # c => th'[d].pc = th[d].pc /\ th'[d].obj = th[d].obj /\ th'[d].old = th[d].old
    BY <1>2, FillThreads
  <2>8. \A d \in Conns : (Active(d)' <=> Active(d)) /\ th'[d].obj = th[d].obj /\ th'[d].old = th[d].old
    BY <2>1, <2>7 DEF Active
  <2>9. \A d \in Conns : Active(d)' => th'[d].obj = entry'.val /\ th'[d].old <= HashSize(entry.val)'
    <3> SUFFICES ASSUME NEW d \in Conns, Active(d)'
                 PROVE  th'[d].obj = entry'.val /\ th'[d].old <= HashSize(entry.val)'
      BY Zenon
    <3>1. Active(d) /\ th'[d].obj = th[d].obj /\ th'[d].old = th[d].old
      BY <2>8, Zenon
    <3>2. th[d].obj = o /\ th[d].old <= HashSize(o)
      BY <1>g, <3>1, Zenon
    <3>3. th[d].old \in Nat
      BY <1>t, Zenon
    <3> QED
      BY <2>1, <2>6, <3>1, <3>2, <3>3, SMTT(30)
  <2>10. \E d \in Conns : Active(d) /\ mem >= th[d].old
    BY <1>g, <1>h, <1>t, <2>1, <2>2, <2>6, SMTT(30)
  <2> QED
    BY <1>g, <2>1, <2>7, <2>8, <2>9, <2>10 DEF Growing
<1>3. CASE HsetAccount(c)
  <2> DEFINE H == HashSize(entry.val)
  <2>1. /\ th[c].pc = "grown" /\ Active(c) /\ UNCHANGED <<entry, heap>> /\ Become(c, Idle)
        /\ mem' = mem + HashSize(th[c].obj) - th[c].old
    BY <1>3, Zenon DEF HsetAccount, At, Active, Answer
  <2>2. entry.val \in Objs /\ th[c].obj = entry.val /\ H \in Nat /\ th[c].old \in Nat /\ th[c].old <= H
    BY <1>g, <1>h, <1>t, <2>1, Zenon DEF Local
  <2>3. HashSize(entry.val)' = H /\ SizeOf(entry.val)' = H
    BY <1>t, <1>h, <2>1, <2>2 DEF HashSize, SizeOf
  <2>4. th'[c].pc = "idle" /\ \A d \in Conns : d # c => th'[d] = th[d]
    BY <1>t, <1>i, <2>1 DEF Become
  <2>5. \A d \in Conns : (Active(d)' <=> Active(d) /\ d # c)
    BY <2>4 DEF Active
  <2> HIDE DEF H
  <2>6. mem' >= H \/ \E d \in Conns : d # c /\ Active(d) /\ mem' >= th[d].old
    <3>1. mem' = mem + H - th[c].old
      BY <2>1, <2>2 DEF H
    <3>2. mem >= H \/ \E d \in Conns : Active(d) /\ mem >= th[d].old
      BY <1>g, <1>h, <2>2 DEF H
    <3>3. CASE mem >= H \/ mem >= th[c].old
      BY <1>t, <2>2, <3>1, <3>3
    <3>4. ASSUME NEW d \in Conns, d # c, Active(d), mem >= th[d].old
          PROVE  mem' >= th[d].old
      BY <1>t, <2>2, <3>1, <3>4
    <3> QED
      BY <3>2, <3>3, <3>4
  <2>7. \A d \in Conns : Active(d)' => th'[d].obj = entry'.val /\ th'[d].old <= HashSize(entry.val)'
    BY <1>g, <2>1, <2>3, <2>4, <2>5, SMTT(30) DEF H
  <2> QED
    BY <1>g, <2>1, <2>3, <2>4, <2>5, <2>6, <2>7, Zenon DEF Growing
<1>4. CASE HgetRead(c)
  <2>1. th[c].pc = "hget" /\ Become(c, Idle) /\ UNCHANGED <<entry, heap, mem>>
    BY <1>4, <1>e DEF HgetRead, NotFound, At
  <2>2. th'[c].pc = "idle" /\ \A d \in Conns : d # c => th'[d] = th[d]
    BY <1>t, <1>i, <2>1 DEF Become
  <2>3. \A d \in Conns : (Active(d)' <=> Active(d)) /\ (Active(d) => th'[d] = th[d])
    BY <2>1, <2>2 DEF Active
  <2>4. HashSize(entry.val)' = HashSize(entry.val) /\ SizeOf(entry.val)' = SizeOf(entry.val)
    BY <2>1 DEF HashSize, SizeOf
  <2> QED
    BY <1>g, <2>1, <2>2, <2>3, <2>4, Zenon DEF Growing
<1> QED
  BY <1>e, <1>g, <1>1, <1>2, <1>3, <1>4, Zenon
  DEF HandlerStep, HsetDropExpired, LazyRemove, Discount, HdelGet, HdelStrip, HdelAccount, HdelSweep, HdelRemove,
      DelKey, SetKey, ExpireKey, At

LEMMA GrowingNext ==
    Typed /\ Growing /\ [Next]_vars => Growing'
<1> SUFFICES ASSUME Typed, Growing, [Next]_vars, ~shrunk' PROVE Growing'
  BY Zenon DEF Growing
<1>1. ASSUME NEW c \in Conns, NEW p \in {"hset", "hdel", "hget", "del", "set", "expire"}, NEW S, NEW B,
             Receive(c, p, S, B)
      PROVE  Growing'
  BY <1>1, GrowingReceive
<1>2. ASSUME NEW c \in Conns, HandlerStep(c)
      PROVE  Growing'
  BY <1>2, GrowingHset
<1>3. CASE Tick \/ UNCHANGED vars
  BY <1>3 DEF Tick, vars, Growing, Active, HashSize, SizeOf
<1> QED
  BY <1>1, <1>2, <1>3, SMTT(30) DEF Next

\* Overlapping HSETs may count a growth twice but never miss it: MEMORY_USED is not below
\* the size of the hash when they are done, provided none has made the hash smaller.
THEOREM GrowthIsCounted ==
    Spec => []GrowthCounted
<1>1. Init => Growing
  BY SetsAssumption DEF Init, Growing, NoEntry, Idle, Active, SizeOf
<1>2. Growing => GrowthCounted
  BY DEF Growing, GrowthCounted, Quiet, At, Active
<1> QED
  BY <1>1, <1>2, TypedHolds, GrowingNext, PTL DEF Spec

=============================================================================
