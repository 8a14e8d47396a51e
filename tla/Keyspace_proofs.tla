--------------------------- MODULE Keyspace_proofs ---------------------------
(***************************************************************************)
(* Proofs about Keyspace, for any connections, keys, commands and bounds:   *)
(* every variable keeps its type, expiry takes no fresh entry, no expiry is *)
(* later than was asked for (PX: by a second), the memory counter loses     *)
(* nothing, and the limit is exceeded by at most one entry per connection.  *)
(***************************************************************************)
EXTENDS Keyspace, SequenceTheorems, FiniteSetTheorems, TLAPS

Fields == {"pc", "cmd", "now", "args", "exp", "old", "need", "freed", "tries", "keys", "n", "reply"}

\* Where a handler is going to look at its next key.
KeyPcs == {"evict", "sampling", "victim", "evicted", "recheck", "check", "net", "insert", "subtract",
           "add", "get", "read", "lazy", "lazied", "delete", "deleted", "expire", "persist"}

\* What a thread's record satisfies, whatever the others do.
Good(r) ==
    /\ Fields \subseteq DOMAIN r
    /\ r.pc \in Pcs
    /\ r.cmd \in CommandType \cup {NoCommand}
    /\ r.args \in Seq(Keys \X Values)
    /\ r.now \in 0..MaxClock
    /\ r.exp \in 0..Never
    /\ r.keys \in SUBSET Keys
    /\ r.n \in Nat
    /\ r.old \in 0..MaxSize
    /\ r.pc \in {"sum", "clear", "cas"} => r.need \in Nat
    /\ r.pc \in KeyPcs => r.args # <<>>
    /\ r.pc = "net" => r.n < Len(r.args)
    /\ r.pc \in {"loop", "wait"} => r.cmd = NoCommand /\ r.n = 0
    /\ r.pc = "read" => r.cmd.name = "INCR"
    /\ r.cmd.name = "SET" /\ Seconds(r.cmd) > 0 => r.exp = r.now + Seconds(r.cmd)

DbTyped == db \in UNION {[S -> Entries] : S \in SUBSET Keys}
ThreadsGood == DOMAIN th = Threads /\ \A c \in Threads : Good(th[c]) /\ th[c].now <= clock

\* The inductive invariant.
Inv ==
    /\ DbTyped
    /\ mem \in 0..(U64 - 1)
    /\ clock \in 0..MaxClock
    /\ flushed \in BOOLEAN
    /\ ThreadsGood

\* EX and PX ask for a number of seconds within the bound; PX rounds up by less than one.
LEMMA SecondsOf ==
    ASSUME NEW m \in CommandType
    PROVE  /\ m.ttl \in 0..MaxTtl /\ m.px \in 0..(Millis * MaxTtl)
           /\ Seconds(m) \in 0..MaxTtl
           /\ m.px > 0 => Millis * Seconds(m) < m.px + Millis /\ Seconds(m) > 0
           /\ m.px = 0 => Seconds(m) = m.ttl
<1>1. m.ttl \in 0..MaxTtl /\ m.px \in 0..(Millis * MaxTtl)
  BY Zenon DEF CommandType
<1>2. MaxTtl \in Nat
  BY BoundsAssumption
<1> DEFINE t == m.ttl
           q == m.px
<1>3. Seconds(m) = IF q > 0 THEN (q + Millis - 1) \div Millis ELSE t
  BY DEF Seconds
<1> HIDE DEF t, q
<1>4. t \in 0..MaxTtl /\ q \in 0..(Millis * MaxTtl)
  BY <1>1 DEF t, q
<1>5. /\ Seconds(m) \in 0..MaxTtl
      /\ q > 0 => Millis * Seconds(m) < q + Millis /\ Seconds(m) > 0
      /\ q = 0 => Seconds(m) = t
  BY <1>2, <1>3, <1>4 DEF Millis
<1> QED
  BY <1>1, <1>5 DEF t, q

LEMMA IdleGood ==
    Good(Idle) /\ Idle.now = 0
<1>1. <<>> \in Seq(Keys \X Values)
  OBVIOUS
<1>2. Fields \subseteq DOMAIN Idle
  BY DEF Idle, Fields
<1>3. /\ Idle.pc = "loop" /\ Idle.cmd = NoCommand /\ Idle.args = <<>> /\ Idle.now = 0
      /\ Idle.exp = Never /\ Idle.keys = {} /\ Idle.n = 0 /\ Idle.old = 0
  BY DEF Idle
<1>4. NoCommand.name = "none"
  BY DEF NoCommand
<1> QED
  BY <1>1, <1>2, <1>3, <1>4, BoundsAssumption DEF Good, Pcs, KeyPcs, Never, MaxSize

LEMMA AnsweredGood ==
    ASSUME NEW st, NEW num
    PROVE  Good(Answered(st, num)) /\ Answered(st, num).now = 0
<1> DEFINE rep == [status |-> st, n |-> num]
           a == [Idle EXCEPT !.reply = rep]
<1> HIDE DEF rep
<1>1. Fields \subseteq DOMAIN Idle
  BY IdleGood DEF Good
<1>2. Good(a) /\ a.now = 0
  BY <1>1, IdleGood DEF Good, Fields
<1> QED
  BY <1>2 DEF Answered, rep

\* A record that only moves to another place stays good.
LEMMA MoveGood ==
    ASSUME NEW r, Good(r),
           NEW p \in Pcs \ {"net", "loop", "wait", "read", "sum", "clear", "cas"}, p \in KeyPcs => r.args # <<>>
    PROVE  Good([r EXCEPT !.pc = p]) /\ [r EXCEPT !.pc = p].now = r.now
BY DEF Good, Fields

LEMMA BecomeGood ==
    ASSUME Inv, NEW c \in Threads, NEW r, Good(r), r.now <= clock, Become(c, r), UNCHANGED clock
    PROVE  ThreadsGood'
BY DEF Inv, ThreadsGood, Become

LEMMA PutTyped ==
    ASSUME DbTyped, NEW k \in Keys, NEW e \in Entries, Put(k, e)
    PROVE  DbTyped'
BY DEF DbTyped, Put

LEMMA RemoveTyped ==
    ASSUME DbTyped, NEW k, Remove(k)
    PROVE  DbTyped'
BY DEF DbTyped, Remove

\* What is left of a handler, once one of its steps is over, is good again.
LEMMA AdmittedGood ==
    ASSUME NEW r, Good(r), r.args # <<>>
    PROVE  Good(Admitted(r)) /\ Admitted(r).now \in {0, r.now}
<1> DEFINE p == IF r.cmd.cond # "" THEN "check" ELSE "insert"
<1>1. p \in {"check", "insert"}
  OBVIOUS
<1> HIDE DEF p
<1> DEFINE s == [r EXCEPT !.pc = p, !.need = 0, !.freed = 0, !.tries = 0]
<1>2. Good(s) /\ s.now = r.now
  BY <1>1 DEF Good, Fields, Pcs, KeyPcs, MaxSize
<1> QED
  BY <1>2, AnsweredGood DEF Admitted, p

LEMMA IncrementedGood ==
    ASSUME NEW r, Good(r), r.args # <<>>, r.cmd.name = "INCR", NEW v \in I64, NEW e \in 0..Never, NEW z
    PROVE  Good(Incremented(r, v, e, z)) /\ Incremented(r, v, e, z).now \in {0, r.now}
<1> DEFINE new == v + r.cmd.delta
           net == Size(new) - z
           a == <<<<Head(r.args)[1], new>>>>
           s == [r EXCEPT !.args = a, !.exp = e, !.old = 0]
           s1 == [s EXCEPT !.pc = "evict", !.need = net]
           s2 == [s EXCEPT !.pc = "insert"]
<1>1. CASE new \notin I64
  BY <1>1, AnsweredGood DEF Incremented
<1>2. CASE new \in I64
  <2>1. Head(r.args) \in Keys \X Values
    BY DEF Good
  <2>2. <<Head(r.args)[1], new>> \in Keys \X Values
    BY <1>2, <2>1 DEF Values
  <2>3. a \in Seq(Keys \X Values) /\ a # <<>>
    BY <2>2
  <2> HIDE DEF a, new, net
  <2>4. /\ Good(s1) /\ s1.now = r.now
        /\ Good(s2) /\ s2.now = r.now
    BY <2>3 DEF Good, Fields, Pcs, KeyPcs, MaxSize
  <2> QED
    BY <1>2, <2>4 DEF Incremented, a, new, net
<1> QED
  BY <1>1, <1>2

LEMMA WithoutKeyGood ==
    ASSUME NEW r, Good(r), r.args # <<>>
    PROVE  Good(WithoutKey(r)) /\ WithoutKey(r).now \in {0, r.now}
<1>1. CASE r.cmd.name = "INCR"
  <2>1. 0 \in I64 /\ Never \in 0..Never
    BY BoundsAssumption DEF I64, Never
  <2> QED
    BY <1>1, <2>1, IncrementedGood DEF WithoutKey
<1>2. CASE r.cmd.name = "none"
  <2> DEFINE s == [r EXCEPT !.pc = "sample", !.args = <<>>, !.old = 0]
  <2>1. <<>> \in Seq(Keys \X Values)
    OBVIOUS
  <2>2. Good(s) /\ s.now = r.now
    BY <2>1, <1>2 DEF Good, Fields, Pcs, KeyPcs, MaxSize
  <2> QED
    BY <1>2, <2>2, Zenon DEF WithoutKey
<1>3. CASE r.cmd.name \notin {"INCR", "none"}
  BY <1>3, AnsweredGood DEF WithoutKey
<1> QED
  BY <1>1, <1>2, <1>3

LEMMA TailLonger ==
    ASSUME NEW S, NEW s \in Seq(S), Len(s) > 1
    PROVE  Tail(s) \in Seq(S) /\ Tail(s) # <<>>
<1>1. s # <<>>
  BY Len(<<>>) = 0
<1>2. Tail(s) \in Seq(S) /\ Len(Tail(s)) = Len(s) - 1
  BY <1>1, HeadTailProperties
<1>3. Len(Tail(s)) # 0
  BY <1>2
<1>4. Len(<<>>) = 0
  OBVIOUS
<1> QED
  BY <1>2, <1>3, <1>4, Zenon

LEMMA NextDeleteGood ==
    ASSUME NEW r, Good(r), r.args # <<>>
    PROVE  Good(NextDelete(r)) /\ NextDelete(r).now \in {0, r.now}
<1> DEFINE t == Tail(r.args)
           s == [r EXCEPT !.pc = "delete", !.args = t, !.old = 0]
<1>1. CASE Len(r.args) > 1
  <2>1. t \in Seq(Keys \X Values) /\ t # <<>>
    BY <1>1, TailLonger DEF Good
  <2> HIDE DEF t
  <2>2. Good(s) /\ s.now = r.now
    BY <2>1 DEF Good, Fields, Pcs, KeyPcs, MaxSize
  <2>3. NextDelete(r) = s
    BY <1>1 DEF NextDelete, t, Good, Fields
  <2> QED
    BY <2>2, <2>3
<1>2. CASE ~(Len(r.args) > 1)
  BY <1>2, AnsweredGood DEF NextDelete
<1> QED
  BY <1>1, <1>2

\* An entry of the map, and the key a handler works on, have their types.
LEMMA EntryTyped ==
    ASSUME DbTyped, NEW k \in DOMAIN db
    PROVE  k \in Keys /\ db[k] \in Entries /\ db[k].val \in Values /\ db[k].exp \in 0..Never
BY DEF DbTyped, Entries

LEMMA KeyTyped ==
    ASSUME Inv, NEW c \in Threads, th[c].args # <<>>
    PROVE  Key(c) \in Keys /\ Val(c) \in Values
<1>1. th[c].args \in Seq(Keys \X Values)
  BY DEF Inv, ThreadsGood, Good
<1>2. Head(th[c].args) \in Keys \X Values
  BY <1>1
<1> QED
  BY <1>2 DEF Key, Val

LEMMA PlusTyped ==
    ASSUME mem \in 0..(U64 - 1), NEW n \in Int, Plus(n)
    PROVE  mem' \in 0..(U64 - 1)
BY MemoryAssumption DEF Plus

LEMMA CaptureStep ==
    ASSUME Inv, NEW c \in Conns, CaptureNow(c)
    PROVE  Inv'
<1>1. c \in Threads /\ Good(th[c]) /\ th[c].pc = "loop"
  BY DEF Inv, ThreadsGood, Threads, CaptureNow, At
<1> DEFINE r == [th[c] EXCEPT !.pc = "wait", !.now = clock, !.reply = NoReply]
<1>2. NoCommand.name = "none"
  BY DEF NoCommand
<1>3. Good(r) /\ r.now = clock
  BY <1>1, <1>2 DEF Inv, Good, Fields, Pcs, KeyPcs
<1>4. r.now <= clock /\ Become(c, r) /\ UNCHANGED clock
  BY <1>3 DEF CaptureNow, Inv
<1> HIDE DEF r
<1>5. ThreadsGood'
  BY <1>1, <1>3, <1>4, BecomeGood
<1> QED
  BY <1>5 DEF Inv, CaptureNow, DbTyped

LEMMA ReceiveStep ==
    ASSUME Inv, NEW c \in Conns, NEW m \in Commands, Receive(c, m)
    PROVE  Inv'
<1>1. /\ c \in Threads /\ Good(th[c]) /\ th[c].pc = "wait"
      /\ th[c].now \in 0..MaxClock /\ th[c].now <= clock /\ clock \in 0..MaxClock
  BY DEF Inv, ThreadsGood, Threads, Receive, At, Good
<1>2. m \in CommandType /\ (m.name # "FLUSH" => m.args # <<>>)
  BY CommandsAssumption
<1> DEFINE now == IF m.name = "FLUSH" THEN clock ELSE th[c].now
           exp == IF m.name = "SET" /\ Seconds(m) > 0 THEN th[c].now + Seconds(m) ELSE Never
           need == IF m.name = "SET" THEN Size(m.args[1][2]) ELSE 0
           keys == IF m.name = "FLUSH" THEN Keys ELSE {}
           p == FirstStep(m)
           r == [th[c] EXCEPT !.pc = p, !.cmd = m, !.args = m.args, !.now = now, !.exp = exp,
                              !.need = need, !.keys = keys]
<1>3. /\ now \in 0..MaxClock /\ now <= clock
      /\ exp \in 0..Never
      /\ m.name = "SET" /\ Seconds(m) > 0 => exp = now + Seconds(m)
  <2>1. Seconds(m) \in 0..MaxTtl /\ MaxTtl \in Nat /\ MaxClock \in Nat
    BY <1>2, SecondsOf, BoundsAssumption, Zenon
  <2>2. now \in 0..MaxClock /\ now <= clock
    BY <1>1
  <2>3. CASE m.name = "SET" /\ Seconds(m) > 0
    <3>1. exp = th[c].now + Seconds(m) /\ now = th[c].now
      BY <2>3
    <3> HIDE DEF exp, now
    <3> QED
      BY <1>1, <2>1, <2>2, <3>1 DEF Never
  <2>4. CASE ~(m.name = "SET" /\ Seconds(m) > 0)
    <3>1. exp = Never
      BY <2>4
    <3> HIDE DEF exp
    <3> QED
      BY <2>1, <2>2, <2>4, <3>1 DEF Never
  <2> QED
    BY <2>3, <2>4
<1>4. keys \in SUBSET Keys
  OBVIOUS
<1>5. /\ p \in Pcs \ {"loop", "wait"}
      /\ p \in KeyPcs => m.name # "FLUSH"
      /\ p = "read" => m.name = "INCR"
      /\ p = "net" => m.name = "MSET"
      /\ p \in {"sum", "clear", "cas"} => m.name = "FLUSH"
  BY <1>2, Zenon DEF CommandType, FirstStep, Pcs, KeyPcs
<1>6. m.args \in Seq(Keys \X Values)
  BY <1>2, Zenon DEF CommandType
<1>7. th[c].n = 0
  BY <1>1 DEF Good
<1>8. m.args # <<>> => 0 < Len(m.args)
  BY <1>6
<1>9. m.name = "FLUSH" => need = 0
  OBVIOUS
<1> HIDE DEF now, exp, need, keys, p
<1>10. Good(r) /\ r.now <= clock
  BY <1>1, <1>2, <1>3, <1>4, <1>5, <1>6, <1>7, <1>8, <1>9, Zenon DEF Good, Fields
<1>11. Become(c, r) /\ UNCHANGED clock
  BY DEF Receive, now, exp, need, keys, p
<1> HIDE DEF r
<1>12. ThreadsGood'
  BY <1>1, <1>10, <1>11, BecomeGood
<1> QED
  BY <1>12 DEF Inv, Receive, DbTyped

\* A handler's step that leaves the map and the counter typed, and its own record good.
LEMMA StepKeeps ==
    ASSUME Inv, NEW c \in Threads, NEW r, Good(r), r.now \in {0, th[c].now}, Become(c, r),
           DbTyped', mem' \in 0..(U64 - 1), UNCHANGED <<clock, flushed>>
    PROVE  Inv'
<1>1. r.now <= clock
  BY DEF Inv, ThreadsGood
<1>2. ThreadsGood'
  BY <1>1, BecomeGood
<1> QED
  BY <1>2 DEF Inv

LEMMA SizeTyped ==
    ASSUME NEW v
    PROVE  Size(v) \in 0..MaxSize /\ Size(v) \in Nat
BY DEF Size, MaxSize

\* A handler at work: its record is good and it has a key left.
LEMMA AtKey ==
    ASSUME Inv, NEW c \in Threads, th[c].pc \in KeyPcs
    PROVE  /\ Good(th[c]) /\ th[c].args # <<>>
           /\ Key(c) \in Keys /\ Val(c) \in Values
           /\ th[c].old \in 0..MaxSize
BY KeyTyped DEF Inv, ThreadsGood, Good

LEMMA EvictionSteps ==
    ASSUME Inv, NEW c \in Threads,
           \/ EvictIfNeeded(c) \/ EvictSample(c) \/ EvictRemove(c) \/ EvictAccount(c) \/ EvictRecheck(c)
    PROVE  Inv'
<1>0. th[c].pc \in {"evict", "sampling", "victim", "evicted", "recheck"}
  BY Zenon DEF EvictIfNeeded, EvictSample, EvictRemove, EvictAccount, EvictRecheck, At
<1> DEFINE t == th[c]
<1>k. Good(t) /\ t.args # <<>> /\ t.old \in 0..MaxSize
  BY <1>0, AtKey DEF KeyPcs
<1>u. UNCHANGED db => DbTyped'
  BY DEF Inv, DbTyped
<1>m. UNCHANGED mem => mem' \in 0..(U64 - 1)
  BY DEF Inv
<1>1. CASE EvictIfNeeded(c)
  <2> DEFINE s == [t EXCEPT !.pc = "sampling"]
             r == IF Fits(t.need) THEN Admitted(t) ELSE IF ~Evicting THEN Answered("oom", 0) ELSE s
  <2>1. Good(s) /\ s.now = t.now
    BY <1>k, MoveGood, Zenon DEF Pcs
  <2>2. Good(r) /\ r.now \in {0, t.now}
    BY <1>k, <2>1, AdmittedGood, AnsweredGood
  <2>3. Become(c, r) /\ UNCHANGED <<db, mem, clock, flushed>>
    BY <1>1 DEF EvictIfNeeded
  <2> HIDE DEF r
  <2> QED
    BY <2>2, <2>3, <1>u, <1>m, StepKeeps
<1>2. CASE EvictSample(c)
  <2>1. PICK S \in {{}} \cup {{k} : k \in DOMAIN db} :
           Become(c, [t EXCEPT !.pc = IF S = {} THEN "recheck" ELSE "victim", !.tries = @ + 1, !.keys = S])
    BY <1>2, Zenon DEF EvictSample
  <2> DEFINE p == IF S = {} THEN "recheck" ELSE "victim"
             n == t.tries + 1
             r == [t EXCEPT !.pc = p, !.tries = n, !.keys = S]
  <2>2. p \in {"recheck", "victim"}
    OBVIOUS
  <2>3. S \in SUBSET Keys
    BY EntryTyped DEF Inv
  <2>4. Become(c, r) /\ UNCHANGED <<db, mem, clock, flushed>>
    BY <1>2, <2>1, Zenon DEF EvictSample
  <2> HIDE DEF p, n
  <2>5. Good(r) /\ r.now \in {0, t.now}
    BY <1>k, <2>2, <2>3 DEF Good, Fields, Pcs, KeyPcs
  <2> HIDE DEF r
  <2> QED
    BY <2>4, <2>5, <1>u, <1>m, StepKeeps
<1>3. CASE EvictRemove(c)
  <2>1. PICK k \in t.keys :
          IF k \in DOMAIN db
          THEN /\ Remove(k)
               /\ Become(c, [t EXCEPT !.pc = "evicted", !.old = Size(db[k].val), !.keys = {}])
          ELSE /\ Become(c, [t EXCEPT !.pc = "recheck", !.keys = {}])
               /\ UNCHANGED db
    BY <1>3, Zenon DEF EvictRemove
  <2> DEFINE z == Size(db[k].val)
             r1 == [t EXCEPT !.pc = "evicted", !.old = z, !.keys = {}]
             r2 == [t EXCEPT !.pc = "recheck", !.keys = {}]
  <2>2. z \in 0..MaxSize
    BY SizeTyped
  <2>3. UNCHANGED <<mem, clock, flushed>>
    BY <1>3, Zenon DEF EvictRemove
  <2>4. \/ Become(c, r1) /\ Remove(k)
        \/ Become(c, r2) /\ UNCHANGED db
    BY <2>1, Zenon
  <2> HIDE DEF z
  <2>5. Good(r1) /\ r1.now = t.now /\ Good(r2) /\ r2.now = t.now
    BY <1>k, <2>2 DEF Good, Fields, Pcs, KeyPcs
  <2> HIDE DEF r1, r2
  <2>6. Remove(k) => DbTyped'
    BY RemoveTyped DEF Inv
  <2> QED
    BY <2>3, <2>4, <2>5, <2>6, <1>u, <1>m, StepKeeps
<1>4. CASE EvictAccount(c)
  <2> DEFINE f == t.freed + t.old
             r == [t EXCEPT !.pc = "sampling", !.freed = f, !.old = 0]
  <2>1. Become(c, r) /\ UNCHANGED <<db, clock, flushed>> /\ Plus(-t.old)
    BY <1>4 DEF EvictAccount
  <2> HIDE DEF f
  <2>2. Good(r) /\ r.now = t.now
    BY <1>k DEF Good, Fields, Pcs, KeyPcs, MaxSize
  <2> HIDE DEF r
  <2>3. -t.old \in Int
    BY <1>k DEF MaxSize
  <2>4. mem' \in 0..(U64 - 1)
    BY <2>1, <2>3, PlusTyped DEF Inv
  <2> QED
    BY <2>1, <2>2, <2>4, <1>u, StepKeeps
<1>5. CASE EvictRecheck(c)
  <2> DEFINE r == IF Fits(t.need) THEN Admitted(t) ELSE Answered("oom", 0)
  <2>1. Good(r) /\ r.now \in {0, t.now}
    BY <1>k, AdmittedGood, AnsweredGood
  <2>2. Become(c, r) /\ UNCHANGED <<db, mem, clock, flushed>>
    BY <1>5 DEF EvictRecheck
  <2> HIDE DEF r
  <2> QED
    BY <2>1, <2>2, <1>u, <1>m, StepKeeps
<1> QED
  BY <1>1, <1>2, <1>3, <1>4, <1>5

LEMMA WriteSteps ==
    ASSUME Inv, NEW c \in Threads,
           CheckCondition(c) \/ MsetNet(c) \/ Insert(c) \/ SubtractOld(c) \/ AddNew(c)
    PROVE  Inv'
<1>0. th[c].pc \in {"check", "net", "insert", "subtract", "add"}
  BY Zenon DEF CheckCondition, MsetNet, Insert, SubtractOld, AddNew, At
<1> DEFINE t == th[c]
<1>k. /\ Good(t) /\ t.args # <<>> /\ t.old \in 0..MaxSize
      /\ Key(c) \in Keys /\ Val(c) \in Values
  BY <1>0, AtKey DEF KeyPcs
<1>u. UNCHANGED db => DbTyped'
  BY DEF Inv, DbTyped
<1>m. UNCHANGED mem => mem' \in 0..(U64 - 1)
  BY DEF Inv
<1>1. CASE CheckCondition(c)
  <2> DEFINE s == [t EXCEPT !.pc = "insert"]
  <2>1. Good(s) /\ s.now = t.now
    BY <1>k, MoveGood, Zenon DEF Pcs
  <2>2. Become(c, Answered("nil", 0)) \/ Become(c, s)
    BY <1>1 DEF CheckCondition, Answer
  <2>3. UNCHANGED <<db, mem, clock, flushed>>
    BY <1>1 DEF CheckCondition
  <2> HIDE DEF s
  <2> QED
    BY <2>1, <2>2, <2>3, <1>u, <1>m, StepKeeps, AnsweredGood
<1>2. CASE MsetNet(c)
  <2> DEFINE i == t.n + 1
             net == t.need + Size(t.args[i][2]) - (IF Live(t.args[i][1], t.now) THEN Size(db[t.args[i][1]].val) ELSE 0)
             r1 == [t EXCEPT !.n = i, !.need = net]
             r2 == [t EXCEPT !.pc = "evict", !.n = 0, !.need = net]
             r3 == [t EXCEPT !.pc = "insert", !.n = 0, !.need = 0]
  <2>1. i \in Nat /\ t.pc = "net"
    <3>1. t.n \in Nat
      BY <1>k DEF Good
    <3>2. t.n + 1 \in Nat
      BY <3>1
    <3>3. At(c, "net")
      BY <1>2, Zenon DEF MsetNet
    <3> QED
      BY <3>2, <3>3 DEF At
  <2>2. Become(c, IF i < Len(t.args) THEN r1 ELSE IF net > 0 THEN r2 ELSE r3)
    BY <1>2, Zenon DEF MsetNet
  <2>3. UNCHANGED <<db, mem, clock, flushed>>
    BY <1>2, Zenon DEF MsetNet
  <2> HIDE DEF i, net
  <2>4. /\ i < Len(t.args) => Good(r1) /\ r1.now = t.now
        /\ Good(r2) /\ r2.now = t.now
        /\ Good(r3) /\ r3.now = t.now
    BY <1>k, <2>1 DEF Good, Fields, Pcs, KeyPcs
  <2> HIDE DEF r1, r2, r3
  <2> QED
    BY <2>2, <2>3, <2>4, <1>u, <1>m, StepKeeps
<1>3. CASE Insert(c)
  <2> DEFINE z == Size(db[Key(c)].val)
             e == [val |-> Val(c), exp |-> t.exp]
             r1 == [t EXCEPT !.pc = "subtract", !.old = z]
             r2 == [t EXCEPT !.pc = "add"]
  <2>1. z \in 0..MaxSize
    BY SizeTyped
  <2>2. Become(c, r1) \/ Become(c, r2)
    BY <1>3, Zenon DEF Insert
  <2>3. Put(Key(c), e) /\ UNCHANGED <<mem, clock, flushed>>
    BY <1>3 DEF Insert
  <2>4. e \in Entries
    BY <1>k DEF Entries, Good
  <2> HIDE DEF z
  <2>5. Good(r1) /\ r1.now = t.now /\ Good(r2) /\ r2.now = t.now
    BY <1>k, <2>1 DEF Good, Fields, Pcs, KeyPcs
  <2> HIDE DEF r1, r2, e
  <2>6. DbTyped'
    BY <1>k, <2>3, <2>4, PutTyped DEF Inv
  <2> QED
    BY <2>2, <2>3, <2>5, <2>6, <1>m, StepKeeps
<1>4. CASE SubtractOld(c)
  <2> DEFINE r == [t EXCEPT !.pc = "add", !.old = 0]
  <2>1. Become(c, r) /\ UNCHANGED <<db, clock, flushed>> /\ Plus(-t.old)
    BY <1>4 DEF SubtractOld
  <2>2. Good(r) /\ r.now = t.now
    BY <1>k DEF Good, Fields, Pcs, KeyPcs, MaxSize
  <2> HIDE DEF r
  <2>3. -t.old \in Int
    BY <1>k DEF MaxSize
  <2>4. mem' \in 0..(U64 - 1)
    BY <2>1, <2>3, PlusTyped DEF Inv
  <2> QED
    BY <2>1, <2>2, <2>4, <1>u, StepKeeps
<1>5. CASE AddNew(c)
  <2> DEFINE a == Tail(t.args)
             r == [t EXCEPT !.pc = "insert", !.args = a]
  <2>1. \/ Len(t.args) > 1 /\ Become(c, r)
        \/ Become(c, Answered("ok", Val(c)))
    BY <1>5 DEF AddNew, Answer
  <2>2. UNCHANGED <<db, clock, flushed>> /\ Plus(Size(Val(c)))
    BY <1>5 DEF AddNew
  <2>3. Len(t.args) > 1 => a \in Seq(Keys \X Values) /\ a # <<>>
    BY <1>k, TailLonger DEF Good
  <2> HIDE DEF a
  <2>4. Len(t.args) > 1 => Good(r) /\ r.now = t.now
    BY <1>k, <2>3 DEF Good, Fields, Pcs, KeyPcs
  <2> HIDE DEF r
  <2>5. mem' \in 0..(U64 - 1)
    BY <2>2, SizeTyped, PlusTyped DEF Inv
  <2> QED
    BY <2>1, <2>2, <2>4, <2>5, <1>u, StepKeeps, AnsweredGood
<1> QED
  BY <1>1, <1>2, <1>3, <1>4, <1>5

LEMMA ReadSteps ==
    ASSUME Inv, NEW c \in Threads,
           GetKey(c) \/ ReadCounter(c) \/ LazyRemove(c) \/ LazyAccount(c)
    PROVE  Inv'
<1>0. th[c].pc \in {"get", "read", "lazy", "lazied"}
  BY DEF GetKey, ReadCounter, LazyRemove, LazyAccount, At
<1> DEFINE t == th[c]
           lazy == [t EXCEPT !.pc = "lazy"]
<1>k. /\ Good(t) /\ t.args # <<>> /\ t.old \in 0..MaxSize
      /\ Key(c) \in Keys
  BY <1>0, AtKey DEF KeyPcs
<1>l. Good(lazy) /\ lazy.now = t.now
  BY <1>k, MoveGood, Zenon DEF Pcs
<1> HIDE DEF lazy
<1>u. UNCHANGED db => DbTyped'
  BY DEF Inv, DbTyped
<1>m. UNCHANGED mem => mem' \in 0..(U64 - 1)
  BY DEF Inv
<1>w. Good(WithoutKey(t)) /\ WithoutKey(t).now \in {0, t.now}
  BY <1>k, WithoutKeyGood
<1>1. CASE GetKey(c)
  <2>1. \/ Become(c, WithoutKey(t))
        \/ Become(c, lazy)
        \/ Become(c, Answered("ok", db[Key(c)].val))
    BY <1>1 DEF GetKey, lazy
  <2>2. UNCHANGED <<db, mem, clock, flushed>>
    BY <1>1 DEF GetKey
  <2> QED
    BY <2>1, <2>2, <1>l, <1>w, <1>u, <1>m, StepKeeps, AnsweredGood
<1>2. CASE ReadCounter(c)
  <2> DEFINE v == db[Key(c)].val
             e == db[Key(c)].exp
             z == Size(db[Key(c)].val)
             r == Incremented(t, v, e, z)
  <2>1. \/ Become(c, WithoutKey(t))
        \/ Become(c, lazy)
        \/ Become(c, Answered("error", 0))
        \/ Key(c) \in DOMAIN db /\ Parses(v) /\ Become(c, r)
    BY <1>2 DEF ReadCounter, lazy
  <2>2. UNCHANGED <<db, mem, clock, flushed>>
    BY <1>2 DEF ReadCounter
  <2>3. t.cmd.name = "INCR"
    BY <1>2, <1>k DEF ReadCounter, At, Good
  <2>4. ASSUME Key(c) \in DOMAIN db, Parses(v)
        PROVE  Good(r) /\ r.now \in {0, t.now}
    <3>1. e \in 0..Never
      BY <2>4, EntryTyped DEF Inv
    <3>2. v \in I64
      BY <2>4, BoundsAssumption DEF Parses, I64
    <3> HIDE DEF v, e, z
    <3> QED
      BY <1>k, <2>3, <3>1, <3>2, IncrementedGood
  <2> HIDE DEF r, v, e, z
  <2> QED
    BY <2>1, <2>2, <2>4, <1>l, <1>w, <1>u, <1>m, StepKeeps, AnsweredGood
<1>3. CASE LazyRemove(c)
  <2> DEFINE z == Size(db[Key(c)].val)
             r == [t EXCEPT !.pc = "lazied", !.old = z]
  <2>1. \/ Remove(Key(c)) /\ Become(c, r)
        \/ UNCHANGED db /\ Become(c, WithoutKey(t))
    BY <1>3, Zenon DEF LazyRemove
  <2>2. UNCHANGED <<mem, clock, flushed>>
    BY <1>3 DEF LazyRemove
  <2>3. z \in 0..MaxSize
    BY SizeTyped
  <2> HIDE DEF z
  <2>4. Good(r) /\ r.now = t.now
    BY <1>k, <2>3 DEF Good, Fields, Pcs, KeyPcs
  <2> HIDE DEF r
  <2>5. Remove(Key(c)) => DbTyped'
    BY RemoveTyped DEF Inv
  <2> QED
    BY <2>1, <2>2, <2>4, <2>5, <1>w, <1>u, <1>m, StepKeeps
<1>4. CASE LazyAccount(c)
  <2>1. Become(c, WithoutKey(t)) /\ UNCHANGED <<db, clock, flushed>> /\ Plus(-t.old)
    BY <1>4 DEF LazyAccount
  <2>2. -t.old \in Int
    BY <1>k DEF MaxSize
  <2>3. mem' \in 0..(U64 - 1)
    BY <2>1, <2>2, PlusTyped DEF Inv
  <2> QED
    BY <2>1, <2>3, <1>w, <1>u, StepKeeps
<1> QED
  BY <1>1, <1>2, <1>3, <1>4

LEMMA DeleteSteps ==
    ASSUME Inv, NEW c \in Threads, DeleteKey(c) \/ DeleteAccount(c)
    PROVE  Inv'
<1>0. th[c].pc \in {"delete", "deleted"}
  BY DEF DeleteKey, DeleteAccount, At
<1> DEFINE t == th[c]
<1>k. Good(t) /\ t.args # <<>> /\ t.old \in 0..MaxSize
  BY <1>0, AtKey DEF KeyPcs
<1>n. Good(NextDelete(t)) /\ NextDelete(t).now \in {0, t.now}
  BY <1>k, NextDeleteGood
<1>u. UNCHANGED db => DbTyped'
  BY DEF Inv, DbTyped
<1>m. UNCHANGED mem => mem' \in 0..(U64 - 1)
  BY DEF Inv
<1>1. CASE DeleteKey(c)
  <2> DEFINE z == Size(db[Key(c)].val)
             one == IF Expired(db[Key(c)], t.now) THEN 0 ELSE 1
             i == t.n + one
             r == [t EXCEPT !.pc = "deleted", !.old = z, !.n = i]
  <2>1. \/ Remove(Key(c)) /\ Become(c, r)
        \/ UNCHANGED db /\ Become(c, NextDelete(t))
    BY <1>1, Zenon DEF DeleteKey
  <2>2. UNCHANGED <<mem, clock, flushed>>
    BY <1>1 DEF DeleteKey
  <2>3. z \in 0..MaxSize
    BY SizeTyped
  <2>4. t.n \in Nat /\ one \in Nat
    BY <1>k, Zenon DEF Good
  <2> HIDE DEF one
  <2>5. i \in Nat
    BY <2>4
  <2> HIDE DEF z, i
  <2>6. Good(r) /\ r.now = t.now
    BY <1>k, <2>3, <2>5 DEF Good, Fields, Pcs, KeyPcs
  <2> HIDE DEF r
  <2>7. Remove(Key(c)) => DbTyped'
    BY RemoveTyped DEF Inv
  <2> QED
    BY <2>1, <2>2, <2>6, <2>7, <1>n, <1>u, <1>m, StepKeeps
<1>2. CASE DeleteAccount(c)
  <2>1. Become(c, NextDelete(t)) /\ UNCHANGED <<db, clock, flushed>> /\ Plus(-t.old)
    BY <1>2 DEF DeleteAccount
  <2>2. -t.old \in Int
    BY <1>k DEF MaxSize
  <2>3. mem' \in 0..(U64 - 1)
    BY <2>1, <2>2, PlusTyped DEF Inv
  <2> QED
    BY <2>1, <2>3, <1>n, <1>u, StepKeeps
<1> QED
  BY <1>1, <1>2

LEMMA ExpTyped ==
    ASSUME DbTyped, NEW k \in DOMAIN db, NEW e \in 0..Never, db' = [db EXCEPT ![k].exp = e]
    PROVE  DbTyped'
<1>1. PICK S \in SUBSET Keys : db \in [S -> Entries]
  BY DEF DbTyped
<1>2. [db[k] EXCEPT !.exp = e] \in Entries
  BY <1>1 DEF Entries
<1>3. db' \in [S -> Entries]
  BY <1>1, <1>2
<1> QED
  BY <1>3 DEF DbTyped

LEMMA ExpirySteps ==
    ASSUME Inv, NEW c \in Threads, ExpireKey(c) \/ PersistKey(c)
    PROVE  Inv'
<1>0. th[c].pc \in {"expire", "persist"}
  BY DEF ExpireKey, PersistKey, At
<1> DEFINE t == th[c]
           lazy == [t EXCEPT !.pc = "lazy"]
<1>k. Good(t) /\ t.args # <<>>
  BY <1>0, AtKey DEF KeyPcs
<1>l. Good(lazy) /\ lazy.now = t.now
  BY <1>k, MoveGood, Zenon DEF Pcs
<1> HIDE DEF lazy
<1>u. UNCHANGED db => DbTyped'
  BY DEF Inv, DbTyped
<1>m. UNCHANGED mem => mem' \in 0..(U64 - 1)
  BY DEF Inv
<1>1. CASE ExpireKey(c)
  <2> DEFINE e == t.now + t.cmd.ttl
  <2>1. \/ Key(c) \in DOMAIN db /\ db' = [db EXCEPT ![Key(c)].exp = e] /\ Become(c, Answered("ok", 1))
        \/ UNCHANGED db /\ (Become(c, lazy) \/ Become(c, Answered("nil", 0)))
    BY <1>1 DEF ExpireKey, Answer, Live, lazy
  <2>2. UNCHANGED <<mem, clock, flushed>>
    BY <1>1 DEF ExpireKey
  <2>3. t.now \in 0..MaxClock /\ t.cmd \in CommandType \cup {NoCommand}
    BY <1>k DEF Good
  <2>4. t.cmd.ttl \in 0..MaxTtl
    <3>1. NoCommand.ttl = 0
      BY DEF NoCommand
    <3>2. t.cmd \in CommandType => t.cmd.ttl \in 0..MaxTtl
      BY Zenon DEF CommandType
    <3> QED
      BY <2>3, <3>1, <3>2, BoundsAssumption
  <2>5. e \in 0..Never
    BY <2>3, <2>4, BoundsAssumption DEF Never
  <2> HIDE DEF e
  <2>6. DbTyped'
    BY <2>1, <2>5, <1>u, ExpTyped DEF Inv
  <2> QED
    BY <2>1, <2>2, <2>6, <1>l, <1>m, StepKeeps, AnsweredGood
<1>2. CASE PersistKey(c)
  <2>1. \/ Key(c) \in DOMAIN db /\ db' = [db EXCEPT ![Key(c)].exp = Never] /\ Become(c, Answered("ok", 1))
        \/ UNCHANGED db /\ (Become(c, lazy) \/ Become(c, Answered("nil", 0)))
    BY <1>2 DEF PersistKey, Answer, Live, lazy
  <2>2. UNCHANGED <<mem, clock, flushed>>
    BY <1>2 DEF PersistKey
  <2>3. Never \in 0..Never
    BY BoundsAssumption DEF Never
  <2>4. DbTyped'
    BY <2>1, <2>3, <1>u, ExpTyped DEF Inv
  <2> QED
    BY <2>1, <2>2, <2>4, <1>l, <1>m, StepKeeps, AnsweredGood
<1> QED
  BY <1>1, <1>2

LEMMA FlushSteps ==
    ASSUME Inv, NEW c \in Threads, NEW k, FlushSum(c, k) \/ FlushClear(c, k) \/ FlushAccount(c)
    PROVE  Inv'
<1> DEFINE t == th[c]
<1>k. Good(t) /\ (t.pc \in {"sum", "clear", "cas"} => t.need \in Nat) /\ t.keys \in SUBSET Keys
  BY Zenon DEF Inv, ThreadsGood, Good
<1>u. UNCHANGED db => DbTyped'
  BY DEF Inv, DbTyped
<1>m. UNCHANGED mem => mem' \in 0..(U64 - 1)
  BY DEF Inv
<1>1. CASE FlushSum(c, k)
  <2> DEFINE live == IF Live(k, t.now) THEN Size(db[k].val) ELSE 0
             need == t.need + live
             rest == t.keys \ {k}
             keys == IF rest = {} THEN Keys ELSE rest
             p == IF rest = {} THEN "clear" ELSE t.pc
             r == [t EXCEPT !.need = need, !.keys = keys, !.pc = p]
  <2>1. Become(c, r) /\ UNCHANGED <<db, mem, clock, flushed>>
    BY <1>1 DEF FlushSum
  <2>2. t.pc = "sum"
    BY <1>1 DEF FlushSum, At
  <2>3. live \in Nat /\ p \in {"sum", "clear"}
    BY <2>2, SizeTyped, Zenon
  <2>4. keys \in SUBSET Keys
    BY <1>k, Zenon
  <2> HIDE DEF live
  <2>5. need \in Nat
    BY <1>k, <2>2, <2>3
  <2> HIDE DEF need, keys, p
  <2>6. Good(r) /\ r.now = t.now
    <3>1. Fields \subseteq DOMAIN t
      BY <1>k, Zenon DEF Good
    <3>2. /\ DOMAIN r = DOMAIN t /\ r.pc = p /\ r.keys = keys /\ r.need = need
          /\ r.cmd = t.cmd /\ r.args = t.args /\ r.now = t.now /\ r.exp = t.exp /\ r.n = t.n /\ r.old = t.old
      BY <3>1 DEF Fields
    <3>3. p \in Pcs /\ p \notin KeyPcs
      BY <2>3 DEF Pcs, KeyPcs
    <3> HIDE DEF r
    <3> QED
      BY <1>k, <2>3, <2>4, <2>5, <3>2, <3>3, Zenon DEF Good
  <2> HIDE DEF r
  <2> QED
    BY <2>1, <2>6, <1>u, <1>m, StepKeeps, Zenon
<1>2. CASE FlushClear(c, k)
  <2> DEFINE keys == t.keys \ {k}
             p == IF t.keys = {k} THEN "cas" ELSE t.pc
             r == [t EXCEPT !.keys = keys, !.pc = p]
  <2>1. Become(c, r) /\ UNCHANGED <<mem, clock, flushed>> /\ Remove(k)
    BY <1>2 DEF FlushClear
  <2>2. t.pc = "clear"
    BY <1>2 DEF FlushClear, At
  <2>3. p \in {"cas", "clear"} /\ keys \in SUBSET Keys
    BY <1>k, <2>2
  <2> HIDE DEF keys, p
  <2>4. Good(r) /\ r.now = t.now
    BY <1>k, <2>2, <2>3 DEF Good, Fields, Pcs, KeyPcs
  <2> HIDE DEF r
  <2>5. DbTyped'
    BY <2>1, RemoveTyped DEF Inv
  <2> QED
    BY <2>1, <2>4, <2>5, <1>m, StepKeeps
<1>3. CASE FlushAccount(c)
  <2>1. Become(c, Answered("ok", 0)) /\ UNCHANGED <<db, clock, flushed>>
    BY <1>3 DEF FlushAccount, Answer
  <2>2. t.need \in Nat
    BY <1>3, <1>k DEF FlushAccount, At
  <2>3. mem' = IF t.need >= mem THEN 0 ELSE mem - t.need
    BY <1>3 DEF FlushAccount
  <2>4. mem' \in 0..(U64 - 1)
    BY <2>2, <2>3, MemoryAssumption DEF Inv
  <2> QED
    BY <2>1, <2>4, <1>u, StepKeeps, AnsweredGood
<1> QED
  BY <1>1, <1>2, <1>3

LEMMA ExpirerSteps ==
    ASSUME Inv, ExpirerTick \/ (\E k \in Keys : ExpirerSample(k)) \/ ExpirerRoundEnds
    PROVE  Inv'
<1> DEFINE t == th[Expirer]
<1>k. Expirer \in Threads /\ Good(t) /\ t.now <= clock
  BY DEF Inv, ThreadsGood, Threads
<1>1. CASE ExpirerTick
  <2> DEFINE r == [Idle EXCEPT !.pc = "sample", !.now = clock]
  <2>0. Idle.cmd = NoCommand /\ NoCommand.name = "none" /\ clock \in 0..MaxClock
    BY DEF Idle, NoCommand, Inv
  <2>1. Good(r) /\ r.now = clock /\ clock <= clock
    BY <2>0, IdleGood DEF Good, Fields, Pcs, KeyPcs
  <2>2. Become(Expirer, r) /\ UNCHANGED <<db, mem, clock, flushed>>
    BY <1>1 DEF ExpirerTick
  <2> HIDE DEF r
  <2>3. ThreadsGood'
    BY <1>k, <2>1, <2>2, BecomeGood
  <2> QED
    BY <2>2, <2>3 DEF Inv, DbTyped
<1>2. ASSUME NEW k \in Keys, ExpirerSample(k)
      PROVE  Inv'
  <2> DEFINE a == <<<<k, 0>>>>
             r == [t EXCEPT !.pc = "lazy", !.args = a]
  <2>1. 0 \in Values
    BY BoundsAssumption DEF Values, I64
  <2>2. a \in Seq(Keys \X Values) /\ a # <<>>
    BY <2>1
  <2>3. Become(Expirer, r) /\ UNCHANGED <<db, mem, clock, flushed>>
    BY <1>2, Zenon DEF ExpirerSample
  <2> HIDE DEF a
  <2>4. Good(r) /\ r.now = t.now
    BY <1>k, <2>2 DEF Good, Fields, Pcs, KeyPcs
  <2> HIDE DEF r
  <2>5. ThreadsGood'
    BY <1>k, <2>3, <2>4, BecomeGood
  <2> QED
    BY <2>3, <2>5 DEF Inv, DbTyped
<1>3. CASE ExpirerRoundEnds
  <2>1. Become(Expirer, Idle) /\ UNCHANGED <<db, mem, clock, flushed>>
    BY <1>3 DEF ExpirerRoundEnds
  <2>2. Idle.now <= clock
    BY IdleGood DEF Inv
  <2>3. ThreadsGood'
    BY <1>k, <2>1, <2>2, IdleGood, BecomeGood
  <2> QED
    BY <2>1, <2>3 DEF Inv, DbTyped
<1> QED
  BY <1>1, <1>2, <1>3

LEMMA InitInv ==
    Init => Inv
<1> SUFFICES ASSUME Init PROVE Inv
  OBVIOUS
<1>1. DbTyped
  <2>1. db \in [{} -> Entries]
    BY DEF Init
  <2> QED
    BY <2>1, Zenon DEF DbTyped
<1>2. ThreadsGood
  <2>1. DOMAIN th = Threads /\ clock = 0 /\ \A c \in Threads : th[c] = Idle
    BY DEF Init
  <2> QED
    BY <2>1, IdleGood DEF ThreadsGood
<1>3. mem \in 0..(U64 - 1) /\ clock \in 0..MaxClock
  BY MemoryAssumption, BoundsAssumption DEF Init
<1>4. flushed \in BOOLEAN
  BY Zenon DEF Init
<1> QED
  BY <1>1, <1>2, <1>3, <1>4 DEF Inv

LEMMA NextInv ==
    Inv /\ [Next]_vars => Inv'
<1> SUFFICES ASSUME Inv, [Next]_vars PROVE Inv'
  OBVIOUS
<1>1. ASSUME NEW c \in Conns, CaptureNow(c) PROVE Inv'
  BY <1>1, CaptureStep
<1>2. ASSUME NEW c \in Conns, NEW m \in Commands, Receive(c, m) PROVE Inv'
  BY <1>2, ReceiveStep
<1>3. ASSUME NEW c \in Threads, HandlerStep(c) PROVE Inv'
  BY <1>3, EvictionSteps, WriteSteps, ReadSteps, DeleteSteps, ExpirySteps, FlushSteps DEF HandlerStep
<1>4. CASE ExpirerTick \/ (\E k \in Keys : ExpirerSample(k)) \/ ExpirerRoundEnds
  BY <1>4, ExpirerSteps
<1>5. CASE Tick
  <2>1. /\ clock' = clock + 1 /\ clock < MaxClock /\ clock \in 0..MaxClock
        /\ UNCHANGED <<db, mem, th, flushed>>
    BY <1>5 DEF Tick, Inv
  <2>2. clock' \in 0..MaxClock /\ clock <= clock'
    BY <2>1, BoundsAssumption
  <2>3. ThreadsGood'
    <3>1. ASSUME NEW c \in Threads PROVE Good(th[c]) /\ th[c].now <= clock'
      <4>1. Good(th[c]) /\ th[c].now <= clock /\ th[c].now \in 0..MaxClock
        BY Zenon DEF Inv, ThreadsGood, Good
      <4> QED
        BY <4>1, <2>1, <2>2
    <3> QED
      BY <2>1, <3>1 DEF Inv, ThreadsGood
  <2> QED
    BY <2>1, <2>2, <2>3 DEF Inv, DbTyped
<1>6. CASE UNCHANGED vars
  BY <1>6 DEF vars, Inv, DbTyped, ThreadsGood
<1> QED
  BY <1>1, <1>2, <1>3, <1>4, <1>5, <1>6 DEF Next

LEMMA InvHolds ==
    Spec => []Inv
BY InitInv, NextInv, PTL DEF Spec

\* Every variable stays in its range, for any commands: in particular INCR and its kin never
\* store a number that is not an i64, and an expiry is never past what a command can ask for.
THEOREM TypeCorrect ==
    Spec => []TypeOK
<1>1. Inv => TypeOK
  BY DEF Inv, TypeOK, DbTyped, ThreadsGood, Good
<1> QED
  BY <1>1, InvHolds, PTL

\* Only these steps take a key out of the map.
LEMMA WhoRemoves ==
    ASSUME Inv, [Next]_vars, NEW k \in DOMAIN db \ DOMAIN db'
    PROVE  \E c \in Threads :
             \/ EvictRemove(c)
             \/ DeleteKey(c) /\ Key(c) \in DOMAIN db
             \/ LazyRemove(c) /\ Expired(db[k], th[c].now)
             \/ \E j \in Keys : FlushClear(c, j)
<1>1. ~UNCHANGED db
  OBVIOUS
<1>2. PICK c \in Threads : HandlerStep(c)
  BY <1>1, Zenon DEF Next, CaptureNow, Receive, ExpirerTick, ExpirerSample, ExpirerRoundEnds, Tick, vars
<1>3. ~Insert(c)
  BY DEF Insert, Put
<1>4. ~ExpireKey(c) /\ ~PersistKey(c)
  <2>1. ASSUME NEW j, NEW e, db' = [db EXCEPT ![j].exp = e] PROVE FALSE
    BY <2>1
  <2> QED
    BY <1>1, <2>1 DEF ExpireKey, PersistKey
<1>5. LazyRemove(c) => Expired(db[k], th[c].now)
  BY <1>1 DEF LazyRemove, Remove
<1>6. DeleteKey(c) => Key(c) \in DOMAIN db
  BY <1>1 DEF DeleteKey
<1> QED
  BY <1>1, <1>2, <1>3, <1>4, <1>5, <1>6, Zenon
  DEF HandlerStep, EvictIfNeeded, EvictSample, EvictAccount, EvictRecheck, CheckCondition, MsetNet,
      SubtractOld, AddNew, GetKey, ReadCounter, LazyAccount, DeleteAccount, FlushSum, FlushAccount

LEMMA Moves ==
    ASSUME Inv, NEW c \in Threads,
           \/ EvictRemove(c)
           \/ DeleteKey(c) /\ Key(c) \in DOMAIN db
           \/ \E j \in Keys : FlushClear(c, j)
    PROVE  th[c].pc \in {"delete", "victim", "clear"} /\ th'[c] # th[c]
<1>1. c \in DOMAIN th /\ "pc" \in DOMAIN th[c] /\ "keys" \in DOMAIN th[c]
  BY Zenon DEF Inv, ThreadsGood, Good, Fields
<1>2. CASE EvictRemove(c)
  <2>1. th[c].pc = "victim"
    BY <1>2, Zenon DEF EvictRemove, At
  <2>2. th'[c].pc \in {"evicted", "recheck"}
    BY <1>1, <1>2, Zenon DEF EvictRemove, Become
  <2> QED
    BY <2>1, <2>2, Zenon
<1>3. CASE DeleteKey(c) /\ Key(c) \in DOMAIN db
  <2>1. th[c].pc = "delete"
    BY <1>3 DEF DeleteKey, At
  <2>2. th'[c].pc = "deleted"
    BY <1>1, <1>3, Zenon DEF DeleteKey, Become
  <2> QED
    BY <2>1, <2>2
<1>4. ASSUME NEW j \in Keys, FlushClear(c, j)
      PROVE  th[c].pc \in {"delete", "victim", "clear"} /\ th'[c] # th[c]
  <2>1. th[c].pc = "clear" /\ j \in th[c].keys
    BY <1>4, Zenon DEF FlushClear, At
  <2>2. th'[c].keys = th[c].keys \ {j}
    BY <1>1, <1>4, Zenon DEF FlushClear, Become
  <2> QED
    BY <2>1, <2>2
<1> QED
  BY <1>2, <1>3, <1>4, SMTT(30)

\* Lazy and passive expiry act on a decision that may be old, yet an entry whose time has
\* not come goes only with a DEL, an eviction or a FLUSHDB.
THEOREM FreshEntriesStay ==
    Spec => NoPrematureExpiry
<1> DEFINE Step == \A k \in DOMAIN db \ DOMAIN db' :
                     clock < db[k].exp =>
                       \E c \in Threads : th[c].pc \in {"delete", "victim", "clear"} /\ th'[c] # th[c]
<1>1. Inv /\ [Next]_vars => [Step]_vars
  <2> SUFFICES ASSUME Inv, [Next]_vars, NEW k \in DOMAIN db \ DOMAIN db', clock < db[k].exp
               PROVE  \E c \in Threads : th[c].pc \in {"delete", "victim", "clear"} /\ th'[c] # th[c]
    OBVIOUS
  <2>1. ASSUME NEW c \in Threads PROVE ~Expired(db[k], th[c].now)
    <3>1. db[k].exp \in 0..Never
      BY EntryTyped DEF Inv
    <3>2. th[c].now \in 0..MaxClock /\ th[c].now <= clock /\ clock \in 0..MaxClock
      BY DEF Inv, ThreadsGood, Good
    <3> QED
      BY <3>1, <3>2, BoundsAssumption DEF Expired, Never
  <2> QED
    BY <2>1, WhoRemoves, Moves
<1> QED
  BY <1>1, InvHolds, PTL DEF Spec, NoPrematureExpiry

\* SET EX, SET PX and EXPIRE count from the time the connection began to wait, which is at
\* most the present: no entry is given longer than was asked for, but for what PX rounds up.
THEOREM NoLateExpiry ==
    Spec => ExpiryNotLate
<1> DEFINE Step ==
             \A c \in Conns :
               LET m == th[c].cmd
                   life == db'[Key(c)].exp - clock
               IN /\ Insert(c) /\ m.name = "SET" /\ m.px > 0 => Millis * life < m.px + Millis
                  /\ Insert(c) /\ m.name = "SET" /\ m.px = 0 /\ m.ttl > 0 => life <= m.ttl
                  /\ ExpireKey(c) /\ Live(Key(c), th[c].now) => life <= m.ttl
<1>1. Inv /\ [Next]_vars => [Step]_vars
  <2> SUFFICES ASSUME Inv, NEW c \in Conns
               PROVE  LET m == th[c].cmd
                          life == db'[Key(c)].exp - clock
                      IN /\ Insert(c) /\ m.name = "SET" /\ m.px > 0 => Millis * life < m.px + Millis
                         /\ Insert(c) /\ m.name = "SET" /\ m.px = 0 /\ m.ttl > 0 => life <= m.ttl
                         /\ ExpireKey(c) /\ Live(Key(c), th[c].now) => life <= m.ttl
    BY Zenon
  <2> DEFINE m == th[c].cmd
             e == db'[Key(c)].exp
  <2>1. /\ th[c].now \in 0..MaxClock /\ th[c].now <= clock /\ clock \in 0..MaxClock
        /\ m.name = "SET" /\ Seconds(m) > 0 => th[c].exp = th[c].now + Seconds(m)
        /\ m \in CommandType \cup {NoCommand}
    BY Zenon DEF Inv, ThreadsGood, Good, Threads
  <2>2. NoCommand.name # "SET" /\ NoCommand.ttl = 0
    BY DEF NoCommand
  <2>3. Insert(c) => e = th[c].exp
    BY DEF Insert, Put
  <2>4. ExpireKey(c) /\ Live(Key(c), th[c].now) => e = th[c].now + m.ttl
    <3> SUFFICES ASSUME ExpireKey(c), Live(Key(c), th[c].now) PROVE e = th[c].now + m.ttl
      OBVIOUS
    <3>1. Key(c) \in DOMAIN db /\ "exp" \in DOMAIN db[Key(c)]
      BY EntryTyped DEF Live, Inv, Entries
    <3> QED
      BY <3>1 DEF ExpireKey
  <2> HIDE DEF m, e
  <2>5. CASE m = NoCommand
    BY <2>1, <2>2, <2>4, <2>5, BoundsAssumption, SMTT(30) DEF m, e
  <2>6. CASE m \in CommandType
    <3>1. /\ m.ttl \in 0..MaxTtl /\ m.px \in 0..(Millis * MaxTtl) /\ Seconds(m) \in 0..MaxTtl
          /\ m.px > 0 => Millis * Seconds(m) < m.px + Millis /\ Seconds(m) > 0
          /\ m.px = 0 => Seconds(m) = m.ttl
      BY <2>6, SecondsOf, Zenon
    <3>2. Insert(c) /\ m.name = "SET" /\ m.px > 0 => Millis * (e - clock) < m.px + Millis
      BY <2>1, <2>3, <3>1, BoundsAssumption, SMTT(30) DEF Millis
    <3>3. Insert(c) /\ m.name = "SET" /\ m.px = 0 /\ m.ttl > 0 => e - clock <= m.ttl
      BY <2>1, <2>3, <3>1, BoundsAssumption, SMTT(30)
    <3>4. ExpireKey(c) /\ Live(Key(c), th[c].now) => e - clock <= m.ttl
      BY <2>1, <2>4, <3>1, BoundsAssumption, SMTT(30)
    <3> QED
      BY <3>2, <3>3, <3>4, Zenon DEF m, e
  <2> QED
    BY <2>1, <2>5, <2>6, Zenon
<1> QED
  BY <1>1, InvHolds, PTL DEF Spec, ExpiryNotLate

----------------------------------------------------------------------------
(* Sums of sizes: a unit is counted once, at the place it belongs to. *)

Sized(f) == IsFiniteSet(DOMAIN f) /\ \A x \in DOMAIN f : f[x] \in 0..MaxSize
Part(f, d) == IF d \in DOMAIN f THEN f[d] ELSE 0
Rest(f, d) == [x \in DOMAIN f \ {d} |-> f[x]]

LEMMA UnitsFinite ==
    ASSUME NEW f, IsFiniteSet(DOMAIN f)
    PROVE  IsFiniteSet(Units(f)) /\ SumOf(f) \in Nat
<1>0. 1 \in Int /\ MaxSize \in Int
  BY DEF MaxSize
<1>1. IsFiniteSet(1..MaxSize)
  BY <1>0, FS_Interval
<1>2. IsFiniteSet((DOMAIN f) \X (1..MaxSize))
  BY <1>1, FS_Product, Zenon
<1>3. Units(f) \in SUBSET ((DOMAIN f) \X (1..MaxSize))
  BY Zenon DEF Units
<1>4. IsFiniteSet(Units(f))
  BY <1>2, <1>3, FS_Subset
<1> QED
  BY <1>4, FS_CardinalityType DEF SumOf

LEMMA ColumnSize ==
    ASSUME NEW d, NEW n \in Nat
    PROVE  IsFiniteSet({d} \X (1..n)) /\ Cardinality({d} \X (1..n)) = n
<1>1. IsFiniteSet({d}) /\ Cardinality({d}) = 1
  BY FS_Singleton
<1>2. IsFiniteSet(1..n) /\ Cardinality(1..n) = n
  BY FS_Interval
<1>3. /\ IsFiniteSet({d} \X (1..n))
      /\ Cardinality({d} \X (1..n)) = Cardinality({d}) * Cardinality(1..n)
  BY <1>1, <1>2, FS_Product, Zenon
<1> QED
  BY <1>1, <1>2, <1>3

LEMMA SumParts ==
    ASSUME NEW f, Sized(f), NEW d
    PROVE  /\ SumOf(f) \in Nat /\ SumOf(Rest(f, d)) \in Nat /\ Part(f, d) \in 0..MaxSize
           /\ SumOf(f) = SumOf(Rest(f, d)) + Part(f, d)
<1> DEFINE g == Rest(f, d)
<1>0. DOMAIN g = DOMAIN f \ {d} /\ \A x \in DOMAIN g : g[x] = f[x]
  BY DEF Rest
<1>1. IsFiniteSet(DOMAIN f) /\ IsFiniteSet(DOMAIN g)
  BY <1>0, FS_RemoveElement DEF Sized
<1>2. IsFiniteSet(Units(g)) /\ SumOf(g) \in Nat /\ SumOf(f) \in Nat
  BY <1>1, UnitsFinite, Zenon
<1>3. CASE d \in DOMAIN f
  <2> DEFINE n == f[d]
             col == {d} \X (1..n)
  <2>1. n \in 0..MaxSize /\ n \in Nat /\ Part(f, d) = n
    BY <1>3 DEF Sized, Part, MaxSize
  <2>2. Units(f) = Units(g) \cup col
    <3>1. ASSUME NEW u PROVE u \in Units(f) <=> u \in Units(g) \cup col
      <4>1. ASSUME NEW x, NEW i, u = <<x, i>>
            PROVE  u \in Units(f) <=> u \in Units(g) \cup col
        <5>1. CASE x = d
          BY <1>0, <1>3, <2>1, <4>1, <5>1 DEF Units, MaxSize
        <5>2. CASE x # d
          BY <1>0, <4>1, <5>2 DEF Units
        <5> QED
          BY <5>1, <5>2
      <4>2. u \in Units(f) \/ u \in Units(g) \/ u \in col => \E x, i : u = <<x, i>>
        BY DEF Units
      <4> QED
        BY <4>1, <4>2, Zenon
    <3> QED
      BY <3>1, Zenon
  <2>3. Units(g) \cap col = {}
    BY <1>0 DEF Units
  <2>4. IsFiniteSet(col) /\ Cardinality(col) = n
    BY <2>1, ColumnSize, Zenon
  <2>5. Cardinality(Units(g) \cap col) = 0
    BY <2>3, FS_EmptySet
  <2> HIDE DEF n, col, g
  <2>6. SumOf(f) = SumOf(g) + n - 0
    BY <1>2, <2>2, <2>4, <2>5, FS_Union DEF SumOf
  <2> QED
    BY <1>2, <2>1, <2>6 DEF g
<1>4. CASE d \notin DOMAIN f
  <2>1. DOMAIN g = DOMAIN f /\ Part(f, d) = 0
    BY <1>0, <1>4 DEF Part
  <2>2. Units(f) = Units(g)
    BY <1>0, <2>1 DEF Units
  <2> QED
    BY <1>2, <2>1, <2>2 DEF SumOf, MaxSize
<1> QED
  BY <1>3, <1>4

\* A change in one place changes the sum by as much.
LEMMA SumChanges ==
    ASSUME NEW f, NEW g, Sized(f), Sized(g), NEW d,
           DOMAIN f \ {d} = DOMAIN g \ {d}, \A x \in DOMAIN f \ {d} : f[x] = g[x]
    PROVE  /\ SumOf(f) \in Nat /\ SumOf(g) \in Nat
           /\ Part(f, d) \in 0..MaxSize /\ Part(g, d) \in 0..MaxSize
           /\ SumOf(g) = SumOf(f) + Part(g, d) - Part(f, d)
<1>1. Rest(f, d) = Rest(g, d)
  BY Zenon DEF Rest
<1>2. /\ SumOf(f) \in Nat /\ SumOf(Rest(f, d)) \in Nat /\ Part(f, d) \in 0..MaxSize
      /\ SumOf(f) = SumOf(Rest(f, d)) + Part(f, d)
  BY SumParts
<1>3. /\ SumOf(g) \in Nat /\ Part(g, d) \in 0..MaxSize
      /\ SumOf(g) = SumOf(Rest(f, d)) + Part(g, d)
  BY <1>1, SumParts
<1> QED
  BY <1>2, <1>3 DEF MaxSize

(* Numbers modulo U64. *)

Congruent(a, b) == \E z \in Int : a = b + z * U64

LEMMA Wraps ==
    ASSUME NEW x \in Int
    PROVE  Congruent(x % U64, x) /\ x % U64 \in 0..(U64 - 1)
<1>0. U64 \in Nat \ {0}
  BY MemoryAssumption
<1>1. x = U64 * (x \div U64) + (x % U64) /\ x \div U64 \in Int /\ x % U64 \in 0..(U64 - 1)
  BY <1>0
<1>2. x % U64 = x + (-(x \div U64)) * U64 /\ -(x \div U64) \in Int
  BY <1>0, <1>1
<1> QED
  BY <1>1, <1>2 DEF Congruent

LEMMA CongruentSmall ==
    ASSUME NEW a \in 0..(U64 - 1), NEW b \in 0..(U64 - 1), NEW z \in Int, a = b + z * U64
    PROVE  a = b
<1>0. U64 \in Nat \ {0}
  BY MemoryAssumption
<1>1. CASE z = 0
  BY <1>0, <1>1
<1>2. CASE z >= 1
  <2>1. z * U64 >= U64
    BY <1>0, <1>2
  <2> QED
    BY <1>0, <2>1
<1>3. CASE z <= -1
  <2>1. z * U64 <= -U64
    BY <1>0, <1>3
  <2> QED
    BY <1>0, <2>1
<1> QED
  BY <1>1, <1>2, <1>3

LEMMA CongruentMod ==
    ASSUME NEW x \in Int, NEW y \in Int, Congruent(x, y)
    PROVE  x % U64 = y % U64
<1>0. U64 \in Nat \ {0}
  BY MemoryAssumption
<1>1. PICK z \in Int : x = y + z * U64
  BY DEF Congruent
<1>2. PICK p \in Int : x % U64 = x + p * U64
  BY Wraps DEF Congruent
<1>3. PICK q \in Int : y % U64 = y + q * U64
  BY Wraps DEF Congruent
<1>4. x % U64 = (y % U64) + (z + p - q) * U64 /\ z + p - q \in Int
  BY <1>0, <1>1, <1>2, <1>3
<1>5. x % U64 \in 0..(U64 - 1) /\ y % U64 \in 0..(U64 - 1)
  BY Wraps
<1> QED
  BY <1>4, <1>5, CongruentSmall

----------------------------------------------------------------------------
(* What one step of a handler does to the map, to MEMORY_USED and to its debts. *)

\* Places where a thread owes MEMORY_USED nothing, FLUSHDB's own places left out.
Flushes == {"sum", "clear", "cas"}
Quiet == Pcs \ ({"subtract", "add", "evicted", "lazied", "deleted"} \cup Flushes)

\* What the step from here does to MEMORY_USED.
Delta(r) == CASE r.pc \in {"subtract", "evicted", "lazied", "deleted"} -> -r.old
              [] r.pc = "add" -> Size(Head(r.args)[2])
              [] OTHER -> 0

LEMMA QuietOwes ==
    ASSUME NEW r, r.pc \in Quiet
    PROVE  ToAdd(r) = 0 /\ ToSubtract(r) = 0 /\ Delta(r) = 0
BY DEF Quiet, ToAdd, ToSubtract, Delta

LEMMA TotalSame ==
    ASSUME DOMAIN db' = DOMAIN db, \A k \in DOMAIN db : db'[k].val = db[k].val
    PROVE  Total' = Total
<1>1. Sizes' = Sizes
  BY DEF Sizes
<1> QED
  BY <1>1 DEF Total

LEMMA SizesSized ==
    ASSUME IsFiniteSet(DOMAIN db)
    PROVE  Sized(Sizes) /\ \A k : Part(Sizes, k) = IF k \in DOMAIN db THEN Size(db[k].val) ELSE 0
BY SizeTyped DEF Sized, Sizes, Part

LEMMA TotalRemoved ==
    ASSUME IsFiniteSet(DOMAIN db), NEW k \in DOMAIN db, Remove(k)
    PROVE  /\ IsFiniteSet(DOMAIN db') /\ Total \in Nat /\ Total' \in Nat
           /\ Total' = Total - Size(db[k].val)
<1>1. DOMAIN db' = DOMAIN db \ {k} /\ \A j \in DOMAIN db' : db'[j] = db[j]
  BY DEF Remove
<1>2. IsFiniteSet(DOMAIN db')
  BY <1>1, FS_RemoveElement
<1>3. Sized(Sizes) /\ Part(Sizes, k) = Size(db[k].val)
  BY SizesSized
<1>4. Sized(Sizes') /\ Part(Sizes', k) = 0
  BY <1>1, <1>2, SizeTyped DEF Sized, Sizes, Part
<1>5. DOMAIN Sizes \ {k} = DOMAIN Sizes' \ {k} /\ \A x \in DOMAIN Sizes \ {k} : Sizes[x] = Sizes'[x]
  BY <1>1, Zenon DEF Sizes
<1>6. /\ SumOf(Sizes) \in Nat /\ SumOf(Sizes') \in Nat
      /\ SumOf(Sizes') = SumOf(Sizes) + 0 - Size(db[k].val)
  BY <1>3, <1>4, <1>5, SumChanges, SMTT(30)
<1> QED
  BY <1>2, <1>6, SizeTyped DEF Total

LEMMA TotalPut ==
    ASSUME IsFiniteSet(DOMAIN db), NEW k, NEW e, Put(k, e)
    PROVE  /\ IsFiniteSet(DOMAIN db') /\ Total \in Nat /\ Total' \in Nat
           /\ Total' = Total + Size(e.val) - IF k \in DOMAIN db THEN Size(db[k].val) ELSE 0
<1>1. /\ DOMAIN db' = DOMAIN db \cup {k} /\ db'[k] = e
      /\ \A j \in DOMAIN db \ {k} : db'[j] = db[j]
  BY DEF Put
<1>2. IsFiniteSet(DOMAIN db')
  BY <1>1, FS_AddElement
<1>3. Sized(Sizes) /\ Part(Sizes, k) = IF k \in DOMAIN db THEN Size(db[k].val) ELSE 0
  BY SizesSized
<1>4. Sized(Sizes') /\ Part(Sizes', k) = Size(e.val)
  BY <1>1, <1>2, SizeTyped DEF Sized, Sizes, Part
<1>5. DOMAIN Sizes \ {k} = DOMAIN Sizes' \ {k} /\ \A x \in DOMAIN Sizes \ {k} : Sizes[x] = Sizes'[x]
  BY <1>1, Zenon DEF Sizes
<1>6. /\ SumOf(Sizes) \in Nat /\ SumOf(Sizes') \in Nat
      /\ SumOf(Sizes') = SumOf(Sizes) + Part(Sizes', k) - Part(Sizes, k)
  BY <1>3, <1>4, <1>5, SumChanges
<1> QED
  BY <1>2, <1>3, <1>4, <1>6 DEF Total

\* The thread's step is accounted for: the map's size changes by what MEMORY_USED changes by
\* and by what the thread comes to owe.
Balanced(c) ==
    /\ IsFiniteSet(DOMAIN db')
    /\ mem' = (mem + Delta(th[c])) % U64
    /\ Total' = Total + Delta(th[c]) + (ToAdd(th'[c]) - ToAdd(th[c]))
                  - (ToSubtract(th'[c]) - ToSubtract(th[c]))
    /\ Total \in Nat
    /\ th'[c].pc \notin Flushes
    /\ \A d \in Threads \ {c} : th'[d] = th[d]

LEMMA BecomeFacts ==
    ASSUME Inv, NEW c \in Threads, NEW r, Become(c, r)
    PROVE  th'[c] = r /\ \A d \in Threads \ {c} : th'[d] = th[d]
BY DEF Inv, ThreadsGood, Become

LEMMA OldTyped == ASSUME NEW r, Good(r) PROVE r.old \in Nat
BY DEF Good, MaxSize

LEMMA Cancels == \A n, o, a \in Nat : n = n + (-o) + (a - a) - (0 - o)
OBVIOUS

\* Nothing is stored or removed, nothing is owed before or after.
LEMMA QuietStep ==
    ASSUME Inv, IsFiniteSet(DOMAIN db), NEW c \in Threads, th[c].pc \in Quiet,
           NEW r, r.pc \in Quiet, Become(c, r), UNCHANGED mem,
           DOMAIN db' = DOMAIN db, \A k \in DOMAIN db : db'[k].val = db[k].val
    PROVE  Balanced(c)
<1>1. /\ ToAdd(th[c]) = 0 /\ ToSubtract(th[c]) = 0 /\ Delta(th[c]) = 0
      /\ ToAdd(th'[c]) = 0 /\ ToSubtract(th'[c]) = 0
  BY BecomeFacts, QuietOwes
<1>2. Total' = Total
  BY TotalSame
<1>3. Total \in Nat
  BY SizesSized, UnitsFinite DEF Total, Sized
<1>4. mem' = (mem + 0) % U64
  BY MemoryAssumption, SMTT(30) DEF Inv
<1> QED
  BY <1>1, <1>2, <1>3, <1>4, BecomeFacts DEF Balanced, Quiet

\* An entry is taken out; its size is owed.
LEMMA TakeStep ==
    ASSUME Inv, IsFiniteSet(DOMAIN db), NEW c \in Threads, th[c].pc \in Quiet,
           NEW k \in DOMAIN db, Remove(k),
           NEW r, r.pc \in {"evicted", "lazied", "deleted"}, r.old = Size(db[k].val),
           Become(c, r), UNCHANGED mem
    PROVE  Balanced(c)
<1>1. ToAdd(th[c]) = 0 /\ ToSubtract(th[c]) = 0 /\ Delta(th[c]) = 0
  BY QuietOwes
<1>2. ToAdd(th'[c]) = 0 /\ ToSubtract(th'[c]) = Size(db[k].val)
  BY BecomeFacts DEF ToAdd, ToSubtract
<1>3. /\ IsFiniteSet(DOMAIN db') /\ Total \in Nat /\ Total' \in Nat
      /\ Total' = Total - Size(db[k].val)
  BY TotalRemoved
<1>4. mem' = (mem + 0) % U64
  BY MemoryAssumption DEF Inv
<1>5. Size(db[k].val) \in Nat
  BY SizeTyped
<1>6. Total' = Total + 0 + (0 - 0) - (Size(db[k].val) - 0)
  BY <1>3, <1>5
<1> QED
  BY <1>1, <1>2, <1>3, <1>4, <1>6, BecomeFacts, SMTT(30) DEF Balanced, Flushes

\* A debt is paid.
LEMMA PayStep ==
    ASSUME Inv, IsFiniteSet(DOMAIN db), NEW c \in Threads,
           th[c].pc \in {"evicted", "lazied", "deleted"}, Plus(-th[c].old),
           NEW r, r.pc \in Quiet, Become(c, r), UNCHANGED db
    PROVE  Balanced(c)
<1>1. /\ ToAdd(th[c]) = 0 /\ ToSubtract(th[c]) = th[c].old /\ Delta(th[c]) = -th[c].old
  BY DEF ToAdd, ToSubtract, Delta
<1>2. ToAdd(th'[c]) = 0 /\ ToSubtract(th'[c]) = 0
  BY BecomeFacts, QuietOwes
<1>3. Total' = Total
  BY TotalSame
<1>4. Total \in Nat
  BY SizesSized, UnitsFinite DEF Total, Sized
<1>5. th[c].old \in Nat /\ 0 \in Nat
  BY OldTyped DEF Inv, ThreadsGood
<1>6. Total' = Total + (-th[c].old) + (0 - 0) - (0 - th[c].old)
  BY <1>3, <1>4, <1>5, Cancels, Zenon
<1> QED
  BY <1>1, <1>2, <1>4, <1>6, BecomeFacts DEF Balanced, Plus, Quiet

\* A handler that goes on after one of these owes nothing.
LEMMA AnsweredQuiet ==
    ASSUME NEW st, NEW num
    PROVE  Answered(st, num).pc = "loop" /\ Answered(st, num).pc \in Quiet
BY DEF Answered, Idle, Quiet, Pcs, Flushes

LEMMA MovedPc ==
    ASSUME NEW r, Good(r), NEW p
    PROVE  [r EXCEPT !.pc = p].pc = p
BY Zenon DEF Good, Fields

LEMMA AdmittedQuiet ==
    ASSUME NEW r, Good(r)
    PROVE  Admitted(r).pc \in Quiet
<1> DEFINE p == IF r.cmd.cond # "" THEN "check" ELSE "insert"
           s == [r EXCEPT !.pc = p, !.need = 0, !.freed = 0, !.tries = 0]
<1>1. s.pc = p
  BY Zenon DEF Good, Fields
<1>2. p \in Quiet
  BY DEF Quiet, Pcs, Flushes
<1> HIDE DEF p
<1>3. Admitted(r) = s \/ Admitted(r) = Answered("error", 0)
  BY DEF Admitted, p
<1> HIDE DEF s
<1> QED
  BY <1>1, <1>2, <1>3, AnsweredQuiet, Zenon

LEMMA IncrementedQuiet ==
    ASSUME NEW r, Good(r), NEW v, NEW e, NEW z
    PROVE  Incremented(r, v, e, z).pc \in Quiet
<1> DEFINE new == v + r.cmd.delta
           net == Size(new) - z
           a == <<<<Head(r.args)[1], new>>>>
           s == [r EXCEPT !.args = a, !.exp = e, !.old = 0]
           s1 == [s EXCEPT !.pc = "evict", !.need = net]
           s2 == [s EXCEPT !.pc = "insert"]
<1>1. s1.pc = "evict" /\ s2.pc = "insert"
  BY Zenon DEF Good, Fields
<1>2. Incremented(r, v, e, z) \in {Answered("overflow", 0), s1, s2}
  BY Zenon DEF Incremented
<1> HIDE DEF s1, s2
<1>3. "evict" \in Quiet /\ "insert" \in Quiet
  BY DEF Quiet, Pcs, Flushes
<1> QED
  BY <1>1, <1>2, <1>3, AnsweredQuiet, Zenon

LEMMA WithoutKeyQuiet ==
    ASSUME NEW r, Good(r)
    PROVE  WithoutKey(r).pc \in Quiet
<1> DEFINE s == [r EXCEPT !.pc = "sample", !.args = <<>>, !.old = 0]
<1>1. s.pc = "sample"
  BY Zenon DEF Good, Fields
<1>2. WithoutKey(r) \in {Incremented(r, 0, Never, 0), s, Answered("nil", 0)}
  BY Zenon DEF WithoutKey
<1> HIDE DEF s
<1>3. "sample" \in Quiet
  BY DEF Quiet, Pcs, Flushes
<1> QED
  BY <1>1, <1>2, <1>3, AnsweredQuiet, IncrementedQuiet, Zenon

LEMMA NextDeleteQuiet ==
    ASSUME NEW r, Good(r)
    PROVE  NextDelete(r).pc \in Quiet
<1> DEFINE t == Tail(r.args)
           s == [r EXCEPT !.pc = "delete", !.args = t, !.old = 0]
<1>1. s.pc = "delete"
  BY Zenon DEF Good, Fields
<1>2. NextDelete(r) = s \/ NextDelete(r) = Answered("ok", r.n)
  BY Zenon DEF NextDelete
<1> HIDE DEF s
<1>3. "delete" \in Quiet
  BY DEF Quiet, Pcs, Flushes
<1> QED
  BY <1>1, <1>2, <1>3, AnsweredQuiet, Zenon

LEMMA EvictionBalanced ==
    ASSUME Inv, IsFiniteSet(DOMAIN db), NEW c \in Threads,
           \/ EvictIfNeeded(c) \/ EvictSample(c) \/ EvictRemove(c) \/ EvictAccount(c) \/ EvictRecheck(c)
    PROVE  Balanced(c)
<1> DEFINE t == th[c]
<1>k. Good(t)
  BY DEF Inv, ThreadsGood
<1>q. /\ t.pc \in {"evict", "sampling", "victim", "recheck"} => t.pc \in Quiet
      /\ \A p \in {"sampling", "victim", "recheck"} : p \in Quiet
  BY DEF Quiet, Pcs, Flushes
<1>1. CASE EvictIfNeeded(c)
  <2> DEFINE s == [t EXCEPT !.pc = "sampling"]
             r == IF Fits(t.need) THEN Admitted(t) ELSE IF ~Evicting THEN Answered("oom", 0) ELSE s
  <2>1. s.pc \in Quiet
    BY <1>k, <1>q, MovedPc, Zenon
  <2> HIDE DEF s
  <2>2. r.pc \in Quiet
    BY <1>k, <2>1, AdmittedQuiet, AnsweredQuiet, Zenon
  <2>3. Become(c, r) /\ UNCHANGED <<db, mem>> /\ t.pc = "evict"
    BY <1>1 DEF EvictIfNeeded, s, At
  <2> HIDE DEF r
  <2> QED
    BY <1>q, <2>2, <2>3, QuietStep
<1>2. CASE EvictSample(c)
  <2>1. PICK S : Become(c, [t EXCEPT !.pc = IF S = {} THEN "recheck" ELSE "victim", !.tries = @ + 1, !.keys = S])
    BY <1>2, Zenon DEF EvictSample
  <2> DEFINE p == IF S = {} THEN "recheck" ELSE "victim"
             r == [t EXCEPT !.pc = p, !.tries = @ + 1, !.keys = S]
  <2>2. p \in Quiet
    BY <1>q, Zenon
  <2>3. Become(c, r) /\ UNCHANGED <<db, mem>> /\ t.pc = "sampling"
    BY <1>2, <2>1, Zenon DEF EvictSample, At
  <2> HIDE DEF p
  <2>4. r.pc = p
    BY <1>k, Zenon DEF Good, Fields
  <2> HIDE DEF r
  <2> QED
    BY <1>q, <2>2, <2>3, <2>4, QuietStep
<1>3. CASE EvictRemove(c)
  <2>1. PICK k \in t.keys :
          IF k \in DOMAIN db
          THEN /\ Remove(k)
               /\ Become(c, [t EXCEPT !.pc = "evicted", !.old = Size(db[k].val), !.keys = {}])
          ELSE /\ Become(c, [t EXCEPT !.pc = "recheck", !.keys = {}])
               /\ UNCHANGED db
    BY <1>3, Zenon DEF EvictRemove
  <2> DEFINE z == Size(db[k].val)
             r1 == [t EXCEPT !.pc = "evicted", !.old = z, !.keys = {}]
             r2 == [t EXCEPT !.pc = "recheck", !.keys = {}]
  <2>2. UNCHANGED mem /\ t.pc = "victim"
    BY <1>3, Zenon DEF EvictRemove, At
  <2>3. \/ k \in DOMAIN db /\ Become(c, r1) /\ Remove(k)
        \/ Become(c, r2) /\ UNCHANGED db
    BY <2>1, Zenon
  <2> HIDE DEF z
  <2>4. r1.pc = "evicted" /\ r1.old = z /\ r2.pc = "recheck"
    BY <1>k, Zenon DEF Good, Fields
  <2> HIDE DEF r1, r2
  <2>5. CASE k \in DOMAIN db /\ Become(c, r1) /\ Remove(k)
    BY <1>q, <2>2, <2>4, <2>5, TakeStep, SMTT(30) DEF z
  <2>6. CASE Become(c, r2) /\ UNCHANGED db
    BY <1>q, <2>2, <2>4, <2>6, QuietStep
  <2> QED
    BY <2>3, <2>5, <2>6
<1>4. CASE EvictAccount(c)
  <2> DEFINE r == [t EXCEPT !.pc = "sampling", !.freed = @ + t.old, !.old = 0]
  <2>1. Become(c, r) /\ UNCHANGED db /\ Plus(-t.old) /\ t.pc = "evicted"
    BY <1>4 DEF EvictAccount, At
  <2>2. r.pc = "sampling"
    BY <1>k, Zenon DEF Good, Fields
  <2> HIDE DEF r
  <2> QED
    BY <1>q, <2>1, <2>2, PayStep
<1>5. CASE EvictRecheck(c)
  <2> DEFINE r == IF Fits(t.need) THEN Admitted(t) ELSE Answered("oom", 0)
  <2>1. r.pc \in Quiet
    BY <1>k, AdmittedQuiet, AnsweredQuiet, Zenon
  <2>2. Become(c, r) /\ UNCHANGED <<db, mem>> /\ t.pc \in {"recheck", "sampling"}
    BY <1>5 DEF EvictRecheck, At
  <2> HIDE DEF r
  <2> QED
    BY <1>q, <2>1, <2>2, QuietStep
<1> QED
  BY <1>1, <1>2, <1>3, <1>4, <1>5, SMTT(30)

LEMMA WriteBalanced ==
    ASSUME Inv, IsFiniteSet(DOMAIN db), NEW c \in Threads,
           CheckCondition(c) \/ MsetNet(c) \/ Insert(c) \/ SubtractOld(c) \/ AddNew(c)
    PROVE  Balanced(c)
<1> DEFINE t == th[c]
<1>k. Good(t) /\ t.old \in 0..MaxSize
  BY Zenon DEF Inv, ThreadsGood, Good
<1>q. \A p \in {"check", "net", "insert", "evict"} : p \in Quiet
  BY DEF Quiet, Pcs, Flushes
<1>1. CASE CheckCondition(c)
  <2> DEFINE s == [t EXCEPT !.pc = "insert"]
  <2>1. s.pc \in Quiet
    BY <1>k, <1>q, MovedPc, Zenon
  <2>2. Become(c, Answered("nil", 0)) \/ Become(c, s)
    BY <1>1 DEF CheckCondition, Answer
  <2>3. UNCHANGED <<db, mem>> /\ t.pc = "check"
    BY <1>1 DEF CheckCondition, At
  <2> HIDE DEF s
  <2> QED
    BY <1>q, <2>1, <2>2, <2>3, QuietStep, AnsweredQuiet
<1>2. CASE MsetNet(c)
  <2> DEFINE i == t.n + 1
             net == t.need + Size(t.args[i][2]) - (IF Live(t.args[i][1], t.now) THEN Size(db[t.args[i][1]].val) ELSE 0)
             r1 == [t EXCEPT !.n = i, !.need = net]
             r2 == [t EXCEPT !.pc = "evict", !.n = 0, !.need = net]
             r3 == [t EXCEPT !.pc = "insert", !.n = 0, !.need = 0]
             r == IF i < Len(t.args) THEN r1 ELSE IF net > 0 THEN r2 ELSE r3
  <2>1. Become(c, r) /\ UNCHANGED <<db, mem>> /\ t.pc = "net"
    BY <1>2, Zenon DEF MsetNet, At
  <2> HIDE DEF i, net
  <2>2. r1.pc = t.pc /\ r2.pc = "evict" /\ r3.pc = "insert"
    BY <1>k, Zenon DEF Good, Fields
  <2> HIDE DEF r1, r2, r3
  <2>3. r.pc \in Quiet /\ t.pc \in Quiet
    BY <1>q, <2>1, <2>2, Zenon
  <2> HIDE DEF r
  <2> QED
    BY <2>1, <2>3, QuietStep
<1>3. CASE Insert(c)
  <2> DEFINE k == Key(c)
             z == Size(db[k].val)
             e == [val |-> Val(c), exp |-> t.exp]
             r1 == [t EXCEPT !.pc = "subtract", !.old = z]
             r2 == [t EXCEPT !.pc = "add"]
             r == IF k \in DOMAIN db THEN r1 ELSE r2
             owed == IF k \in DOMAIN db THEN z ELSE 0
  <2>1. Become(c, r) /\ Put(k, e) /\ UNCHANGED mem /\ t.pc = "insert"
    BY <1>3, Zenon DEF Insert, At
  <2>2. /\ IsFiniteSet(DOMAIN db') /\ Total \in Nat /\ Total' \in Nat
        /\ Total' = Total + Size(e.val) - owed
    BY <2>1, TotalPut, SMTT(30)
  <2>3. e.val = Head(t.args)[2] /\ Size(e.val) \in Nat /\ owed \in Nat
    BY SizeTyped DEF Val
  <2> HIDE DEF z, k, e
  <2>4. /\ r1.pc = "subtract" /\ r1.old = z /\ r1.args = t.args
        /\ r2.pc = "add" /\ r2.args = t.args
    BY <1>k, Zenon DEF Good, Fields
  <2> HIDE DEF r1, r2
  <2>5. ToAdd(r) = Size(e.val) /\ ToSubtract(r) = owed /\ r.pc \notin Flushes
    BY <2>3, <2>4 DEF ToAdd, ToSubtract, Flushes
  <2>6. ToAdd(t) = 0 /\ ToSubtract(t) = 0 /\ Delta(t) = 0
    BY <1>q, <2>1, QuietOwes, SMTT(30)
  <2> HIDE DEF r, owed
  <2>7. th'[c] = r /\ \A d \in Threads \ {c} : th'[d] = th[d]
    BY <2>1, BecomeFacts
  <2>8. mem' = (mem + 0) % U64
    BY <2>1, MemoryAssumption DEF Inv
  <2>9. Total' = Total + 0 + (Size(e.val) - 0) - (owed - 0)
    BY <2>2, <2>3, SMTT(30)
  <2> QED
    BY <2>2, <2>5, <2>6, <2>7, <2>8, <2>9 DEF Balanced
<1>4. CASE SubtractOld(c)
  <2> DEFINE r == [t EXCEPT !.pc = "add", !.old = 0]
             a == Size(Head(t.args)[2])
  <2>1. Become(c, r) /\ UNCHANGED db /\ Plus(-t.old) /\ t.pc = "subtract"
    BY <1>4 DEF SubtractOld, At
  <2>2. r.pc = "add" /\ r.args = t.args
    BY <1>k, Zenon DEF Good, Fields
  <2> HIDE DEF r
  <2>3. ToAdd(r) = a /\ ToSubtract(r) = 0 /\ ToAdd(t) = a /\ ToSubtract(t) = t.old /\ Delta(t) = -t.old
    BY <2>1, <2>2, SMTT(30) DEF ToAdd, ToSubtract, Delta
  <2>4. Total' = Total /\ Total \in Nat /\ IsFiniteSet(DOMAIN db')
    BY <2>1, TotalSame, SizesSized, UnitsFinite, Zenon DEF Total, Sized
  <2>5. a \in Nat /\ t.old \in Nat
    BY <1>k, SizeTyped, OldTyped, ZenonT(60)
  <2>6. th'[c] = r /\ \A d \in Threads \ {c} : th'[d] = th[d]
    BY <2>1, BecomeFacts
  <2> HIDE DEF a
  <2>7. Total' = Total + (-t.old) + (a - a) - (0 - t.old)
    BY <2>4, <2>5, Cancels, ZenonT(60)
  <2> QED
    BY <2>1, <2>2, <2>3, <2>4, <2>6, <2>7, SMTT(30) DEF Balanced, Plus, Flushes
<1>5. CASE AddNew(c)
  <2> DEFINE s == [t EXCEPT !.pc = "insert", !.args = Tail(@)]
             r == IF Len(t.args) > 1 THEN s ELSE Answered("ok", Val(c))
             a == Size(Head(t.args)[2])
  <2>1. Become(c, r) /\ UNCHANGED db /\ Plus(a) /\ t.pc = "add"
    BY <1>5 DEF AddNew, Answer, At, Val
  <2>2. s.pc \in Quiet
    BY <1>k, <1>q, Zenon DEF Good, Fields
  <2> HIDE DEF s
  <2>3. r.pc \in Quiet
    BY <2>2, AnsweredQuiet, Zenon
  <2> HIDE DEF r
  <2>4. ToAdd(r) = 0 /\ ToSubtract(r) = 0
    BY <2>3, QuietOwes
  <2>5. ToAdd(t) = a /\ ToSubtract(t) = 0 /\ Delta(t) = a
    BY <2>1, SMTT(30) DEF ToAdd, ToSubtract, Delta
  <2>6. Total' = Total /\ Total \in Nat /\ IsFiniteSet(DOMAIN db')
    BY <2>1, TotalSame, SizesSized, UnitsFinite DEF Total, Sized
  <2>7. a \in Nat
    BY SizeTyped
  <2>8. th'[c] = r /\ \A d \in Threads \ {c} : th'[d] = th[d]
    BY <2>1, BecomeFacts
  <2> HIDE DEF a
  <2>9. Total' = Total + a + (0 - a) - (0 - 0)
    BY <2>6, <2>7
  <2> QED
    BY <2>1, <2>3, <2>4, <2>5, <2>6, <2>8, <2>9 DEF Balanced, Plus, Quiet
<1> QED
  BY <1>1, <1>2, <1>3, <1>4, <1>5

LEMMA ReadBalanced ==
    ASSUME Inv, IsFiniteSet(DOMAIN db), NEW c \in Threads,
           GetKey(c) \/ ReadCounter(c) \/ LazyRemove(c) \/ LazyAccount(c)
    PROVE  Balanced(c)
<1> DEFINE t == th[c]
           lazy == [t EXCEPT !.pc = "lazy"]
<1>k. Good(t)
  BY Zenon DEF Inv, ThreadsGood
<1>q. \A p \in {"get", "read", "lazy"} : p \in Quiet
  BY DEF Quiet, Pcs, Flushes
<1>l. lazy.pc \in Quiet
  BY <1>k, <1>q, MovedPc, Zenon
<1> HIDE DEF lazy
<1>w. WithoutKey(t).pc \in Quiet
  BY <1>k, WithoutKeyQuiet, SMTT(30)
<1>1. CASE GetKey(c) \/ ReadCounter(c)
  <2> DEFINE inc == Incremented(t, db[Key(c)].val, db[Key(c)].exp, Size(db[Key(c)].val))
  <2>1. PICK r \in {WithoutKey(t), lazy, Answered("ok", db[Key(c)].val), Answered("error", 0), inc} : Become(c, r)
    BY <1>1, Zenon DEF GetKey, ReadCounter, lazy
  <2>2. UNCHANGED <<db, mem>> /\ t.pc \in {"get", "read"}
    BY <1>1 DEF GetKey, ReadCounter, At
  <2>3. r.pc \in Quiet
    BY <1>k, <1>l, <1>w, <2>1, AnsweredQuiet, IncrementedQuiet, Zenon
  <2> QED
    BY <1>q, <2>1, <2>2, <2>3, QuietStep
<1>2. CASE LazyRemove(c)
  <2> DEFINE k == Key(c)
             z == Size(db[k].val)
             r == [t EXCEPT !.pc = "lazied", !.old = z]
  <2>1. \/ k \in DOMAIN db /\ Remove(k) /\ Become(c, r)
        \/ UNCHANGED db /\ Become(c, WithoutKey(t))
    BY <1>2, Zenon DEF LazyRemove
  <2>2. UNCHANGED mem /\ t.pc = "lazy"
    BY <1>2, Zenon DEF LazyRemove, At
  <2> HIDE DEF z, k
  <2>3. r.pc = "lazied" /\ r.old = z
    BY <1>k, Zenon DEF Good, Fields
  <2> HIDE DEF r
  <2>4. CASE k \in DOMAIN db /\ Remove(k) /\ Become(c, r)
    BY <1>q, <2>2, <2>3, <2>4, TakeStep, SMTT(30) DEF z
  <2>5. CASE UNCHANGED db /\ Become(c, WithoutKey(t))
    BY <1>q, <1>w, <2>2, <2>5, QuietStep, SMTT(30)
  <2> QED
    BY <2>1, <2>4, <2>5
<1>3. CASE LazyAccount(c)
  <2>1. Become(c, WithoutKey(t)) /\ UNCHANGED db /\ Plus(-t.old) /\ t.pc = "lazied"
    BY <1>3 DEF LazyAccount, At
  <2> QED
    BY <1>w, <2>1, PayStep, SMTT(30)
<1> QED
  BY <1>1, <1>2, <1>3

LEMMA DeleteBalanced ==
    ASSUME Inv, IsFiniteSet(DOMAIN db), NEW c \in Threads, DeleteKey(c) \/ DeleteAccount(c)
    PROVE  Balanced(c)
<1> DEFINE t == th[c]
<1>k. Good(t)
  BY Zenon DEF Inv, ThreadsGood
<1>q. "delete" \in Quiet
  BY DEF Quiet, Pcs, Flushes
<1>n. NextDelete(t).pc \in Quiet
  BY <1>k, NextDeleteQuiet
<1>1. CASE DeleteKey(c)
  <2> DEFINE k == Key(c)
             z == Size(db[k].val)
             i == t.n + IF Expired(db[k], t.now) THEN 0 ELSE 1
             r == [t EXCEPT !.pc = "deleted", !.old = z, !.n = i]
  <2>1. \/ k \in DOMAIN db /\ Remove(k) /\ Become(c, r)
        \/ UNCHANGED db /\ Become(c, NextDelete(t))
    BY <1>1, Zenon DEF DeleteKey
  <2>2. UNCHANGED mem /\ t.pc = "delete"
    BY <1>1, Zenon DEF DeleteKey, At
  <2> HIDE DEF z, k, i
  <2>3. r.pc = "deleted" /\ r.old = z
    BY <1>k, Zenon DEF Good, Fields
  <2> HIDE DEF r
  <2>4. CASE k \in DOMAIN db /\ Remove(k) /\ Become(c, r)
    BY <1>q, <2>2, <2>3, <2>4, TakeStep, SMTT(30) DEF z
  <2>5. CASE UNCHANGED db /\ Become(c, NextDelete(t))
    BY <1>q, <1>n, <2>2, <2>5, QuietStep, SMTT(30)
  <2> QED
    BY <2>1, <2>4, <2>5
<1>2. CASE DeleteAccount(c)
  <2>1. Become(c, NextDelete(t)) /\ UNCHANGED db /\ Plus(-t.old) /\ t.pc = "deleted"
    BY <1>2, SMTT(30) DEF DeleteAccount, At
  <2> QED
    BY <1>n, <2>1, PayStep
<1> QED
  BY <1>1, <1>2

LEMMA ExpiryBalanced ==
    ASSUME Inv, IsFiniteSet(DOMAIN db), NEW c \in Threads, ExpireKey(c) \/ PersistKey(c)
    PROVE  Balanced(c)
<1> DEFINE t == th[c]
           lazy == [t EXCEPT !.pc = "lazy"]
<1>k. Good(t)
  BY Zenon DEF Inv, ThreadsGood
<1>q. \A p \in {"expire", "persist", "lazy"} : p \in Quiet
  BY DEF Quiet, Pcs, Flushes
<1>l. lazy.pc \in Quiet
  BY <1>k, <1>q, MovedPc, Zenon
<1> HIDE DEF lazy
<1>1. PICK r \in {lazy, Answered("ok", 1), Answered("nil", 0)} : Become(c, r)
  BY Zenon DEF ExpireKey, PersistKey, Answer, lazy
<1>2. UNCHANGED mem /\ t.pc \in {"expire", "persist"}
  BY DEF ExpireKey, PersistKey, At
<1>3. \/ UNCHANGED db
      \/ \E e : Key(c) \in DOMAIN db /\ db' = [db EXCEPT ![Key(c)].exp = e]
  BY Zenon DEF ExpireKey, PersistKey, Live
<1>4. DOMAIN db' = DOMAIN db /\ \A k \in DOMAIN db : db'[k].val = db[k].val
  <2>1. CASE UNCHANGED db
    BY <2>1, Zenon
  <2>2. ASSUME NEW e, NEW j \in DOMAIN db, db' = [db EXCEPT ![j].exp = e]
        PROVE  DOMAIN db' = DOMAIN db /\ \A k \in DOMAIN db : db'[k].val = db[k].val
    <3>1. db[j] \in Entries
      BY EntryTyped DEF Inv
    <3>2. [db[j] EXCEPT !.exp = e].val = db[j].val
      BY <3>1 DEF Entries
    <3> QED
      BY <2>2, <3>2
  <2> QED
    BY <1>3, <2>1, <2>2, Zenon
<1>5. r.pc \in Quiet
  BY <1>l, <1>1, AnsweredQuiet, ZenonT(60)
<1> QED
  BY <1>q, <1>1, <1>2, <1>4, <1>5, QuietStep, SMTT(30)

\* The connection loop and the expiration task's own steps.
LEMMA LoopBalanced ==
    ASSUME Inv, IsFiniteSet(DOMAIN db), NEW c \in Threads,
           \/ c \in Conns /\ (CaptureNow(c) \/ \E m \in Commands : Receive(c, m) /\ m.name # "FLUSH")
           \/ c = Expirer /\ (ExpirerTick \/ (\E k \in Keys : ExpirerSample(k)) \/ ExpirerRoundEnds)
    PROVE  Balanced(c)
<1> DEFINE t == th[c]
<1>k. Good(t) /\ Good(Idle) /\ Idle.pc = "loop"
  BY IdleGood DEF Inv, ThreadsGood, Idle
<1>q. \A p \in {"loop", "wait", "sample", "lazy"} : p \in Quiet
  BY SMTT(30) DEF Quiet, Pcs, Flushes
<1>1. UNCHANGED <<db, mem>> /\ t.pc \in {"loop", "wait", "sample"}
  BY Zenon DEF CaptureNow, Receive, ExpirerTick, ExpirerSample, ExpirerRoundEnds, At
<1>2. \E r : Become(c, r) /\ r.pc \in Quiet
  <2>1. CASE c \in Conns /\ CaptureNow(c)
    <3> DEFINE r == [t EXCEPT !.pc = "wait", !.now = clock, !.reply = NoReply]
    <3>1. Become(c, r)
      BY <2>1 DEF CaptureNow
    <3>2. r.pc = "wait"
      BY <1>k, Zenon DEF Good, Fields
    <3> QED
      BY <1>q, <3>1, <3>2, Zenon
  <2>2. ASSUME c \in Conns, NEW m \in Commands, Receive(c, m), m.name # "FLUSH"
        PROVE  \E r : Become(c, r) /\ r.pc \in Quiet
    <3> DEFINE now == IF m.name = "FLUSH" THEN clock ELSE t.now
               exp == IF m.name = "SET" /\ Seconds(m) > 0 THEN t.now + Seconds(m) ELSE Never
               need == IF m.name = "SET" THEN Size(m.args[1][2]) ELSE 0
               keys == IF m.name = "FLUSH" THEN Keys ELSE {}
               p == FirstStep(m)
               r == [t EXCEPT !.pc = p, !.cmd = m, !.args = m.args, !.now = now, !.exp = exp,
                              !.need = need, !.keys = keys]
    <3>1. Become(c, r)
      BY <2>2, Zenon DEF Receive
    <3>2. p \in Quiet
      <4>1. m \in CommandType
        BY CommandsAssumption
      <4>2. m.name \in {"SET", "MSET", "INCR", "GET", "DEL", "EXPIRE", "PERSIST", "FLUSH"}
        BY <4>1, Zenon DEF CommandType
      <4> QED
        BY <2>2, <4>2 DEF FirstStep, Quiet, Pcs, Flushes
    <3> HIDE DEF p, now, exp, need, keys
    <3>3. r.pc = p
      BY <1>k, Zenon DEF Good, Fields
    <3> QED
      BY <3>1, <3>2, <3>3, ZenonT(60)
  <2>3. CASE c = Expirer /\ ExpirerTick
    <3> DEFINE r == [Idle EXCEPT !.pc = "sample", !.now = clock]
    <3>1. Become(c, r)
      BY <2>3 DEF ExpirerTick
    <3>2. r.pc = "sample"
      BY <1>k, Zenon DEF Good, Fields
    <3> QED
      BY <1>q, <3>1, <3>2, Zenon
  <2>4. ASSUME c = Expirer, NEW k, ExpirerSample(k)
        PROVE  \E r : Become(c, r) /\ r.pc \in Quiet
    <3> DEFINE r == [t EXCEPT !.pc = "lazy", !.args = <<<<k, 0>>>>]
    <3>1. Become(c, r)
      BY <2>4, Zenon DEF ExpirerSample
    <3>2. r.pc = "lazy"
      BY <1>k, Zenon DEF Good, Fields
    <3> QED
      BY <1>q, <3>1, <3>2, ZenonT(60)
  <2>5. CASE c = Expirer /\ ExpirerRoundEnds
    BY <1>k, <1>q, <2>5 DEF ExpirerRoundEnds
  <2> QED
    BY <2>1, <2>2, <2>3, <2>4, <2>5, Zenon
<1> QED
  BY <1>q, <1>1, <1>2, QuietStep, SMTT(30)

----------------------------------------------------------------------------
(* No memory is lost or invented. *)

Flushing == \A c \in Threads : th[c].pc \in Flushes => flushed
Accounted == ~flushed => Congruent(mem + SumOf(Adding) - SumOf(Subtracting), Total)

\* The inductive invariant of the accounting.
MemoryInv == Inv /\ IsFiniteSet(DOMAIN db) /\ Flushing /\ Accounted

LEMMA DebtsTyped ==
    ASSUME NEW t, \A c \in Threads : t[c].old \in 0..MaxSize
    PROVE  Sized([c \in Threads |-> ToAdd(t[c])]) /\ Sized([c \in Threads |-> ToSubtract(t[c])])
<1>1. IsFiniteSet(Threads)
  BY ThreadsAssumption, FS_AddElement DEF Threads
<1>2. ASSUME NEW c \in Threads PROVE ToAdd(t[c]) \in 0..MaxSize /\ ToSubtract(t[c]) \in 0..MaxSize
  <2>1. 0 \in 0..MaxSize
    BY DEF MaxSize
  <2> QED
    BY <2>1, SizeTyped DEF ToAdd, ToSubtract
<1> QED
  BY <1>1, <1>2, Zenon DEF Sized

\* A thread's step changes what is owed by what that thread owes.
LEMMA DebtsMove ==
    ASSUME Inv, Inv', NEW c \in Threads, \A d \in Threads \ {c} : th'[d] = th[d]
    PROVE  /\ SumOf(Adding) \in Nat /\ SumOf(Subtracting) \in Nat
           /\ ToAdd(th[c]) \in 0..MaxSize /\ ToSubtract(th[c]) \in 0..MaxSize
           /\ ToAdd(th'[c]) \in 0..MaxSize /\ ToSubtract(th'[c]) \in 0..MaxSize
           /\ SumOf(Adding)' = SumOf(Adding) + ToAdd(th'[c]) - ToAdd(th[c])
           /\ SumOf(Subtracting)' = SumOf(Subtracting) + ToSubtract(th'[c]) - ToSubtract(th[c])
<1>0. \A d \in Threads : th[d].old \in 0..MaxSize /\ th'[d].old \in 0..MaxSize
  BY Zenon DEF Inv, ThreadsGood, Good
<1>1. /\ Sized(Adding) /\ Sized(Subtracting)
      /\ DOMAIN Adding = Threads /\ DOMAIN Subtracting = Threads
      /\ \A d \in Threads : Adding[d] = ToAdd(th[d]) /\ Subtracting[d] = ToSubtract(th[d])
  BY <1>0, DebtsTyped, Zenon DEF Adding, Subtracting
<1>2. /\ Sized(Adding') /\ Sized(Subtracting')
      /\ DOMAIN Adding' = Threads /\ DOMAIN Subtracting' = Threads
      /\ \A d \in Threads : Adding'[d] = ToAdd(th'[d]) /\ Subtracting'[d] = ToSubtract(th'[d])
  BY <1>0, DebtsTyped, Zenon DEF Adding, Subtracting, ToAdd, ToSubtract
<1>3. /\ Part(Adding, c) = ToAdd(th[c]) /\ Part(Subtracting, c) = ToSubtract(th[c])
      /\ Part(Adding', c) = ToAdd(th'[c]) /\ Part(Subtracting', c) = ToSubtract(th'[c])
  BY <1>1, <1>2, Zenon DEF Part
<1>4. /\ \A x \in DOMAIN Adding \ {c} : Adding[x] = Adding'[x]
      /\ \A x \in DOMAIN Subtracting \ {c} : Subtracting[x] = Subtracting'[x]
  BY <1>1, <1>2, Zenon
<1>5. /\ SumOf(Adding) \in Nat /\ Part(Adding, c) \in 0..MaxSize /\ Part(Adding', c) \in 0..MaxSize
      /\ SumOf(Adding') = SumOf(Adding) + Part(Adding', c) - Part(Adding, c)
  BY <1>1, <1>2, <1>4, SumChanges, SMTT(30)
<1>6. /\ SumOf(Subtracting) \in Nat /\ Part(Subtracting, c) \in 0..MaxSize
      /\ Part(Subtracting', c) \in 0..MaxSize
      /\ SumOf(Subtracting') = SumOf(Subtracting) + Part(Subtracting', c) - Part(Subtracting, c)
  BY <1>1, <1>2, <1>4, SumChanges
<1> QED
  BY <1>3, <1>5, <1>6

\* Only a command that arrives can raise flushed.
LEMMA WhoFlushes ==
    ASSUME [Next]_vars
    PROVE  flushed' = flushed \/ \E c \in Conns, m \in Commands : Receive(c, m)
<1>1. ASSUME NEW c, HandlerStep(c) PROVE flushed' = flushed
  BY <1>1, Zenon DEF HandlerStep,
    EvictIfNeeded, EvictSample, EvictRemove, EvictAccount, EvictRecheck, CheckCondition, MsetNet, Insert,
    SubtractOld, AddNew, GetKey, ReadCounter, LazyRemove, LazyAccount, DeleteKey, DeleteAccount,
    ExpireKey, PersistKey, FlushSum, FlushClear, FlushAccount
<1>2. CASE UNCHANGED vars
  BY <1>2 DEF vars
<1> QED
  BY <1>1, <1>2, Zenon DEF Next, CaptureNow, ExpirerTick, ExpirerSample, ExpirerRoundEnds, Tick

\* A step of thread c.
Acts(c) ==
    \/ c \in Conns /\ (CaptureNow(c) \/ \E m \in Commands : Receive(c, m))
    \/ HandlerStep(c)
    \/ c = Expirer /\ (ExpirerTick \/ (\E k \in Keys : ExpirerSample(k)) \/ ExpirerRoundEnds)

\* Until a FLUSHDB is sent every step is a thread's step that is accounted for.
LEMMA StepBalanced ==
    ASSUME Inv, IsFiniteSet(DOMAIN db), Flushing, [Next]_vars, ~flushed'
    PROVE  ~flushed /\ (UNCHANGED <<db, mem, th>> \/ \E c \in Threads : Acts(c) /\ Balanced(c))
<1>1. ~flushed
  <2>1. ASSUME NEW c, NEW m, Receive(c, m) PROVE ~flushed
    BY <2>1, Zenon DEF Receive
  <2> QED
    BY <2>1, WhoFlushes, Zenon
<1>2. ASSUME NEW c \in Threads, Acts(c) PROVE Balanced(c)
  <2>1. th[c].pc \notin Flushes
    BY <1>1, Zenon DEF Flushing
  <2>2. CASE HandlerStep(c)
    <3>1. ~FlushAccount(c) /\ \A k \in Keys : ~FlushSum(c, k) /\ ~FlushClear(c, k)
      BY <2>1, Zenon DEF FlushAccount, FlushSum, FlushClear, At, Flushes
    <3> QED
      BY <2>2, <3>1, EvictionBalanced, WriteBalanced, ReadBalanced, DeleteBalanced, ExpiryBalanced, Zenon
      DEF HandlerStep
  <2>3. ASSUME NEW m \in Commands, Receive(c, m) PROVE m.name # "FLUSH"
    BY <2>3, Zenon DEF Receive
  <2> QED
    BY <1>2, <2>2, <2>3, LoopBalanced, Zenon DEF Acts
<1>3. CASE Next
  <2>1. Expirer \in Threads /\ \A c \in Conns : c \in Threads
    BY DEF Threads
  <2>2. Tick \/ \E c \in Threads : Acts(c)
    BY <1>3, <2>1, Zenon DEF Next, Acts
  <2>3. CASE Tick
    BY <1>1, <2>3 DEF Tick
  <2> QED
    BY <1>1, <1>2, <2>2, <2>3, Zenon
<1>4. CASE UNCHANGED vars
  BY <1>1, <1>4 DEF vars
<1> QED
  BY <1>3, <1>4

\* At most one key comes into the map.
LEMMA FiniteStays ==
    ASSUME Inv, IsFiniteSet(DOMAIN db), [Next]_vars
    PROVE  IsFiniteSet(DOMAIN db')
<1>1. \E k : DOMAIN db' \subseteq DOMAIN db \cup {k}
  <2>1. CASE UNCHANGED db
    BY <2>1
  <2>2. ASSUME NEW k, NEW e, Put(k, e) PROVE DOMAIN db' \subseteq DOMAIN db \cup {k}
    BY <2>2 DEF Put
  <2>3. ASSUME NEW k, Remove(k) PROVE DOMAIN db' \subseteq DOMAIN db \cup {k}
    BY <2>3 DEF Remove
  <2>4. ASSUME NEW k, NEW e, db' = [db EXCEPT ![k].exp = e] PROVE DOMAIN db' \subseteq DOMAIN db \cup {k}
    BY <2>4
  <2>5. ASSUME NEW c, HandlerStep(c)
        PROVE  \/ UNCHANGED db
               \/ \E k, e : Put(k, e)
               \/ \E k : Remove(k)
               \/ \E k, e : db' = [db EXCEPT ![k].exp = e]
    BY <2>5, Zenon DEF HandlerStep, EvictIfNeeded, EvictSample, EvictRemove, EvictAccount, EvictRecheck,
      CheckCondition, MsetNet, Insert, SubtractOld, AddNew, GetKey, ReadCounter, LazyRemove, LazyAccount,
      DeleteKey, DeleteAccount, ExpireKey, PersistKey, FlushSum, FlushClear, FlushAccount
  <2>6. UNCHANGED db \/ \E c : HandlerStep(c)
    BY Zenon DEF Next, CaptureNow, Receive, ExpirerTick, ExpirerSample, ExpirerRoundEnds, Tick, vars
  <2> QED
    BY <2>1, <2>2, <2>3, <2>4, <2>5, <2>6, Zenon
<1>2. PICK k : DOMAIN db' \subseteq DOMAIN db \cup {k}
  BY <1>1
<1>3. IsFiniteSet(DOMAIN db \cup {k})
  BY FS_AddElement
<1> QED
  BY <1>2, <1>3, FS_Subset

LEMMA MemoryInit ==
    Init => MemoryInv
<1> SUFFICES ASSUME Init PROVE MemoryInv
  OBVIOUS
<1>1. Inv
  BY InitInv
<1>2. DOMAIN db = {} /\ mem = 0 /\ \A c \in Threads : th[c] = Idle
  BY DEF Init
<1>3. IsFiniteSet(DOMAIN db)
  BY <1>2, FS_EmptySet
<1>4. Idle.pc = "loop"
  BY DEF Idle
<1>5. Flushing
  BY <1>2, <1>4 DEF Flushing, Flushes
<1>6. \A c \in Threads : ToAdd(th[c]) = 0 /\ ToSubtract(th[c]) = 0
  BY <1>2, <1>4 DEF ToAdd, ToSubtract
<1>7. Units(Adding) = {} /\ Units(Subtracting) = {} /\ Units(Sizes) = {}
  BY <1>2, <1>6 DEF Units, Adding, Subtracting, Sizes
<1>8. SumOf(Adding) = 0 /\ SumOf(Subtracting) = 0 /\ Total = 0
  BY <1>7, FS_EmptySet, Zenon DEF SumOf, Total
<1>9. mem + SumOf(Adding) - SumOf(Subtracting) = Total + 0 * U64 /\ 0 \in Int
  BY <1>2, <1>8, MemoryAssumption
<1> QED
  BY <1>1, <1>3, <1>5, <1>9, Zenon DEF MemoryInv, Accounted, Congruent

LEMMA MemoryNext ==
    MemoryInv /\ [Next]_vars => MemoryInv'
<1> SUFFICES ASSUME MemoryInv, [Next]_vars PROVE MemoryInv'
  OBVIOUS
<1>1. Inv /\ Inv' /\ IsFiniteSet(DOMAIN db) /\ Flushing /\ Accounted
  BY NextInv DEF MemoryInv
<1>2. IsFiniteSet(DOMAIN db')
  BY <1>1, FiniteStays
<1>3. CASE flushed'
  BY <1>1, <1>2, <1>3, Zenon DEF MemoryInv, Flushing, Accounted
<1>4. ASSUME ~flushed', ~flushed, UNCHANGED <<db, mem, th>> PROVE MemoryInv'
  <2>1. Flushing'
    BY <1>1, <1>4, Zenon DEF Flushing
  <2>2. Adding' = Adding /\ Subtracting' = Subtracting /\ Total' = Total
    BY <1>4 DEF Adding, Subtracting, Total, Sizes
  <2>3. Accounted'
    BY <1>1, <1>4, <2>2, SMTT(30) DEF Accounted, Congruent
  <2> QED
    BY <1>1, <1>2, <2>1, <2>3 DEF MemoryInv
<1>5. ASSUME ~flushed', ~flushed, NEW c \in Threads, Balanced(c) PROVE MemoryInv'
  <2> DEFINE a == ToAdd(th[c])
             a2 == ToAdd(th'[c])
             s == ToSubtract(th[c])
             s2 == ToSubtract(th'[c])
             n == Delta(th[c])
  <2>1. /\ mem' = (mem + n) % U64
        /\ Total' = Total + n + (a2 - a) - (s2 - s)
        /\ Total \in Nat
        /\ th'[c].pc \notin Flushes
        /\ \A d \in Threads \ {c} : th'[d] = th[d]
    BY <1>5, Zenon DEF Balanced
  <2>2. /\ SumOf(Adding) \in Nat /\ SumOf(Subtracting) \in Nat
        /\ a \in 0..MaxSize /\ s \in 0..MaxSize /\ a2 \in 0..MaxSize /\ s2 \in 0..MaxSize
        /\ SumOf(Adding)' = SumOf(Adding) + a2 - a
        /\ SumOf(Subtracting)' = SumOf(Subtracting) + s2 - s
    BY <1>1, <2>1, DebtsMove
  <2>3. n \in Int /\ mem \in Int
    <3>1. th[c].old \in 0..MaxSize /\ mem \in 0..(U64 - 1)
      BY <1>1, Zenon DEF Inv, ThreadsGood, Good
    <3> QED
      BY <3>1, SizeTyped, MemoryAssumption DEF Delta, MaxSize
  <2> HIDE DEF a, a2, s, s2, n
  <2>4. Congruent(mem + SumOf(Adding) - SumOf(Subtracting), Total)
    BY <1>1, <1>5 DEF Accounted
  <2>5. /\ SumOf(Adding)' \in Int /\ SumOf(Subtracting)' \in Int /\ Total' \in Int
        /\ Total' = Total + n + (SumOf(Adding)' - SumOf(Adding)) - (SumOf(Subtracting)' - SumOf(Subtracting))
    BY <2>1, <2>2, <2>3 DEF MaxSize
  <2>6. Congruent(mem' + SumOf(Adding)' - SumOf(Subtracting)', Total')
    <3> DEFINE A == SumOf(Adding)
               A2 == SumOf(Adding)'
               S == SumOf(Subtracting)
               S2 == SumOf(Subtracting)'
               T2 == Total'
    <3>1. A \in Int /\ S \in Int /\ Total \in Int /\ A2 \in Int /\ S2 \in Int /\ T2 \in Int
      BY <2>1, <2>2, <2>5
    <3>2. Congruent(mem + A - S, Total) /\ T2 = Total + n + (A2 - A) - (S2 - S)
      BY <2>4, <2>5
    <3> HIDE DEF A, A2, S, S2, T2
    <3>3. PICK z \in Int : mem + A - S = Total + z * U64
      BY <3>2 DEF Congruent
    <3>4. mem + n \in Int /\ U64 \in Nat
      BY <2>3, MemoryAssumption
    <3>5. PICK q \in Int : mem' = mem + n + q * U64
      BY <2>1, <3>4, Wraps, Zenon DEF Congruent
    <3>6. mem' + A2 - S2 = T2 + (z + q) * U64 /\ z + q \in Int
      BY <2>3, <3>1, <3>2, <3>3, <3>4, <3>5
    <3> QED
      BY <3>6, Zenon DEF A2, S2, T2, Congruent
  <2>7. Accounted'
    BY <2>6 DEF Accounted, Congruent
  <2>8. Flushing'
    BY <1>1, <1>5, <2>1, Zenon DEF Flushing
  <2> QED
    BY <1>1, <1>2, <2>7, <2>8 DEF MemoryInv
<1> QED
  BY <1>1, <1>3, <1>4, <1>5, StepBalanced, Zenon

LEMMA MemoryInvHolds ==
    Spec => []MemoryInv
BY MemoryInit, MemoryNext, PTL DEF Spec

\* Whatever SET, MSET, INCR, DEL, expiry and eviction do at the same time, MEMORY_USED plus
\* what the handlers still owe is the size of the map, modulo 2^64: for any number of
\* connections, any keys and any commands, until a FLUSHDB is sent.
THEOREM NoMemoryLost ==
    Spec => []MemoryConserved
<1>1. MemoryInv => MemoryConserved
  <2> SUFFICES ASSUME MemoryInv, ~flushed
               PROVE  (mem + SumOf(Adding) - SumOf(Subtracting)) % U64 = Total % U64
    BY DEF MemoryConserved
  <2>1. Congruent(mem + SumOf(Adding) - SumOf(Subtracting), Total)
    BY DEF MemoryInv, Accounted
  <2>2. mem \in Int
    BY MemoryAssumption DEF MemoryInv, Inv
  <2>3. IsFiniteSet(Threads)
    BY ThreadsAssumption, FS_AddElement, SMTT(30) DEF Threads
  <2>4. SumOf(Adding) \in Nat /\ SumOf(Subtracting) \in Nat /\ Total \in Nat
    BY <2>3, UnitsFinite DEF MemoryInv, Adding, Subtracting, Total, Sizes
  <2>5. mem + SumOf(Adding) - SumOf(Subtracting) \in Int /\ Total \in Int
    BY <2>2, <2>4
  <2> QED
    BY <2>1, <2>5, CongruentMod
<1> QED
  BY <1>1, MemoryInvHolds, PTL

----------------------------------------------------------------------------
(* The memory limit, for clients that send no command that grows an entry in place. *)

\* SET writes one pair, the other commands store nothing; U64 leaves room for one entry of
\* every connection above the limit.
SetsOnly ==
    /\ Conns # {}
    /\ MaxMemory + Cardinality(Conns) * MaxSize < U64
    /\ \A m \in Commands :
         /\ m.name \in {"SET", "GET", "DEL", "EXPIRE", "PERSIST"}
         /\ m.name = "SET" => Len(m.args) = 1

Evicts == {"evict", "sampling", "victim", "evicted", "recheck"}
Claims == {"check", "insert", "subtract", "add"}

\* What a thread at work on such a command looks like.
Plain(c, r) ==
    /\ r.cmd.name \in {"SET", "GET", "DEL", "EXPIRE", "PERSIST", "none"}
    /\ c = Expirer => r.cmd.name = "none"
    /\ r.pc \notin {"net", "read"}
    /\ r.pc \in Evicts \cup Claims => r.cmd.name = "SET" /\ Len(r.args) = 1
    /\ r.pc \in Evicts => r.need = Size(Head(r.args)[2])

\* What evict_if_needed has admitted and MEMORY_USED does not count yet.
Claim(r) == IF r.pc \in Claims THEN Size(Head(r.args)[2]) ELSE 0
Claiming == [c \in Threads |-> Claim(th[c])]

Limit == MaxMemory + (Cardinality(Conns) - 1) * MaxSize

\* The inductive invariant of the limit: what MEMORY_USED stands for and what is admitted.
LimitInv ==
    /\ MemoryInv
    /\ ~flushed
    /\ \A c \in Threads : Plain(c, th[c])
    /\ Total + SumOf(Subtracting) - SumOf(Adding) + SumOf(Claiming) <= Limit

\* A thread's step stays on the way of a plain command, and either claims no more than it
\* gives, or it is the one that evict_if_needed has just admitted.
Thrifty(c) ==
    /\ Plain(c, th'[c])
    /\ \/ Delta(th[c]) + Claim(th'[c]) - Claim(th[c]) <= 0
       \/ /\ th[c].pc \in Evicts
          /\ Fits(th[c].need)
          /\ Claim(th'[c]) = th[c].need

LEMMA ClaimTyped ==
    ASSUME NEW r
    PROVE  Claim(r) \in 0..MaxSize /\ Claim(r) \in Nat /\ (r.pc \notin Claims => Claim(r) = 0)
BY SizeTyped DEF Claim, MaxSize

LEMMA DeltaClaimed ==
    ASSUME NEW r, Good(r)
    PROVE  Delta(r) \in Int /\ Delta(r) <= Claim(r)
<1>1. r.old \in 0..MaxSize
  BY Zenon DEF Good
<1>2. r.pc = "add" => Delta(r) = Claim(r) /\ Delta(r) \in Nat
  BY SizeTyped DEF Delta, Claim, Claims
<1>3. r.pc # "add" => Delta(r) \in {0, -r.old}
  BY DEF Delta
<1>4. r.pc # "add" => Delta(r) \in Int /\ Delta(r) <= 0
  BY <1>1, <1>3 DEF MaxSize
<1> QED
  BY <1>2, <1>4, ClaimTyped

\* A step to a place without a claim.
LEMMA Unclaimed ==
    ASSUME Inv, NEW c \in Threads, NEW r, Become(c, r), Plain(c, r), r.pc \notin Claims
    PROVE  Thrifty(c)
<1>1. th'[c] = r /\ Claim(r) = 0
  BY BecomeFacts, ClaimTyped, SMTT(30)
<1>2. Delta(th[c]) \in Int /\ Delta(th[c]) <= Claim(th[c]) /\ Claim(th[c]) \in Nat
  BY DeltaClaimed, ClaimTyped DEF Inv, ThreadsGood
<1>3. Delta(th[c]) + 0 - Claim(th[c]) <= 0
  BY <1>2, SMTT(30)
<1> QED
  BY <1>1, <1>3, Zenon DEF Thrifty

\* A step that keeps its claim and adds nothing.
LEMMA StillClaimed ==
    ASSUME Inv, NEW c \in Threads, Plain(c, th[c]), th[c].pc \in {"check", "insert", "subtract"},
           NEW r, Become(c, r), r.pc \in Claims, r.cmd = th[c].cmd, r.args = th[c].args
    PROVE  Thrifty(c)
<1>1. th'[c] = r /\ Claim(r) = Claim(th[c])
  BY BecomeFacts DEF Claim, Claims
<1>2. Delta(th[c]) \in Int /\ Claim(th[c]) \in Nat /\ Delta(th[c]) \in {0, -th[c].old}
  BY DeltaClaimed, ClaimTyped DEF Inv, ThreadsGood, Delta
<1>3. th[c].old \in 0..MaxSize
  BY Zenon DEF Inv, ThreadsGood, Good
<1>4. Delta(th[c]) + Claim(th[c]) - Claim(th[c]) <= 0
  BY <1>2, <1>3, SMTT(30) DEF MaxSize
<1>5. Plain(c, r)
  BY DEF Plain, Evicts, Claims
<1> QED
  BY <1>1, <1>4, <1>5, SMTT(30) DEF Thrifty

LEMMA AnsweredPlain ==
    ASSUME NEW c, NEW st, NEW num
    PROVE  Plain(c, Answered(st, num)) /\ Answered(st, num).pc \notin Claims
BY Zenon DEF Plain, Answered, Idle, NoCommand, Evicts, Claims

\* A plain thread that moves on within its command.
LEMMA PlainMoves ==
    ASSUME NEW c, NEW t, Plain(c, t), NEW r, r.cmd = t.cmd, r.args = t.args, r.pc \notin {"net", "read"},
           \/ r.pc \notin Evicts \cup Claims
           \/ t.pc \in Evicts /\ r.pc \in Evicts /\ r.need = t.need
           \/ t.pc \in Evicts \cup Claims /\ r.pc \in Claims
    PROVE  Plain(c, r)
BY DEF Plain, Evicts, Claims

LEMMA AdmittedThrifty ==
    ASSUME Inv, NEW c \in Threads, Plain(c, th[c]), th[c].pc \in Evicts, Fits(th[c].need),
           Become(c, Admitted(th[c]))
    PROVE  Thrifty(c)
<1> DEFINE t == th[c]
           p == IF t.cmd.cond # "" THEN "check" ELSE "insert"
           s == [t EXCEPT !.pc = p, !.need = 0, !.freed = 0, !.tries = 0]
<1>k. Good(t)
  BY DEF Inv, ThreadsGood
<1>1. Admitted(t) = s \/ Admitted(t) = Answered("error", 0)
  BY Zenon DEF Admitted
<1>2. CASE Admitted(t) = Answered("error", 0)
  BY <1>2, AnsweredPlain, Unclaimed, SMTT(30)
<1>3. CASE Admitted(t) = s
  <2>1. p \in Claims
    BY DEF Claims
  <2> HIDE DEF p
  <2>2. s.pc = p /\ s.cmd = t.cmd /\ s.args = t.args
    BY <1>k, Zenon DEF Good, Fields
  <2>3. th'[c] = s
    BY <1>3, BecomeFacts, SMTT(30)
  <2> HIDE DEF s
  <2>4. Plain(c, s)
    <3>1. s.pc \notin {"net", "read"}
      BY <2>1, <2>2, SMTT(30) DEF Claims
    <3> QED
      BY <2>1, <2>2, <3>1, PlainMoves, SMTT(30)
  <2>5. Claim(s) = t.need
    BY <2>1, <2>2, SMTT(30) DEF Claim, Plain
  <2> QED
    BY <2>3, <2>4, <2>5, SMTT(30) DEF Thrifty
<1> QED
  BY <1>1, <1>2, <1>3, SMTT(30)

LEMMA EvictionThrifty ==
    ASSUME Inv, NEW c \in Threads, Plain(c, th[c]),
           \/ EvictIfNeeded(c) \/ EvictSample(c) \/ EvictRemove(c) \/ EvictAccount(c) \/ EvictRecheck(c)
    PROVE  Thrifty(c)
<1> DEFINE t == th[c]
<1>k. Good(t)
  BY DEF Inv, ThreadsGood
<1>e. t.pc \in Evicts
  BY ZenonT(60) DEF EvictIfNeeded, EvictSample, EvictRemove, EvictAccount, EvictRecheck, At, Evicts
<1>m. ASSUME NEW r, Become(c, r), r.pc \in Evicts, r.cmd = t.cmd, r.args = t.args, r.need = t.need
      PROVE  Thrifty(c)
  <2>1. r.pc \notin {"net", "read"} /\ r.pc \notin Claims
    BY <1>m, SMTT(30) DEF Evicts, Claims
  <2>2. Plain(c, r)
    BY <1>e, <1>m, <2>1, PlainMoves, SMTT(30)
  <2> QED
    BY <1>m, <2>1, <2>2, Unclaimed, SMTT(30)
<1>p. "sampling" \in Evicts /\ "recheck" \in Evicts /\ "victim" \in Evicts /\ "evicted" \in Evicts
  BY SMTT(30) DEF Evicts
<1>1. CASE EvictIfNeeded(c) \/ EvictRecheck(c)
  <2> DEFINE s == [t EXCEPT !.pc = "sampling"]
  <2>1. \/ Fits(t.need) /\ Become(c, Admitted(t))
        \/ Become(c, Answered("oom", 0))
        \/ Become(c, s)
    BY <1>1, Zenon DEF EvictIfNeeded, EvictRecheck
  <2>2. s.pc = "sampling" /\ s.cmd = t.cmd /\ s.args = t.args /\ s.need = t.need
    BY <1>k, ZenonT(60) DEF Good, Fields
  <2> HIDE DEF s
  <2>3. CASE Become(c, s)
    BY <1>m, <1>p, <2>2, <2>3, SMTT(30)
  <2> QED
    BY <1>e, <2>1, <2>3, AdmittedThrifty, AnsweredPlain, Unclaimed, SMTT(30)
<1>2. CASE EvictSample(c)
  <2>1. PICK S : Become(c, [t EXCEPT !.pc = IF S = {} THEN "recheck" ELSE "victim", !.tries = @ + 1, !.keys = S])
    BY <1>2, Zenon DEF EvictSample
  <2> DEFINE p == IF S = {} THEN "recheck" ELSE "victim"
             r == [t EXCEPT !.pc = p, !.tries = @ + 1, !.keys = S]
  <2>2. p \in Evicts
    BY <1>p, Zenon
  <2>3. Become(c, r)
    BY <2>1, Zenon
  <2> HIDE DEF p
  <2>4. r.pc = p /\ r.cmd = t.cmd /\ r.args = t.args /\ r.need = t.need
    BY <1>k, ZenonT(60) DEF Good, Fields
  <2> HIDE DEF r
  <2> QED
    BY <1>m, <2>2, <2>3, <2>4, Zenon
<1>3. CASE EvictRemove(c)
  <2>1. PICK k \in t.keys :
          \/ Become(c, [t EXCEPT !.pc = "evicted", !.old = Size(db[k].val), !.keys = {}])
          \/ Become(c, [t EXCEPT !.pc = "recheck", !.keys = {}])
    BY <1>3, Zenon DEF EvictRemove
  <2> DEFINE z == Size(db[k].val)
             r1 == [t EXCEPT !.pc = "evicted", !.old = z, !.keys = {}]
             r2 == [t EXCEPT !.pc = "recheck", !.keys = {}]
  <2>2. Become(c, r1) \/ Become(c, r2)
    BY <2>1, Zenon
  <2> HIDE DEF z
  <2>3. /\ r1.pc = "evicted" /\ r1.cmd = t.cmd /\ r1.args = t.args /\ r1.need = t.need
        /\ r2.pc = "recheck" /\ r2.cmd = t.cmd /\ r2.args = t.args /\ r2.need = t.need
    BY <1>k, ZenonT(60) DEF Good, Fields
  <2> HIDE DEF r1, r2
  <2> QED
    BY <1>m, <1>p, <2>2, <2>3, Zenon
<1>4. CASE EvictAccount(c)
  <2> DEFINE r == [t EXCEPT !.pc = "sampling", !.freed = @ + t.old, !.old = 0]
  <2>1. Become(c, r)
    BY <1>4 DEF EvictAccount
  <2>2. r.pc = "sampling" /\ r.cmd = t.cmd /\ r.args = t.args /\ r.need = t.need
    BY <1>k, Zenon DEF Good, Fields
  <2> HIDE DEF r
  <2> QED
    BY <1>m, <1>p, <2>1, <2>2, Zenon
<1> QED
  BY <1>1, <1>2, <1>3, <1>4, SMTT(30)

LEMMA WriteThrifty ==
    ASSUME Inv, NEW c \in Threads, Plain(c, th[c]),
           CheckCondition(c) \/ MsetNet(c) \/ Insert(c) \/ SubtractOld(c) \/ AddNew(c)
    PROVE  Thrifty(c)
<1> DEFINE t == th[c]
<1>k. Good(t)
  BY DEF Inv, ThreadsGood
<1>p. "insert" \in Claims /\ "subtract" \in Claims /\ "add" \in Claims
  BY SMTT(30) DEF Claims
<1>1. CASE CheckCondition(c)
  <2> DEFINE s == [t EXCEPT !.pc = "insert"]
  <2>1. t.pc = "check" /\ (Become(c, Answered("nil", 0)) \/ Become(c, s))
    BY <1>1 DEF CheckCondition, Answer, At
  <2>2. s.pc = "insert" /\ s.cmd = t.cmd /\ s.args = t.args
    BY <1>k, ZenonT(60) DEF Good, Fields
  <2> HIDE DEF s
  <2> QED
    BY <1>p, <2>1, <2>2, StillClaimed, AnsweredPlain, Unclaimed, Zenon
<1>2. ~MsetNet(c)
  BY ZenonT(60) DEF MsetNet, At, Plain
<1>3. CASE Insert(c)
  <2> DEFINE z == Size(db[Key(c)].val)
             r1 == [t EXCEPT !.pc = "subtract", !.old = z]
             r2 == [t EXCEPT !.pc = "add"]
  <2>1. t.pc = "insert" /\ (Become(c, r1) \/ Become(c, r2))
    BY <1>3, Zenon DEF Insert, At
  <2> HIDE DEF z
  <2>2. /\ r1.pc = "subtract" /\ r1.cmd = t.cmd /\ r1.args = t.args
        /\ r2.pc = "add" /\ r2.cmd = t.cmd /\ r2.args = t.args
    BY <1>k, ZenonT(60) DEF Good, Fields
  <2> HIDE DEF r1, r2
  <2> QED
    BY <1>p, <2>1, <2>2, StillClaimed, Zenon
<1>4. CASE SubtractOld(c)
  <2> DEFINE r == [t EXCEPT !.pc = "add", !.old = 0]
  <2>1. t.pc = "subtract" /\ Become(c, r)
    BY <1>4 DEF SubtractOld, At
  <2>2. r.pc = "add" /\ r.cmd = t.cmd /\ r.args = t.args
    BY <1>k, Zenon DEF Good, Fields
  <2> HIDE DEF r
  <2> QED
    BY <1>p, <2>1, <2>2, StillClaimed, SMTT(30)
<1>5. CASE AddNew(c)
  <2>1. t.pc = "add"
    BY <1>5, SMTT(30) DEF AddNew, At
  <2>2. Len(t.args) = 1
    BY <2>1, <1>p, Zenon DEF Plain
  <2>3. Become(c, Answered("ok", Val(c)))
    BY <1>5, <2>2, SMTT(30) DEF AddNew, Answer
  <2> QED
    BY <2>3, AnsweredPlain, Unclaimed, SMTT(30)
<1> QED
  BY <1>1, <1>2, <1>3, <1>4, <1>5, SMTT(30)

LEMMA WithoutKeyPlain ==
    ASSUME NEW c, NEW r, Good(r), Plain(c, r)
    PROVE  Plain(c, WithoutKey(r)) /\ WithoutKey(r).pc \notin Claims
<1>1. r.cmd.name # "INCR"
  BY DEF Plain
<1> DEFINE s == [r EXCEPT !.pc = "sample", !.args = <<>>, !.old = 0]
<1>2. s.pc = "sample" /\ s.cmd = r.cmd
  BY Zenon DEF Good, Fields
<1>3. WithoutKey(r) = s \/ WithoutKey(r) = Answered("nil", 0)
  BY <1>1, Zenon DEF WithoutKey
<1> HIDE DEF s
<1>4. Plain(c, s) /\ s.pc \notin Claims
  BY <1>2 DEF Plain, Evicts, Claims
<1> QED
  BY <1>3, <1>4, AnsweredPlain, SMTT(30)

\* Reads, deletes and expiry: from a place outside a write to another one.
LEMMA OtherThrifty ==
    ASSUME Inv, NEW c \in Threads, Plain(c, th[c]),
           \/ GetKey(c) \/ ReadCounter(c) \/ LazyRemove(c) \/ LazyAccount(c)
           \/ DeleteKey(c) \/ DeleteAccount(c) \/ ExpireKey(c) \/ PersistKey(c)
    PROVE  Thrifty(c)
<1> DEFINE t == th[c]
           lazy == [t EXCEPT !.pc = "lazy"]
           z == Size(db[Key(c)].val)
           lazied == [t EXCEPT !.pc = "lazied", !.old = z]
           i == t.n + IF Expired(db[Key(c)], t.now) THEN 0 ELSE 1
           deleted == [t EXCEPT !.pc = "deleted", !.old = z, !.n = i]
           next == [t EXCEPT !.pc = "delete", !.args = Tail(@), !.old = 0]
<1>k. Good(t)
  BY DEF Inv, ThreadsGood
<1>1. ~ReadCounter(c)
  BY DEF ReadCounter, At, Plain
<1>2. \/ \E st, num : Become(c, Answered(st, num))
      \/ \E r \in {WithoutKey(t), lazy, lazied, deleted, next} : Become(c, r)
  <2>1. CASE GetKey(c)
    BY <2>1, Zenon DEF GetKey
  <2>2. CASE LazyRemove(c) \/ LazyAccount(c)
    BY <2>2, Zenon DEF LazyRemove, LazyAccount
  <2>3. CASE DeleteKey(c) \/ DeleteAccount(c)
    BY <2>3, Zenon DEF DeleteKey, DeleteAccount, NextDelete
  <2>4. CASE ExpireKey(c) \/ PersistKey(c)
    BY <2>4, Zenon DEF ExpireKey, PersistKey, Answer
  <2> QED
    BY <1>1, <2>1, <2>2, <2>3, <2>4, SMTT(30)
<1> HIDE DEF z, i
<1>3. /\ lazy.pc = "lazy" /\ lazy.cmd = t.cmd
      /\ lazied.pc = "lazied" /\ lazied.cmd = t.cmd
      /\ deleted.pc = "deleted" /\ deleted.cmd = t.cmd
      /\ next.pc = "delete" /\ next.cmd = t.cmd
  BY <1>k, ZenonT(60) DEF Good, Fields
<1> HIDE DEF lazy, lazied, deleted, next
<1>4. ASSUME NEW r \in {lazy, lazied, deleted, next} PROVE Plain(c, r) /\ r.pc \notin Claims
  BY <1>3, Zenon DEF Plain, Evicts, Claims
<1>5. Plain(c, WithoutKey(t)) /\ WithoutKey(t).pc \notin Claims
  BY <1>k, WithoutKeyPlain, SMTT(30)
<1>6. CASE \E st, num : Become(c, Answered(st, num))
  BY <1>6, AnsweredPlain, Unclaimed, SMTT(30)
<1>7. ASSUME NEW r \in {WithoutKey(t), lazy, lazied, deleted, next}, Become(c, r) PROVE Thrifty(c)
  <2>1. Plain(c, r) /\ r.pc \notin Claims
    BY <1>4, <1>5, <1>7, Zenon
  <2> QED
    BY <1>7, <2>1, Unclaimed, Zenon
<1> QED
  BY <1>2, <1>6, <1>7, Zenon

\* A thread between two commands, or the task between two samples.
Resting(c, r) == r.pc \in {"loop", "wait", "sample", "lazy"} /\ (r.cmd = th[c].cmd \/ r.cmd.name = "none")

LEMMA LoopThrifty ==
    ASSUME SetsOnly, Inv, NEW c \in Threads, Plain(c, th[c]),
           \/ c \in Conns /\ (CaptureNow(c) \/ \E m \in Commands : Receive(c, m))
           \/ c = Expirer /\ (ExpirerTick \/ (\E k \in Keys : ExpirerSample(k)) \/ ExpirerRoundEnds)
    PROVE  Thrifty(c)
<1> DEFINE t == th[c]
<1>k. Good(t) /\ Good(Idle) /\ Idle.pc = "loop" /\ Idle.cmd.name = "none"
  BY IdleGood, ZenonT(60) DEF Inv, ThreadsGood, Idle, NoCommand
<1>m. ASSUME NEW r, Resting(c, r), Become(c, r) PROVE Thrifty(c)
  <2>1. r.pc \notin Claims /\ Plain(c, r)
    BY <1>m DEF Resting, Plain, Evicts, Claims
  <2> QED
    BY <1>m, <2>1, Unclaimed, ZenonT(60)
<1>1. CASE CaptureNow(c)
  <2> DEFINE r == [t EXCEPT !.pc = "wait", !.now = clock, !.reply = NoReply]
  <2>1. Become(c, r)
    BY <1>1 DEF CaptureNow
  <2>2. r.pc = "wait" /\ r.cmd = t.cmd
    BY <1>k, ZenonT(60) DEF Good, Fields
  <2> HIDE DEF r
  <2>3. Resting(c, r)
    BY <2>2, Zenon DEF Resting
  <2> QED
    BY <1>m, <2>1, <2>3, Zenon
<1>2. ASSUME c \in Conns, NEW m \in Commands, Receive(c, m) PROVE Thrifty(c)
  <2> DEFINE now == IF m.name = "FLUSH" THEN clock ELSE t.now
             exp == IF m.name = "SET" /\ Seconds(m) > 0 THEN t.now + Seconds(m) ELSE Never
             need == IF m.name = "SET" THEN Size(m.args[1][2]) ELSE 0
             keys == IF m.name = "FLUSH" THEN Keys ELSE {}
             p == FirstStep(m)
             r == [t EXCEPT !.pc = p, !.cmd = m, !.args = m.args, !.now = now, !.exp = exp,
                            !.need = need, !.keys = keys]
  <2>1. Become(c, r)
    BY <1>2, Zenon DEF Receive
  <2>2. /\ m.name \in {"SET", "GET", "DEL", "EXPIRE", "PERSIST"}
        /\ m.name = "SET" => Len(m.args) = 1 /\ m.args[1] = Head(m.args)
    <3>1. m.args \in Seq(Keys \X Values)
      BY CommandsAssumption, Zenon DEF CommandType
    <3>2. m.name = "SET" => Len(m.args) = 1
      BY DEF SetsOnly
    <3>3. Len(m.args) = 1 => m.args[1] = Head(m.args)
      BY <3>1
    <3> QED
      BY <3>2, <3>3, SMTT(30) DEF SetsOnly
  <2>3. /\ p \notin Claims /\ p \notin {"net", "read"}
        /\ p \in Evicts => m.name = "SET"
    BY <2>2, Zenon DEF FirstStep, Evicts, Claims
  <2>4. m.name = "SET" => need = Size(Head(m.args)[2])
    BY <2>2
  <2> HIDE DEF p, now, exp, need, keys
  <2>5. r.pc = p /\ r.cmd = m /\ r.args = m.args /\ r.need = need
    BY <1>k, ZenonT(60) DEF Good, Fields
  <2> HIDE DEF r
  <2>6. Plain(c, r)
    BY <1>2, <2>2, <2>3, <2>4, <2>5, ThreadsAssumption, Zenon DEF Plain
  <2> QED
    BY <2>1, <2>3, <2>5, <2>6, Unclaimed, Zenon
<1>3. CASE ExpirerTick /\ c = Expirer
  <2> DEFINE r == [Idle EXCEPT !.pc = "sample", !.now = clock]
  <2>1. Become(c, r)
    BY <1>3 DEF ExpirerTick
  <2>2. r.pc = "sample" /\ r.cmd = Idle.cmd
    BY <1>k, ZenonT(60) DEF Good, Fields
  <2> HIDE DEF r
  <2>3. Resting(c, r)
    BY <1>k, <2>2, Zenon DEF Resting
  <2> QED
    BY <1>m, <2>1, <2>3, Zenon
<1>4. ASSUME c = Expirer, NEW k, ExpirerSample(k) PROVE Thrifty(c)
  <2> DEFINE r == [t EXCEPT !.pc = "lazy", !.args = <<<<k, 0>>>>]
  <2>1. Become(c, r)
    BY <1>4, Zenon DEF ExpirerSample
  <2>2. r.pc = "lazy" /\ r.cmd = t.cmd
    BY <1>k, ZenonT(60) DEF Good, Fields
  <2> HIDE DEF r
  <2>3. Resting(c, r)
    BY <2>2, Zenon DEF Resting
  <2> QED
    BY <1>m, <2>1, <2>3, Zenon
<1>5. CASE ExpirerRoundEnds /\ c = Expirer
  <2>1. Become(c, Idle)
    BY <1>5, Zenon DEF ExpirerRoundEnds
  <2>2. Resting(c, Idle)
    BY <1>k, Zenon DEF Resting
  <2> QED
    BY <1>m, <2>1, <2>2, Zenon
<1> QED
  BY <1>1, <1>2, <1>3, <1>4, <1>5, Zenon

\* The claims of the other connections: one entry each at most.
LEMMA OthersClaim ==
    ASSUME NEW c \in Conns, Claim(th[Expirer]) = 0
    PROVE  SumOf(Rest(Claiming, c)) \in Nat /\ SumOf(Rest(Claiming, c)) <= (Cardinality(Conns) - 1) * MaxSize
<1> DEFINE f == Rest(Claiming, c)
           box == (Conns \ {c}) \X (1..MaxSize)
<1>1. DOMAIN f = Threads \ {c} /\ \A d \in DOMAIN f : f[d] = Claim(th[d])
  BY SMTT(30) DEF Rest, Claiming
<1>2. Units(f) \in SUBSET box
  <2>1. ASSUME NEW d \in Threads \ {c}, NEW i \in 1..MaxSize, i <= f[d] PROVE d \in Conns \ {c}
    <3>1. CASE d = Expirer
      BY <1>1, <2>1, <3>1, SMTT(30) DEF MaxSize
    <3> QED
      BY <3>1, SMTT(30) DEF Threads
  <2> QED
    BY <1>1, <2>1, SMTT(30) DEF Units
<1>3. IsFiniteSet(Conns \ {c}) /\ Cardinality(Conns \ {c}) = Cardinality(Conns) - 1
  BY ThreadsAssumption, FS_RemoveElement, SMTT(30)
<1>4. IsFiniteSet(1..MaxSize) /\ Cardinality(1..MaxSize) = MaxSize
  <2>1. 1 \in Int /\ MaxSize \in Int /\ ~(1 > MaxSize) /\ MaxSize - 1 + 1 = MaxSize
    BY DEF MaxSize
  <2> QED
    BY <2>1, FS_Interval, SMTT(30)
<1>5. IsFiniteSet(box) /\ Cardinality(box) = (Cardinality(Conns) - 1) * MaxSize
  <2>1. IsFiniteSet(box) /\ Cardinality(box) = Cardinality(Conns \ {c}) * Cardinality(1..MaxSize)
    BY <1>3, <1>4, FS_Product, Zenon
  <2> QED
    BY <1>3, <1>4, <2>1, Zenon
<1> HIDE DEF f, box
<1> QED
  BY <1>2, <1>5, FS_Subset, FS_CardinalityType, SMTT(30) DEF SumOf, f

\* What is still to be added has been claimed.
LEMMA AddingClaimed ==
    SumOf(Adding) <= SumOf(Claiming) /\ SumOf(Claiming) \in Nat /\ SumOf(Adding) \in Nat
<1>1. IsFiniteSet(Threads)
  BY ThreadsAssumption, FS_AddElement, SMTT(30) DEF Threads
<1>2. IsFiniteSet(Units(Claiming)) /\ SumOf(Claiming) \in Nat /\ SumOf(Adding) \in Nat
  BY <1>1, UnitsFinite DEF Claiming, Adding
<1>3. \A c \in Threads : ToAdd(th[c]) \in {0, Claim(th[c])}
  BY DEF ToAdd, Claim, Claims
<1>4. Units(Adding) \in SUBSET Units(Claiming)
  <2>1. ASSUME NEW c \in Threads, NEW i \in 1..MaxSize, i <= Adding[c] PROVE i <= Claiming[c]
    BY <1>3, <2>1, ClaimTyped DEF Adding, Claiming, MaxSize
  <2> QED
    BY <2>1 DEF Units, Adding, Claiming
<1> QED
  BY <1>2, <1>4, FS_Subset, SMTT(30) DEF SumOf

\* A thread's step changes what is claimed by what that thread claims.
LEMMA ClaimsMove ==
    ASSUME NEW c \in Threads, \A d \in Threads \ {c} : th'[d] = th[d]
    PROVE  /\ SumOf(Claiming) \in Nat
           /\ SumOf(Claiming) = SumOf(Rest(Claiming, c)) + Claim(th[c])
           /\ SumOf(Claiming)' = SumOf(Rest(Claiming, c)) + Claim(th'[c])
           /\ SumOf(Rest(Claiming, c)) \in Nat
<1>1. IsFiniteSet(Threads)
  BY ThreadsAssumption, FS_AddElement DEF Threads
<1>2. \A d \in Threads : Claim(th[d]) \in 0..MaxSize /\ Claim(th'[d]) \in 0..MaxSize
  BY ClaimTyped
<1>3. Sized(Claiming) /\ Part(Claiming, c) = Claim(th[c])
  BY <1>1, <1>2, Zenon DEF Sized, Claiming, Part
<1>4. Sized(Claiming') /\ Part(Claiming', c) = Claim(th'[c])
  BY <1>1, <1>2, Zenon DEF Sized, Claiming, Part, Claim
<1>5. Rest(Claiming', c) = Rest(Claiming, c)
  BY Zenon DEF Rest, Claiming, Claim
<1>6. /\ SumOf(Claiming) \in Nat /\ SumOf(Rest(Claiming, c)) \in Nat
      /\ SumOf(Claiming) = SumOf(Rest(Claiming, c)) + Part(Claiming, c)
  BY <1>3, SumParts
<1>7. SumOf(Claiming') = SumOf(Rest(Claiming', c)) + Part(Claiming', c)
  BY <1>4, SumParts
<1> QED
  BY <1>3, <1>4, <1>5, <1>6, <1>7

\* evict_if_needed lets an entry pass only when what MEMORY_USED stands for has room for it;
\* that the counter wraps does not help the entry.
LEMMA FitsMeansRoom ==
    ASSUME NEW m \in Int, NEW n \in Nat, Congruent(mem, m), mem \in Int, m + n < U64, Fits(n)
    PROVE  m + n <= MaxMemory
<1>0. U64 \in Nat /\ MaxMemory \in Nat
  BY MemoryAssumption
<1>1. PICK z \in Int : mem = m + z * U64
  BY DEF Congruent
<1>2. mem + n = (m + n) + z * U64 /\ mem + n \in Int /\ m + n \in Int
  BY <1>0, <1>1
<1>3. Congruent(mem + n, m + n)
  BY <1>2, Zenon DEF Congruent
<1>4. (mem + n) % U64 = (m + n) % U64
  BY <1>2, <1>3, CongruentMod
<1>5. m + n >= 0 => (m + n) % U64 = m + n
  BY <1>0, <1>2
<1> QED
  BY <1>0, <1>2, <1>4, <1>5 DEF Fits

LEMMA LimitInit ==
    SetsOnly /\ Init => LimitInv
<1> SUFFICES ASSUME SetsOnly, Init PROVE LimitInv
  OBVIOUS
<1>1. MemoryInv
  BY MemoryInit
<1>2. DOMAIN db = {} /\ \A c \in Threads : th[c] = Idle
  BY DEF Init
<1>3. Idle.pc = "loop" /\ Idle.cmd.name = "none"
  BY DEF Idle, NoCommand
<1>4. \A c \in Threads : Plain(c, th[c]) /\ ToAdd(th[c]) = 0 /\ ToSubtract(th[c]) = 0 /\ Claim(th[c]) = 0
  BY <1>2, <1>3 DEF ToAdd, ToSubtract, Claim, Claims, Plain, Evicts
<1>5. Units(Adding) = {} /\ Units(Subtracting) = {} /\ Units(Sizes) = {} /\ Units(Claiming) = {}
  BY <1>2, <1>4 DEF Units, Adding, Subtracting, Sizes, Claiming
<1>6. SumOf(Adding) = 0 /\ SumOf(Subtracting) = 0 /\ Total = 0 /\ SumOf(Claiming) = 0
  BY <1>5, FS_EmptySet, Zenon DEF SumOf, Total
<1>7. Cardinality(Conns) \in Nat /\ Cardinality(Conns) # 0
  BY ThreadsAssumption, FS_CardinalityType, FS_EmptySet DEF SetsOnly
<1>8. 0 + 0 - 0 + 0 <= Limit
  BY <1>7, MemoryAssumption DEF Limit, MaxSize
<1>9. ~flushed
  BY Zenon DEF Init
<1> QED
  BY <1>1, <1>4, <1>6, <1>8, <1>9 DEF LimitInv

LEMMA LimitStep ==
    ASSUME SetsOnly, LimitInv, Inv', NEW c \in Threads, Balanced(c), Thrifty(c)
    PROVE  (Total + SumOf(Subtracting) - SumOf(Adding) + SumOf(Claiming) <= Limit)'
<1> DEFINE a == ToAdd(th[c])
           a2 == ToAdd(th'[c])
           s == ToSubtract(th[c])
           s2 == ToSubtract(th'[c])
           n == Delta(th[c])
           A == SumOf(Adding)
           S == SumOf(Subtracting)
           A2 == SumOf(Adding)'
           S2 == SumOf(Subtracting)'
           T2 == Total'
           C == SumOf(Claiming)
           C2 == SumOf(Claiming)'
           R == SumOf(Rest(Claiming, c))
           k == Claim(th[c])
           k2 == Claim(th'[c])
           m == Total + S - A
<1>0. Inv /\ Good(th[c]) /\ Plain(c, th[c])
  BY DEF LimitInv, MemoryInv, Inv, ThreadsGood
<1>1. /\ T2 = Total + n + (a2 - a) - (s2 - s) /\ Total \in Nat
      /\ \A d \in Threads \ {c} : th'[d] = th[d]
  BY Zenon DEF Balanced
<1>2. /\ A \in Nat /\ S \in Nat
      /\ a \in 0..MaxSize /\ s \in 0..MaxSize /\ a2 \in 0..MaxSize /\ s2 \in 0..MaxSize
      /\ A2 = A + a2 - a /\ S2 = S + s2 - s
  BY <1>0, <1>1, DebtsMove
<1>3. C \in Nat /\ R \in Nat /\ C = R + k /\ C2 = R + k2
  BY <1>1, ClaimsMove
<1>4. k \in Nat /\ k2 \in Nat /\ n \in Int /\ n <= k
  BY <1>0, ClaimTyped, DeltaClaimed
<1>5. Total + S - A + C <= Limit
  BY DEF LimitInv
<1>6. \/ n + k2 - k <= 0
      \/ th[c].pc \in Evicts /\ Fits(th[c].need) /\ k2 = th[c].need
  BY DEF Thrifty
<1>7. ASSUME th[c].pc \in Evicts, Fits(th[c].need), k2 = th[c].need
      PROVE  R <= (Cardinality(Conns) - 1) * MaxSize /\ m + k2 <= MaxMemory /\ k = 0
  <2>1. th[c].pc \notin Claims /\ k = 0
    <3>1. th[c].pc \notin Claims
      BY <1>7 DEF Evicts, Claims
    <3> QED
      BY <3>1, ClaimTyped
  <2>2. c \in Conns
    <3>1. th[c].cmd.name = "SET"
      BY <1>0, <1>7 DEF Plain
    <3> QED
      BY <1>0, <3>1 DEF Plain, Threads
  <2>3. Claim(th[Expirer]) = 0
    <3>1. Plain(Expirer, th[Expirer])
      BY DEF LimitInv, Threads
    <3>2. th[Expirer].pc \notin Claims
      BY <3>1 DEF Plain
    <3> QED
      BY <3>2, ClaimTyped
  <2>4. R <= (Cardinality(Conns) - 1) * MaxSize
    BY <2>2, <2>3, OthersClaim
  <2>5. Congruent(mem + A - S, Total) /\ mem \in Int
    BY MemoryAssumption DEF LimitInv, MemoryInv, Accounted, Inv
  <2>6. k2 \in 0..MaxSize /\ Cardinality(Conns) \in Nat /\ MaxMemory + Cardinality(Conns) * MaxSize < U64
    BY ClaimTyped, ThreadsAssumption, FS_CardinalityType DEF SetsOnly
  <2> HIDE DEF A, S, C, R, k, k2
  <2>7. m \in Int /\ m + k2 < U64
    BY <1>1, <1>2, <1>3, <1>4, <1>5, <2>6, MemoryAssumption DEF Limit, MaxSize
  <2>8. Congruent(mem, m)
    <3>1. PICK z \in Int : mem + A - S = Total + z * U64
      BY <2>5 DEF Congruent
    <3>2. mem = m + z * U64
      BY <1>1, <1>2, <2>5, <3>1, MemoryAssumption
    <3> QED
      BY <3>2 DEF Congruent
  <2> HIDE DEF m
  <2>9. m + k2 <= MaxMemory
    BY <1>4, <1>7, <2>5, <2>7, <2>8, FitsMeansRoom
  <2> QED
    BY <2>1, <2>4, <2>9
<1>8. Cardinality(Conns) \in Nat /\ MaxMemory \in Nat
  BY ThreadsAssumption, FS_CardinalityType, MemoryAssumption
<1> HIDE DEF a, a2, s, s2, n, A, S, A2, S2, T2, C, C2, R, k, k2
<1>9. T2 + S2 - A2 + C2 <= Limit
  <2>1. T2 + S2 - A2 + C2 = m + n + R + k2
    BY <1>1, <1>2, <1>3, <1>4 DEF MaxSize
  <2>2. CASE n + k2 - k <= 0
    BY <1>1, <1>2, <1>3, <1>4, <1>5, <1>8, <2>1, <2>2 DEF Limit, MaxSize
  <2>3. CASE th[c].pc \in Evicts /\ Fits(th[c].need) /\ k2 = th[c].need
    <3>1. R <= (Cardinality(Conns) - 1) * MaxSize /\ m + k2 <= MaxMemory /\ k = 0
      BY <1>7, <2>3
    <3> QED
      BY <1>1, <1>2, <1>3, <1>4, <1>8, <2>1, <3>1 DEF Limit, MaxSize
  <2> QED
    BY <1>6, <2>2, <2>3
<1> QED
  BY <1>9 DEF T2, S2, A2, C2, Limit

LEMMA LimitNext ==
    SetsOnly /\ LimitInv /\ [Next]_vars => LimitInv'
<1> SUFFICES ASSUME SetsOnly, LimitInv, [Next]_vars PROVE LimitInv'
  OBVIOUS
<1>1. MemoryInv /\ MemoryInv' /\ Inv /\ Inv' /\ IsFiniteSet(DOMAIN db) /\ Flushing /\ ~flushed
  <2>1. MemoryInv'
    BY MemoryNext DEF LimitInv
  <2> QED
    BY <2>1 DEF LimitInv, MemoryInv
<1>2. ~flushed'
  <2>1. ASSUME NEW c, NEW m \in Commands, Receive(c, m) PROVE ~flushed'
    <3>1. m.name # "FLUSH"
      BY DEF SetsOnly
    <3> QED
      BY <1>1, <2>1, <3>1, Zenon DEF Receive
  <2> QED
    BY <1>1, <2>1, WhoFlushes, Zenon
<1>3. CASE UNCHANGED <<db, mem, th>>
  <2>1. /\ Adding' = Adding /\ Subtracting' = Subtracting /\ Total' = Total /\ Claiming' = Claiming
        /\ \A c \in Threads : Plain(c, th'[c])
    BY <1>3, Zenon DEF Adding, Subtracting, Total, Sizes, Claiming, LimitInv
  <2> QED
    BY <1>1, <1>2, <2>1 DEF LimitInv, Limit
<1>4. ASSUME NEW c \in Threads, Acts(c), Balanced(c) PROVE LimitInv'
  <2>1. Plain(c, th[c]) /\ th[c].pc \notin Flushes
    BY <1>1, Zenon DEF LimitInv, Flushing
  <2>2. Thrifty(c)
    <3>1. ~FlushAccount(c) /\ \A k \in Keys : ~FlushSum(c, k) /\ ~FlushClear(c, k)
      BY <2>1, Zenon DEF FlushAccount, FlushSum, FlushClear, At, Flushes
    <3>2. CASE HandlerStep(c)
      BY <1>1, <2>1, <3>1, <3>2, EvictionThrifty, WriteThrifty, OtherThrifty, Zenon DEF HandlerStep
    <3> QED
      BY <1>1, <1>4, <2>1, <3>2, LoopThrifty, Zenon DEF Acts
  <2>3. (Total + SumOf(Subtracting) - SumOf(Adding) + SumOf(Claiming) <= Limit)'
    BY <1>1, <1>4, <2>2, LimitStep
  <2>4. \A d \in Threads : Plain(d, th'[d])
    BY <1>4, <2>2, Zenon DEF Thrifty, Balanced, LimitInv
  <2> QED
    BY <1>1, <1>2, <2>3, <2>4 DEF LimitInv
<1> QED
  BY <1>1, <1>2, <1>3, <1>4, StepBalanced, Zenon

\* With SET, GET, DEL, EXPIRE and PERSIST, any number of connections and any keys, the map
\* never exceeds the limit by more than one entry for each connection but one, although
\* evict_if_needed tests long before the entry is stored and MEMORY_USED lags and wraps.
THEOREM LimitIsSoft ==
    ASSUME SetsOnly
    PROVE  Spec => []SoftLimit
<1>1. Init => LimitInv
  BY LimitInit
<1>2. LimitInv /\ [Next]_vars => LimitInv'
  BY LimitNext
<1>3. LimitInv => SoftLimit
  <2> SUFFICES ASSUME LimitInv PROVE SoftLimit
    OBVIOUS
  <2>1. SumOf(Adding) <= SumOf(Claiming) /\ SumOf(Claiming) \in Nat /\ SumOf(Adding) \in Nat
    BY AddingClaimed
  <2>2. IsFiniteSet(Threads)
    BY ThreadsAssumption, FS_AddElement DEF Threads
  <2>3. SumOf(Subtracting) \in Nat /\ Total \in Nat
    BY <2>2, UnitsFinite DEF LimitInv, MemoryInv, Subtracting, Total, Sizes
  <2>4. Total + SumOf(Subtracting) - SumOf(Adding) + SumOf(Claiming) <= Limit
    BY DEF LimitInv
  <2>5. Limit \in Int
    BY ThreadsAssumption, FS_CardinalityType, MemoryAssumption DEF Limit, MaxSize
  <2>6. Total <= Limit
    BY <2>1, <2>3, <2>4, <2>5
  <2> QED
    BY <2>6 DEF SoftLimit, Limit
<1> QED
  BY <1>1, <1>2, <1>3, PTL DEF Spec
=============================================================================
