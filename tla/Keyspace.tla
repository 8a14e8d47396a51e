------------------------------ MODULE Keyspace ------------------------------
(***************************************************************************)
(* The string commands of src/main.rs over the sharded store of             *)
(* src/store.rs, with expiry, memory accounting and eviction.               *)
(*                                                                          *)
(* A thread is a connection task inside one command, or the passive         *)
(* expiration task.  One action is one access to shared state: an operation *)
(* on the map (DashMap locks the key for its duration), or one atomic       *)
(* operation on MEMORY_USED, which the code performs beside the map.        *)
(* Values are integers; Text stands for any value that is not a number.     *)
(* MEMORY_USED wraps at U64.  SET GET and MGET only add reads to SET and    *)
(* GET and are left out; hashes are the subject of HashKeys.                *)
(***************************************************************************)
EXTENDS Integers, Sequences, FiniteSets

CONSTANTS
    Conns,        \* connection tasks
    Expirer,      \* the task of expiration_task
    Keys,         \* keys
    Commands,     \* the commands clients may send
    MaxMemory,    \* CONFIG.memory.max_memory
    U64,          \* MEMORY_USED is a number modulo U64
    I64Max,       \* largest i64
    Evicting,     \* FALSE: noeviction; TRUE: allkeys-lru or allkeys-random
    MaxAttempts,  \* max_attempts of evict_if_needed
    MaxTtl,       \* bound on the seconds of EX, PX and EXPIRE
    MaxClock      \* bound on the clock

VARIABLES
    db,      \* the map: a function from the keys that are present to entries
    mem,     \* MEMORY_USED
    clock,   \* get_timestamp()
    th,      \* the threads
    flushed  \* a FLUSHDB or FLUSHALL has been sent (history)

vars == <<db, mem, clock, th, flushed>>

Threads == Conns \cup {Expirer}

Text == I64Max + 1
I64 == -(I64Max + 1)..I64Max
Values == I64 \cup {Text}
Never == MaxClock + MaxTtl + 1       \* expiry None: later than any other
Entries == [val: Values, exp: 0..Never]

Millis == 1000                       \* in a second

\* A command: its name, its key/value pairs, EX or EXPIRE seconds (0: no EX, or an EXPIRE
\* with a number that is not positive), PX milliseconds (0: no PX), the NX or XX option
\* ("bad": a syntax error in the options), the increment.
CommandType ==
    [name: {"SET", "MSET", "INCR", "GET", "DEL", "EXPIRE", "PERSIST", "FLUSH"},
     args: Seq(Keys \X Values), ttl: 0..MaxTtl, px: 0..(Millis * MaxTtl),
     cond: {"", "NX", "XX", "bad"}, delta: I64]
NoCommand == [name |-> "none", args |-> <<>>, ttl |-> 0, px |-> 0, cond |-> "", delta |-> 0]

ASSUME ThreadsAssumption == IsFiniteSet(Conns) /\ Expirer \notin Conns
ASSUME MemoryAssumption == MaxMemory \in Nat \ {0} /\ U64 \in Nat /\ MaxMemory < U64
ASSUME BoundsAssumption ==
    /\ I64Max \in Nat /\ MaxAttempts \in Nat /\ MaxClock \in Nat /\ MaxTtl \in Nat
    /\ Evicting \in BOOLEAN
ASSUME CommandsAssumption ==
    /\ Commands \subseteq CommandType
    /\ \A m \in Commands : m.name # "FLUSH" => m.args # <<>>

\* parse_i64 negates a parsed i64, so it cannot read the least one.
Parses(v) == v \in -I64Max..I64Max
\* entry_size: the fixed part and the key count 1, a digit 1 more, a sign or a text 2 more.
Size(v) == IF v \in 0..I64Max THEN 2 ELSE 3
MaxSize == 3

Expired(e, t) == t >= e.exp
Live(k, t) == k \in DOMAIN db /\ ~Expired(db[k], t)
Put(k, e) == db' = [j \in DOMAIN db \cup {k} |-> IF j = k THEN e ELSE db[j]]
Remove(k) == db' = [j \in DOMAIN db \ {k} |-> db[j]]
Plus(n) == mem' = (mem + n) % U64

NoReply == [status |-> "none", n |-> 0]

Idle == [pc |-> "loop", cmd |-> NoCommand, now |-> 0, args |-> <<>>, exp |-> Never, old |-> 0,
         need |-> 0, freed |-> 0, tries |-> 0, keys |-> {}, n |-> 0, reply |-> NoReply]

Init ==
    /\ db = [k \in {} |-> [val |-> 0, exp |-> Never]]
    /\ mem = 0
    /\ clock = 0
    /\ th = [c \in Threads |-> Idle]
    /\ flushed = FALSE

----------------------------------------------------------------------------
(* Helpers for the steps of a thread. *)

Become(c, r) == th' = [th EXCEPT ![c] = r]
At(c, p) == th[c].pc = p
Key(c) == Head(th[c].args)[1]
Val(c) == Head(th[c].args)[2]

\* The handler returns and the connection loop goes round.
Answered(st, num) == [Idle EXCEPT !.reply = [status |-> st, n |-> num]]
Answer(c, st, num) == Become(c, Answered(st, num))

\* Past evict_if_needed: SET parses its options only now, so that a syntax error comes after
\* the eviction; NX and XX read the key first.
Admitted(r) ==
    IF r.cmd.cond = "bad" THEN Answered("error", 0)
    ELSE [r EXCEPT !.pc = IF r.cmd.cond # "" THEN "check" ELSE "insert",
                   !.need = 0, !.freed = 0, !.tries = 0]

\* Mutant of Incremented: the addition is not checked.
IncrementedUnchecked(r, v, exp, size) ==
    LET new == v + r.cmd.delta
        net == Size(new) - size
        s == [r EXCEPT !.args = <<<<Head(r.args)[1], new>>>>, !.exp = exp, !.old = 0]
    IN IF net > 0 THEN [s EXCEPT !.pc = "evict", !.need = net] ELSE [s EXCEPT !.pc = "insert"]

\* The rest of handle_incr once the old value v, its expiry and its size are known.
Incremented(r, v, exp, size) ==
    LET new == v + r.cmd.delta
        net == Size(new) - size
        s == [r EXCEPT !.args = <<<<Head(r.args)[1], new>>>>, !.exp = exp, !.old = 0]
    IN IF new \notin I64 THEN Answered("overflow", 0)
       ELSE IF net > 0 THEN [s EXCEPT !.pc = "evict", !.need = net]
       ELSE [s EXCEPT !.pc = "insert"]

\* Where a handler goes on when its key is absent, or was expired and has been dropped.
WithoutKey(r) ==
    CASE r.cmd.name = "INCR" -> Incremented(r, 0, Never, 0)
      [] r.cmd.name = "none" -> [r EXCEPT !.pc = "sample", !.args = <<>>, !.old = 0]
      [] OTHER -> Answered("nil", 0)

----------------------------------------------------------------------------
(* The connection loop. *)

\* The loop takes its timestamp, then waits for the next command.
CaptureNow(c) ==
    /\ At(c, "loop")
    /\ Become(c, [th[c] EXCEPT !.pc = "wait", !.now = clock, !.reply = NoReply])
    /\ UNCHANGED <<db, mem, clock, flushed>>

FirstStep(m) ==
    CASE m.name = "SET" -> "evict"
      [] m.name = "MSET" -> "net"
      [] m.name = "INCR" -> "read"
      [] m.name = "GET" -> "get"
      [] m.name = "DEL" -> "delete"
      [] m.name = "EXPIRE" -> IF m.ttl > 0 THEN "expire" ELSE "delete"
      [] m.name = "PERSIST" -> "persist"
      [] m.name = "FLUSH" -> "sum"

\* Mutant of Seconds: a second more than the whole seconds of PX.
SecondsPastWhole(m) == IF m.px > 0 THEN m.px \div Millis + 1 ELSE m.ttl

\* The seconds SET's options ask for: EX gives them, PX is rounded up (div_ceil).
Seconds(m) == IF m.px > 0 THEN (m.px + Millis - 1) \div Millis ELSE m.ttl

\* A command arrives; everything up to the first shared access is local.  SET computes
\* its expiry and its size, FLUSHDB takes a timestamp of its own.
Receive(c, m) ==
    /\ At(c, "wait")
    /\ Become(c, [th[c] EXCEPT
            !.pc = FirstStep(m),
            !.cmd = m,
            !.args = m.args,
            !.now = IF m.name = "FLUSH" THEN clock ELSE @,
            !.exp = IF m.name = "SET" /\ Seconds(m) > 0 THEN th[c].now + Seconds(m) ELSE Never,
            !.need = IF m.name = "SET" THEN Size(m.args[1][2]) ELSE 0,
            !.keys = IF m.name = "FLUSH" THEN Keys ELSE {}])
    /\ flushed' = (flushed \/ m.name = "FLUSH")
    /\ UNCHANGED <<db, mem, clock>>

----------------------------------------------------------------------------
(* Eviction. *)

\* Mutant of Fits: the entry that is about to come is not counted.
FitsNow(n) == mem % U64 <= MaxMemory

\* The test of evict_if_needed, before and after its loop; the sum wraps.
Fits(n) == (mem + n) % U64 <= MaxMemory

\* evict_if_needed, up to its loop.
EvictIfNeeded(c) ==
    /\ At(c, "evict")
    /\ Become(c, IF Fits(th[c].need) THEN Admitted(th[c])
                 ELSE IF ~Evicting THEN Answered("oom", 0)
                 ELSE [th[c] EXCEPT !.pc = "sampling"])
    /\ UNCHANGED <<db, mem, clock, flushed>>

\* One sampling of evict_lru or evict_random: some present key, or none when the shards
\* it picked were empty.
EvictSample(c) ==
    /\ At(c, "sampling")
    /\ th[c].freed < th[c].need /\ th[c].tries < MaxAttempts
    /\ \E S \in {{}} \cup {{k} : k \in DOMAIN db} :
         Become(c, [th[c] EXCEPT !.pc = IF S = {} THEN "recheck" ELSE "victim",
                                 !.tries = @ + 1, !.keys = S])
    /\ UNCHANGED <<db, mem, clock, flushed>>

\* Mutant of EvictRemove: the size is taken from the sample, gone or not.
EvictRemoveTrusts(c) ==
    /\ At(c, "victim")
    /\ \E k \in th[c].keys :
         /\ Remove(k)
         /\ Become(c, [th[c] EXCEPT !.pc = "evicted", !.old = MaxSize, !.keys = {}])
    /\ UNCHANGED <<mem, clock, flushed>>

\* The victim may be gone, or be another entry, by the time it is removed.
EvictRemove(c) ==
    /\ At(c, "victim")
    /\ \E k \in th[c].keys :
         IF k \in DOMAIN db
         THEN /\ Remove(k)
              /\ Become(c, [th[c] EXCEPT !.pc = "evicted", !.old = Size(db[k].val), !.keys = {}])
         ELSE /\ Become(c, [th[c] EXCEPT !.pc = "recheck", !.keys = {}])
              /\ UNCHANGED db
    /\ UNCHANGED <<mem, clock, flushed>>

EvictAccount(c) ==
    /\ At(c, "evicted")
    /\ Plus(-th[c].old)
    /\ Become(c, [th[c] EXCEPT !.pc = "sampling", !.freed = @ + th[c].old, !.old = 0])
    /\ UNCHANGED <<db, clock, flushed>>

\* The loop is over: enough was freed, too many attempts, or nothing found.
EvictRecheck(c) ==
    /\ \/ At(c, "recheck")
       \/ At(c, "sampling") /\ ~(th[c].freed < th[c].need /\ th[c].tries < MaxAttempts)
    /\ Become(c, IF Fits(th[c].need) THEN Admitted(th[c]) ELSE Answered("oom", 0))
    /\ UNCHANGED <<db, mem, clock, flushed>>

----------------------------------------------------------------------------
(* SET, MSET, INCR. *)

\* SET NX / SET XX look the key up before, and apart from, the insert.
CheckCondition(c) ==
    /\ At(c, "check")
    /\ LET exists == Live(Key(c), th[c].now)
       IN IF (th[c].cmd.cond = "NX" /\ exists) \/ (th[c].cmd.cond = "XX" /\ ~exists)
          THEN Answer(c, "nil", 0)
          ELSE Become(c, [th[c] EXCEPT !.pc = "insert"])
    /\ UNCHANGED <<db, mem, clock, flushed>>

\* MSET adds up the net growth pair by pair (get_existing_size); n counts the pairs read.
MsetNet(c) ==
    /\ At(c, "net")
    /\ LET i == th[c].n + 1
           k == th[c].args[i][1]
           net == th[c].need + Size(th[c].args[i][2])
                    - (IF Live(k, th[c].now) THEN Size(db[k].val) ELSE 0)
       IN Become(c, IF i < Len(th[c].args) THEN [th[c] EXCEPT !.n = i, !.need = net]
                    ELSE IF net > 0 THEN [th[c] EXCEPT !.pc = "evict", !.n = 0, !.need = net]
                    ELSE [th[c] EXCEPT !.pc = "insert", !.n = 0, !.need = 0])
    /\ UNCHANGED <<db, mem, clock, flushed>>

\* ShardedStore::set: insert returns the entry it replaced.
Insert(c) ==
    /\ At(c, "insert")
    /\ Put(Key(c), [val |-> Val(c), exp |-> th[c].exp])
    /\ Become(c, IF Key(c) \in DOMAIN db
                 THEN [th[c] EXCEPT !.pc = "subtract", !.old = Size(db[Key(c)].val)]
                 ELSE [th[c] EXCEPT !.pc = "add"])
    /\ UNCHANGED <<mem, clock, flushed>>

SubtractOld(c) ==
    /\ At(c, "subtract")
    /\ Plus(-th[c].old)
    /\ Become(c, [th[c] EXCEPT !.pc = "add", !.old = 0])
    /\ UNCHANGED <<db, clock, flushed>>

AddNew(c) ==
    /\ At(c, "add")
    /\ Plus(Size(Val(c)))
    /\ IF Len(th[c].args) > 1
       THEN Become(c, [th[c] EXCEPT !.pc = "insert", !.args = Tail(@)])
       ELSE Answer(c, "ok", Val(c))
    /\ UNCHANGED <<db, clock, flushed>>

----------------------------------------------------------------------------
(* Reads, lazy expiry, DEL, EXPIRE, PERSIST. *)

\* ShardedStore::get for GET; TTL, PTTL and TYPE treat expiry alike.
GetKey(c) ==
    /\ At(c, "get")
    /\ Become(c,
         IF Key(c) \notin DOMAIN db THEN WithoutKey(th[c])
         ELSE IF Expired(db[Key(c)], th[c].now) THEN [th[c] EXCEPT !.pc = "lazy"]
         ELSE Answered("ok", db[Key(c)].val))
    /\ UNCHANGED <<db, mem, clock, flushed>>

\* The read of INCR: value, expiry and size of the entry at one moment.
ReadCounter(c) ==
    /\ At(c, "read")
    /\ Become(c,
         IF Key(c) \notin DOMAIN db THEN WithoutKey(th[c])
         ELSE IF Expired(db[Key(c)], th[c].now) THEN [th[c] EXCEPT !.pc = "lazy"]
         ELSE IF ~Parses(db[Key(c)].val) THEN Answered("error", 0)
         ELSE Incremented(th[c], db[Key(c)].val, db[Key(c)].exp, Size(db[Key(c)].val)))
    /\ UNCHANGED <<db, mem, clock, flushed>>

\* Mutant of LazyRemove: remove instead of remove_if.
LazyRemoveAny(c) ==
    /\ At(c, "lazy")
    /\ IF Key(c) \in DOMAIN db
       THEN /\ Remove(Key(c))
            /\ Become(c, [th[c] EXCEPT !.pc = "lazied", !.old = Size(db[Key(c)].val)])
       ELSE /\ Become(c, WithoutKey(th[c]))
            /\ UNCHANGED db
    /\ UNCHANGED <<mem, clock, flushed>>

\* remove_if: the entry is dropped only if the one that is there now is expired.
LazyRemove(c) ==
    /\ At(c, "lazy")
    /\ IF Key(c) \in DOMAIN db /\ Expired(db[Key(c)], th[c].now)
       THEN /\ Remove(Key(c))
            /\ Become(c, [th[c] EXCEPT !.pc = "lazied", !.old = Size(db[Key(c)].val)])
       ELSE /\ Become(c, WithoutKey(th[c]))
            /\ UNCHANGED db
    /\ UNCHANGED <<mem, clock, flushed>>

\* Mutant of LazyAccount: an entry that expired is not given back.
LazyAccountForgotten(c) ==
    /\ At(c, "lazied")
    /\ Become(c, WithoutKey(th[c]))
    /\ UNCHANGED <<db, mem, clock, flushed>>

LazyAccount(c) ==
    /\ At(c, "lazied")
    /\ Plus(-th[c].old)
    /\ Become(c, WithoutKey(th[c]))
    /\ UNCHANGED <<db, clock, flushed>>

\* The next key of ShardedStore::delete; n counts the ones that had not expired.
NextDelete(r) ==
    IF Len(r.args) > 1 THEN [r EXCEPT !.pc = "delete", !.args = Tail(@), !.old = 0]
    ELSE Answered("ok", r.n)

DeleteKey(c) ==
    /\ At(c, "delete")
    /\ IF Key(c) \in DOMAIN db
       THEN /\ Remove(Key(c))
            /\ Become(c, [th[c] EXCEPT !.pc = "deleted", !.old = Size(db[Key(c)].val),
                                       !.n = @ + IF Expired(db[Key(c)], th[c].now) THEN 0 ELSE 1])
       ELSE /\ Become(c, NextDelete(th[c]))
            /\ UNCHANGED db
    /\ UNCHANGED <<mem, clock, flushed>>

DeleteAccount(c) ==
    /\ At(c, "deleted")
    /\ Plus(-th[c].old)
    /\ Become(c, NextDelete(th[c]))
    /\ UNCHANGED <<db, clock, flushed>>

\* EXPIRE and PERSIST change the expiry in place (get_mut).
ExpireKey(c) ==
    /\ At(c, "expire")
    /\ IF Live(Key(c), th[c].now)
       THEN /\ db' = [db EXCEPT ![Key(c)].exp = th[c].now + th[c].cmd.ttl]
            /\ Answer(c, "ok", 1)
       ELSE /\ Become(c, IF Key(c) \in DOMAIN db THEN [th[c] EXCEPT !.pc = "lazy"] ELSE Answered("nil", 0))
            /\ UNCHANGED db
    /\ UNCHANGED <<mem, clock, flushed>>

PersistKey(c) ==
    /\ At(c, "persist")
    /\ IF Live(Key(c), th[c].now) /\ db[Key(c)].exp # Never
       THEN /\ db' = [db EXCEPT ![Key(c)].exp = Never]
            /\ Answer(c, "ok", 1)
       ELSE /\ Become(c, IF Key(c) \in DOMAIN db /\ db[Key(c)].exp # Never
                         THEN [th[c] EXCEPT !.pc = "lazy"] ELSE Answered("nil", 0))
            /\ UNCHANGED db
    /\ UNCHANGED <<mem, clock, flushed>>

----------------------------------------------------------------------------
(* FLUSHDB and FLUSHALL. *)

\* The walk that adds up what clear() will free, expired keys left out; in need.
FlushSum(c, k) ==
    /\ At(c, "sum")
    /\ k \in th[c].keys
    /\ LET rest == th[c].keys \ {k}
       IN Become(c, [th[c] EXCEPT
            !.need = @ + (IF Live(k, th[c].now) THEN Size(db[k].val) ELSE 0),
            !.keys = IF rest = {} THEN Keys ELSE rest,
            !.pc = IF rest = {} THEN "clear" ELSE @])
    /\ UNCHANGED <<db, mem, clock, flushed>>

\* clear() empties shard after shard.
FlushClear(c, k) ==
    /\ At(c, "clear")
    /\ k \in th[c].keys
    /\ Remove(k)
    /\ Become(c, [th[c] EXCEPT !.keys = @ \ {k}, !.pc = IF th[c].keys = {k} THEN "cas" ELSE @])
    /\ UNCHANGED <<mem, clock, flushed>>

\* The compare-exchange loop: an atomic subtraction that stops at zero.
FlushAccount(c) ==
    /\ At(c, "cas")
    /\ mem' = IF th[c].need >= mem THEN 0 ELSE mem - th[c].need
    /\ Answer(c, "ok", 0)
    /\ UNCHANGED <<db, clock, flushed>>

----------------------------------------------------------------------------
(* Passive expiration. *)

\* expire_random_keys takes its timestamp once per round.
ExpirerTick ==
    /\ At(Expirer, "loop")
    /\ Become(Expirer, [Idle EXCEPT !.pc = "sample", !.now = clock])
    /\ UNCHANGED <<db, mem, clock, flushed>>

\* A sampled entry that is expired is dropped with remove_if.
ExpirerSample(k) ==
    /\ At(Expirer, "sample")
    /\ k \in DOMAIN db
    /\ Expired(db[k], th[Expirer].now)
    /\ Become(Expirer, [th[Expirer] EXCEPT !.pc = "lazy", !.args = <<<<k, 0>>>>])
    /\ UNCHANGED <<db, mem, clock, flushed>>

ExpirerRoundEnds ==
    /\ At(Expirer, "sample")
    /\ Become(Expirer, Idle)
    /\ UNCHANGED <<db, mem, clock, flushed>>

Tick ==
    /\ clock < MaxClock
    /\ clock' = clock + 1
    /\ UNCHANGED <<db, mem, th, flushed>>

----------------------------------------------------------------------------

HandlerStep(c) ==
    \/ EvictIfNeeded(c) \/ EvictSample(c) \/ EvictRemove(c) \/ EvictAccount(c) \/ EvictRecheck(c)
    \/ CheckCondition(c) \/ MsetNet(c) \/ Insert(c) \/ SubtractOld(c) \/ AddNew(c)
    \/ GetKey(c) \/ ReadCounter(c) \/ LazyRemove(c) \/ LazyAccount(c)
    \/ DeleteKey(c) \/ DeleteAccount(c) \/ ExpireKey(c) \/ PersistKey(c)
    \/ \E k \in Keys : FlushSum(c, k) \/ FlushClear(c, k)
    \/ FlushAccount(c)

Next ==
    \/ \E c \in Conns : CaptureNow(c) \/ (\E m \in Commands : Receive(c, m))
    \/ \E c \in Threads : HandlerStep(c)
    \/ ExpirerTick \/ (\E k \in Keys : ExpirerSample(k)) \/ ExpirerRoundEnds
    \/ Tick

Spec == Init /\ [][Next]_vars

----------------------------------------------------------------------------
(* Properties. *)

Pcs == {"loop", "wait", "evict", "sampling", "victim", "evicted", "recheck", "check", "net",
        "insert", "subtract", "add", "get", "read", "lazy", "lazied", "delete", "deleted", "expire", "persist",
        "sum", "clear", "cas", "sample"}

\* Every variable stays in its range; in particular no stored value leaves the i64 range.
TypeOK ==
    /\ db \in UNION {[S -> Entries] : S \in SUBSET Keys}
    /\ mem \in 0..(U64 - 1)
    /\ clock \in 0..MaxClock
    /\ flushed \in BOOLEAN
    /\ \A c \in Threads :
         /\ th[c].pc \in Pcs
         /\ th[c].cmd \in CommandType \cup {NoCommand}
         /\ th[c].args \in Seq(Keys \X Values)
         /\ th[c].now \in 0..MaxClock
         /\ th[c].exp \in 0..Never
         /\ th[c].keys \in SUBSET Keys

\* The sum of a function whose values are sizes: its units, counted one by one.
Units(f) == {u \in (DOMAIN f) \X (1..MaxSize) : u[2] <= f[u[1]]}
SumOf(f) == Cardinality(Units(f))

\* What the map holds, and what the threads still have to add and to subtract for it.
Sizes == [k \in DOMAIN db |-> Size(db[k].val)]
Total == SumOf(Sizes)
ToAdd(r) == IF r.pc \in {"subtract", "add"} THEN Size(Head(r.args)[2]) ELSE 0
ToSubtract(r) == IF r.pc \in {"subtract", "evicted", "lazied", "deleted"} THEN r.old ELSE 0
Adding == [c \in Threads |-> ToAdd(th[c])]
Subtracting == [c \in Threads |-> ToSubtract(th[c])]

\* MEMORY_USED plus what the running handlers still owe is the size of the map, modulo
\* 2^64: no interleaving of SET, INCR, MSET, DEL, expiry and eviction loses or invents
\* memory.  FLUSHDB does: it may subtract more or less than it removed.
MemoryConserved ==
    ~flushed => (mem + SumOf(Adding) - SumOf(Subtracting)) % U64 = Total % U64

\* An entry whose time has not come is removed by DEL, eviction or FLUSHDB only: lazy and
\* passive expiry never take a fresh entry, although they decide on an older read.
NoPrematureExpiry ==
    [][\A k \in DOMAIN db \ DOMAIN db' :
         clock < db[k].exp =>
            \E c \in Threads : th[c].pc \in {"delete", "victim", "clear"} /\ th'[c] # th[c]]_vars

\* With SET and DEL the limit is soft by one entry for each other connection: the test of
\* evict_if_needed and the insert are apart, and at most one entry per connection lies
\* between them.
SoftLimit == Total <= MaxMemory + (Cardinality(Conns) - 1) * MaxSize

\* tests/unit_tests.rs:936: "the actual INCR command in main.rs handles this correctly":
\* two increments of a counter never return the same number.
IncrementsDistinct ==
    \A c, d \in Conns :
        c # d /\ th[c].reply.status = "ok" /\ th[d].reply.status = "ok" => th[c].reply.n # th[d].reply.n

\* A stale timestamp shortens a life and never lengthens it: the loop takes the time before
\* it waits for the command, and whatever passes until the entry is written, SET EX and
\* EXPIRE set no expiry later than the present plus the seconds they were given.  SET PX may
\* round up, by less than a second: docs/FEATURES.md:27 promises milliseconds.
ExpiryNotLate ==
    [][\A c \in Conns :
         LET m == th[c].cmd
             life == db'[Key(c)].exp - clock
         IN /\ Insert(c) /\ m.name = "SET" /\ m.px > 0 => Millis * life < m.px + Millis
            /\ Insert(c) /\ m.name = "SET" /\ m.px = 0 /\ m.ttl > 0 => life <= m.ttl
            /\ ExpireKey(c) /\ Live(Key(c), th[c].now) => life <= m.ttl]_vars
=============================================================================
