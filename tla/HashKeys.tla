------------------------------ MODULE HashKeys ------------------------------
(***************************************************************************)
(* HSET, HGET, HGETALL and HDEL of src/store.rs on one key, with the other  *)
(* commands that change the entry of that key.                              *)
(*                                                                          *)
(* A hash is an Arc<RwLock<HashMap>>: an object of Objs that the entry and  *)
(* any number of handlers may share, so it can outlive its entry.  An       *)
(* action is one critical section: of the shard lock (entry, remove), or of *)
(* the lock inside the hash, which the shard lock does not protect: HDEL    *)
(* holds the shard from its test to its removal (pc "remove") while an HSET *)
(* that has the Arc can fill the hash.  The additions to MEMORY_USED        *)
(* commute and no hash command reads it, so each happens together with the  *)
(* reading of the size it is computed from.                                 *)
(*                                                                          *)
(* A hash is the set of its bytes: <<f, 0>> is the name of field f, a name  *)
(* of one byte, and <<f, 1>>, <<f, 2>>, ... are the bytes of its value.     *)
(***************************************************************************)
EXTENDS Integers, FiniteSets

CONSTANTS
    Conns,        \* connection tasks
    Fields,       \* field names
    MaxLen,       \* bound on the length of a value
    Objs,         \* hash objects: enough for each handler to hold one of its own
    Nil, Str,     \* no entry; a string value
    MaxCommands,  \* bound on the commands sent
    MaxClock      \* bound on the clock

ASSUME SetsAssumption ==
    /\ IsFiniteSet(Conns) /\ IsFiniteSet(Fields) /\ IsFiniteSet(Objs)
    /\ Cardinality(Objs) >= Cardinality(Conns)
    /\ Nil \notin Objs /\ Str \notin Objs /\ Nil # Str
ASSUME BoundsAssumption == MaxLen \in Nat /\ MaxCommands \in Nat /\ MaxClock \in Nat

VARIABLES
    entry,    \* the entry of the key: its value (Nil: none) and its expiry
    heap,     \* the bytes of every hash object
    readers,  \* connections with a read guard on the shard
    mem,      \* MEMORY_USED
    clock,    \* get_timestamp()
    th,       \* connection tasks
    sent,     \* commands so far
    shrunk    \* a command other than HSET and HGET has been sent, or an HSET has put shorter
              \* values into a hash than it had (history)

vars == <<entry, heap, readers, mem, clock, th, sent, shrunk>>

Never == MaxClock + 2
NoEntry == [val |-> Nil, exp |-> Never]
Idle == [pc |-> "idle", now |-> 0, fields |-> {}, put |-> {}, obj |-> Nil, old |-> 0,
         detached |-> FALSE, late |-> FALSE]

Bytes == Fields \X (0..MaxLen)
\* The bytes of the fields DOMAIN n when the value of f has length n[f].
Written(n) == {b \in Bytes : b[1] \in DOMAIN n /\ b[2] <= n[b[1]]}
Without(o, S) == {b \in heap[o] : b[1] \notin S}

Overhead == 2                  \* key_len + 64 + 128
StringSize == 1                \* entry_size
HashSize(o) == Overhead + Cardinality(heap[o])
SizeOf(v) == CASE v = Nil -> 0 [] v = Str -> StringSize [] OTHER -> HashSize(v)

Init ==
    /\ entry = NoEntry
    /\ heap = [o \in Objs |-> {}]
    /\ readers = {}
    /\ mem = 0
    /\ clock = 0
    /\ th = [c \in Conns |-> Idle]
    /\ sent = 0
    /\ shrunk = FALSE

----------------------------------------------------------------------------
At(c, p) == th[c].pc = p
Become(c, r) == th' = [th EXCEPT ![c] = r]
Answer(c) == Become(c, Idle)
Expired(t) == entry.val # Nil /\ t >= entry.exp
IsHash == entry.val \in Objs

\* The lock of the shard: HDEL keeps a read guard over several steps, and the write lock
\* from the test of remove_if to the removal.
MayRead == \A c \in Conns : ~At(c, "remove")
MayWrite == MayRead /\ readers = {}

\* The objects that the entry or a handler refers to.
InUse == {entry.val} \cup {th[c].obj : c \in Conns}

\* What the HSETs under way know when somebody takes the entry out of the map (history).
Detached == [c \in Conns |-> [th[c] EXCEPT !.detached = @ \/ (th[c].pc = "fill" /\ th[c].obj = entry.val)]]

\* Connection c has taken the entry out of the map; the size of what it got is read next.
Took(c) ==
    [Detached EXCEPT ![c] = IF entry.val = Nil THEN Idle ELSE [Idle EXCEPT !.pc = "taken", !.obj = entry.val]]

\* A command arrives.  Its timestamp was taken before the wait for it.
Receive(c, p, S, B) ==
    /\ At(c, "idle")
    /\ sent < MaxCommands
    /\ sent' = sent + 1
    /\ shrunk' = (shrunk \/ p \notin {"hset", "hget"})
    /\ \E t \in 0..clock : Become(c, [Idle EXCEPT !.pc = p, !.now = t, !.fields = S, !.put = B])
    /\ UNCHANGED <<entry, heap, readers, mem, clock>>

Tick ==
    /\ clock < MaxClock
    /\ clock' = clock + 1
    /\ UNCHANGED <<entry, heap, readers, mem, th, sent, shrunk>>

----------------------------------------------------------------------------
(* HSET. *)

\* The object that the HSET of c goes on with, and the size it takes as the old one.
WithObject(c, o, size) == [th[c] EXCEPT !.pc = "fill", !.now = 0, !.obj = o, !.old = size]

\* entry(): an expired entry is dropped and the lookup repeated.
HsetDropExpired(c) ==
    /\ At(c, "hset")
    /\ MayWrite
    /\ Expired(th[c].now)
    /\ mem' = mem - SizeOf(entry.val)
    /\ entry' = NoEntry
    /\ th' = Detached
    /\ UNCHANGED <<heap, readers, clock, sent, shrunk>>

\* Mutant of HsetEntry: a hash without fields is taken for no hash.
HsetEntryReplacesEmpty(c) ==
    /\ At(c, "hset")
    /\ MayWrite
    /\ ~Expired(th[c].now)
    /\ \/ /\ entry.val = Str
          /\ Answer(c)
          /\ UNCHANGED <<entry, heap>>
       \/ /\ IsHash /\ heap[entry.val] # {}
          /\ Become(c, WithObject(c, entry.val, HashSize(entry.val)))
          /\ UNCHANGED <<entry, heap>>
       \/ /\ entry.val = Nil \/ (IsHash /\ heap[entry.val] = {})
          /\ \E o \in Objs \ InUse :
               /\ entry' = [val |-> o, exp |-> Never]
               /\ heap' = [heap EXCEPT ![o] = {}]
               /\ Become(c, WithObject(c, o, 0))
    /\ UNCHANGED <<readers, mem, clock, sent, shrunk>>

\* entry(): the Arc of the hash is cloned, or a new empty hash is put into the map; a
\* string is refused.  Then the shard is unlocked.
HsetEntry(c) ==
    /\ At(c, "hset")
    /\ MayWrite
    /\ ~Expired(th[c].now)
    /\ \/ /\ entry.val = Str
          /\ Answer(c)
          /\ UNCHANGED <<entry, heap>>
       \/ /\ IsHash
          /\ Become(c, WithObject(c, entry.val, HashSize(entry.val)))
          /\ UNCHANGED <<entry, heap>>
       \/ /\ entry.val = Nil
          /\ \E o \in Objs \ InUse :
               /\ entry' = [val |-> o, exp |-> Never]
               /\ heap' = [heap EXCEPT ![o] = {}]
               /\ Become(c, WithObject(c, o, 0))
    /\ UNCHANGED <<readers, mem, clock, sent, shrunk>>

\* What HSET leaves of the hash: an old value of its fields is replaced.
Filled(c) == Without(th[c].obj, th[c].fields) \cup th[c].put

\* Mutant of HsetFill: the old size is taken when the fields are already there.
HsetFillMeasuresLate(c) ==
    /\ At(c, "fill")
    /\ heap' = [heap EXCEPT ![th[c].obj] = Filled(c)]
    /\ shrunk' = (shrunk \/ Cardinality(Filled(c)) < Cardinality(heap[th[c].obj]))
    /\ Become(c, [Idle EXCEPT !.pc = "grown", !.obj = th[c].obj,
                              !.old = IF th[c].old = 0 THEN 0 ELSE Overhead + Cardinality(Filled(c))])
    /\ UNCHANGED <<entry, readers, mem, clock, sent>>

\* The fields are inserted under the write lock of the hash.  An HDEL that is about to remove
\* this hash as an empty one does not notice (late is history).
HsetFill(c) ==
    /\ At(c, "fill")
    /\ heap' = [heap EXCEPT ![th[c].obj] = Filled(c)]
    /\ shrunk' = (shrunk \/ Cardinality(Filled(c)) < Cardinality(heap[th[c].obj]))
    /\ th' = [d \in Conns |->
                IF d = c THEN [Idle EXCEPT !.pc = "grown", !.obj = th[c].obj, !.old = th[c].old]
                ELSE [th[d] EXCEPT !.late = @ \/ (th[d].pc = "remove" /\ th[c].obj = entry.val)]]
    /\ UNCHANGED <<entry, readers, mem, clock, sent>>

\* The new size is read under a lock of its own, and the difference added.
HsetAccount(c) ==
    /\ At(c, "grown")
    /\ mem' = mem + HashSize(th[c].obj) - th[c].old
    /\ Answer(c)
    /\ UNCHANGED <<entry, heap, readers, clock, sent, shrunk>>
----------------------------------------------------------------------------
(* HGET, HGETALL and HDEL. *)

\* get() finds nothing, or something that is not a hash; or an expired entry, for which
\* the guard is dropped first.
NotFound(c) ==
    /\ Become(c, IF Expired(th[c].now) THEN [Idle EXCEPT !.pc = "lazy", !.now = th[c].now] ELSE Idle)
    /\ UNCHANGED <<entry, heap, readers, mem, clock, sent, shrunk>>

\* HGET and HGETALL read under the guard and the read lock of the hash.
HgetRead(c) ==
    /\ At(c, "hget")
    /\ MayRead
    /\ NotFound(c)

\* remove_if with the expiry test, after which the reply is empty.
LazyRemove(c) ==
    /\ At(c, "lazy")
    /\ MayWrite
    /\ IF Expired(th[c].now) THEN th' = Took(c) /\ entry' = NoEntry
                             ELSE Answer(c) /\ UNCHANGED entry
    /\ UNCHANGED <<heap, readers, mem, clock, sent, shrunk>>

\* The shard is unlocked; what was taken out of the map is measured and subtracted.
Discount(c) ==
    /\ At(c, "taken")
    /\ mem' = mem - SizeOf(th[c].obj)
    /\ Answer(c)
    /\ UNCHANGED <<entry, heap, readers, clock, sent, shrunk>>

\* HDEL keeps its guard while it looks into the hash.
HdelGet(c) ==
    /\ At(c, "hdel")
    /\ MayRead
    /\ IF IsHash /\ ~Expired(th[c].now)
       THEN /\ readers' = readers \cup {c}
            /\ Become(c, [th[c] EXCEPT !.pc = "strip", !.now = 0, !.obj = entry.val, !.old = HashSize(entry.val)])
            /\ UNCHANGED <<entry, heap, mem, clock, sent, shrunk>>
       ELSE NotFound(c)

\* HDEL after its removals: it has removed nothing, the last field, or some.
Stripped(c, next) ==
    CASE next = "idle"   -> Idle
      [] next = "sweep"  -> [Idle EXCEPT !.pc = "sweep", !.old = th[c].old]
      [] next = "shrink" -> [Idle EXCEPT !.pc = "shrink", !.old = th[c].old, !.obj = th[c].obj]

\* Mutant of HdelStrip: emptiness is tested before the fields are removed.
HdelStripTestsFirst(c) ==
    /\ At(c, "strip")
    /\ LET o == th[c].obj
           kept == Without(o, th[c].fields)
           next == IF kept = heap[o] THEN "idle" ELSE IF heap[o] = {} THEN "sweep" ELSE "shrink"
       IN /\ heap' = [heap EXCEPT ![o] = kept]
          /\ readers' = IF next = "shrink" THEN readers ELSE readers \ {c}
          /\ Become(c, Stripped(c, next))
    /\ UNCHANGED <<entry, mem, clock, sent, shrunk>>

\* The fields go under the write lock of the hash; the guard is dropped unless the size
\* of the hash is still needed.
HdelStrip(c) ==
    /\ At(c, "strip")
    /\ LET o == th[c].obj
           kept == Without(o, th[c].fields)
           next == IF kept = heap[o] THEN "idle" ELSE IF kept = {} THEN "sweep" ELSE "shrink"
       IN /\ heap' = [heap EXCEPT ![o] = kept]
          /\ readers' = IF next = "shrink" THEN readers ELSE readers \ {c}
          /\ Become(c, Stripped(c, next))
    /\ UNCHANGED <<entry, mem, clock, sent, shrunk>>

HdelAccount(c) ==
    /\ At(c, "shrink")
    /\ mem' = IF th[c].old > HashSize(th[c].obj) THEN mem - (th[c].old - HashSize(th[c].obj)) ELSE mem
    /\ readers' = readers \ {c}
    /\ Answer(c)
    /\ UNCHANGED <<entry, heap, clock, sent, shrunk>>

\* remove_if: the predicate looks at whatever hash is there now, under a read lock that it
\* gives back.  If it has fields, the bytes of the removed ones are subtracted.
HdelSweep(c) ==
    /\ At(c, "sweep")
    /\ MayWrite
    /\ IF IsHash /\ heap[entry.val] = {}
       THEN /\ Become(c, [Idle EXCEPT !.pc = "remove"])
            /\ UNCHANGED mem
       ELSE /\ mem' = mem - (th[c].old - Overhead)
            /\ Answer(c)
    /\ UNCHANGED <<entry, heap, readers, clock, sent, shrunk>>

\* ... and the entry goes, with what the hash has got by then.
HdelRemove(c) ==
    /\ At(c, "remove")
    /\ th' = Took(c)
    /\ entry' = NoEntry
    /\ UNCHANGED <<heap, readers, mem, clock, sent, shrunk>>

----------------------------------------------------------------------------
(* The other commands that change the entry: one critical section of the    *)
(* shard each (Keyspace has their steps).                                   *)

\* DEL, and likewise eviction.
DelKey(c) ==
    /\ At(c, "del")
    /\ MayWrite
    /\ th' = Took(c)
    /\ entry' = NoEntry
    /\ UNCHANGED <<heap, readers, mem, clock, sent, shrunk>>

\* SET replaces a hash by a string.
SetKey(c) ==
    /\ At(c, "set")
    /\ MayWrite
    /\ th' = Took(c)
    /\ entry' = [val |-> Str, exp |-> Never]
    /\ mem' = mem + StringSize
    /\ UNCHANGED <<heap, readers, clock, sent, shrunk>>

\* EXPIRE by one second, for an entry that has not expired.
ExpireKey(c) ==
    /\ At(c, "expire")
    /\ MayWrite
    /\ Become(c, IF Expired(th[c].now) THEN [Idle EXCEPT !.pc = "lazy", !.now = th[c].now] ELSE Idle)
    /\ entry' = IF entry.val = Nil \/ Expired(th[c].now) THEN entry
                ELSE [entry EXCEPT !.exp = th[c].now + 1]
    /\ UNCHANGED <<heap, readers, mem, clock, sent, shrunk>>

----------------------------------------------------------------------------
HandlerStep(c) ==
    \/ HsetDropExpired(c) \/ HsetEntry(c) \/ HsetFill(c) \/ HsetAccount(c)
    \/ HgetRead(c) \/ LazyRemove(c) \/ Discount(c)
    \/ HdelGet(c) \/ HdelStrip(c) \/ HdelAccount(c) \/ HdelSweep(c) \/ HdelRemove(c)
    \/ DelKey(c) \/ SetKey(c) \/ ExpireKey(c)

Next ==
    \/ \E c \in Conns, S \in (SUBSET Fields) \ {{}} :
         (\E n \in [S -> 0..MaxLen] : Receive(c, "hset", S, Written(n))) \/ Receive(c, "hdel", S, {})
    \/ \E c \in Conns, p \in {"hget", "del", "set", "expire"} : Receive(c, p, {}, {})
    \/ \E c \in Conns : HandlerStep(c)
    \/ Tick

Spec == Init /\ [][Next]_vars

----------------------------------------------------------------------------
(* Properties. *)

\* Every variable stays in its range.
TypeOK ==
    /\ entry \in [val: Objs \cup {Nil, Str}, exp: 1..Never]
    /\ heap \in [Objs -> SUBSET Bytes]
    /\ readers \subseteq Conns
    /\ mem \in Int
    /\ clock \in 0..MaxClock
    /\ th \in [Conns -> [pc: {"idle", "hset", "fill", "grown", "hget", "lazy", "taken", "hdel", "strip", "shrink",
                              "sweep", "remove", "del", "set", "expire"},
                         now: 0..MaxClock, fields: SUBSET Fields, put: SUBSET Bytes, obj: Objs \cup {Nil, Str},
                         old: Nat, detached: BOOLEAN, late: BOOLEAN]]
    /\ sent \in 0..MaxCommands
    /\ shrunk \in BOOLEAN

Quiet == \A c \in Conns : At(c, "idle")

\* HSET puts its fields into the hash that the key holds, although it let go of the shard
\* after looking it up; the exception is a key that another command removed or replaced
\* in between.  Two HSETs of an absent key never end up with a hash each.
HsetReachesStore ==
    [][\A c \in Conns : HsetFill(c) => th[c].obj = entry.val \/ th[c].detached]_vars

\* A hash with fields leaves the map only by a command for the whole key, by expiry, or by
\* an HDEL that found it empty and removes it after an HSET has filled it: the test and the
\* removal of remove_if are one critical section of the shard, not of the hash.
SweepTakesOnlyLate ==
    [][IsHash /\ entry'.val # entry.val /\ heap[entry.val] # {} =>
         \E c \in Conns : \/ DelKey(c) \/ SetKey(c) \/ LazyRemove(c) \/ HsetDropExpired(c)
                         \/ (HdelRemove(c) /\ th[c].late)]_vars

\* When no command runs, the key has no hash without fields: whoever removes the last field
\* also removes the key, or somebody has added a field by then.
NoEmptyHash == Quiet /\ IsHash => heap[entry.val] # {}

\* While HSETs and reads have been the only commands and no HSET has made a hash smaller,
\* MEMORY_USED is never too small when no command runs: overlapping HSETs may count growth
\* twice, they never miss it.
GrowthCounted == Quiet /\ ~shrunk => mem >= SizeOf(entry.val)
=============================================================================
