------------------------------- MODULE S3Fifo -------------------------------
(***************************************************************************)
(* The S3-FIFO policy of src/store.rs: the small, main and ghost queues     *)
(* that one shard keeps beside its map.                                     *)
(*                                                                          *)
(* A thread is a connection task inside one operation.  One action is one   *)
(* critical section: of the lock of the queues, or of the map's lock on the *)
(* key.  A thread that holds a read guard on an entry (shard.get) keeps     *)
(* writers of that key away until it drops it; readers share.  An operation *)
(* that takes the queues' lock inside the map's write lock (HSET) is one    *)
(* action.  Time is left out: any entry may be found expired.  Keys stand   *)
(* for their hashes: two keys never collide in the ghost queue.             *)
(***************************************************************************)
EXTENDS Integers, Sequences, Functions

CONSTANTS
    Threads, Keys,
    SmallCapacity, MainCapacity, GhostCapacity

ASSUME CapacityAssumption ==
    {SmallCapacity, MainCapacity, GhostCapacity} \subseteq Nat \ {0}

VARIABLES
    db,          \* the map: queue_type and access_count of the keys that are present
    q,           \* S3FifoQueues
    th,          \* the threads
    overflowed,  \* keys whose last place in a queue was taken by a newer key (history)
    loose,       \* keys that entered the map while they were in no queue (history)
    tainted      \* keys two operations of which overlapped, or that expired (history)

vars == <<db, q, th, overflowed, loose, tainted>>

Idle == [pc |-> "idle", key |-> "none", type |-> "Small"]

----------------------------------------------------------------------------
(* The methods of S3FifoQueues. *)

\* VecDeque::retain of everything but k.
Without(s, k) ==
    LET kept[i \in 0..Len(s)] == IF i = 0 THEN <<>>
                                 ELSE IF s[i] = k THEN kept[i - 1] ELSE Append(kept[i - 1], s[i])
    IN kept[Len(s)]

RemoveFromSmall(qs, k) ==
    IF k \in qs.smallSet
    THEN [qs EXCEPT !.smallSet = @ \ {k}, !.small = Without(@, k)] ELSE qs

RemoveFromMain(qs, k) ==
    IF k \in qs.mainSet
    THEN [qs EXCEPT !.mainSet = @ \ {k}, !.main = Without(@, k)] ELSE qs

RemoveByType(qs, k, type) ==
    IF type = "Small" THEN RemoveFromSmall(qs, k) ELSE RemoveFromMain(qs, k)

\* A key that is there already stays where it is; at capacity the oldest key is dropped
\* from the queue (and stays in the map).
AddToSmall(qs, k) ==
    LET full == Len(qs.small) >= SmallCapacity
        kept == IF full THEN Tail(qs.small) ELSE qs.small
        set == IF full THEN qs.smallSet \ {Head(qs.small)} ELSE qs.smallSet
    IN IF k \in qs.smallSet THEN qs
       ELSE [qs EXCEPT !.small = Append(kept, k), !.smallSet = set \cup {k}]

AddToMain(qs, k) ==
    LET full == Len(qs.main) >= MainCapacity
        kept == IF full THEN Tail(qs.main) ELSE qs.main
        set == IF full THEN qs.mainSet \ {Head(qs.main)} ELSE qs.mainSet
    IN IF k \in qs.mainSet THEN qs
       ELSE [qs EXCEPT !.main = Append(kept, k), !.mainSet = set \cup {k}]

ReinsertMainTail(qs, k) ==
    IF qs.main # <<>> /\ qs.main[Len(qs.main)] = k THEN qs ELSE AddToMain(RemoveFromMain(qs, k), k)

\* No test for a key that is there already.
AddToGhost(qs, k) ==
    LET full == Len(qs.ghost) >= GhostCapacity
        kept == IF full THEN Tail(qs.ghost) ELSE qs.ghost
        set == IF full THEN qs.ghostSet \ {Head(qs.ghost)} ELSE qs.ghostSet
    IN [qs EXCEPT !.ghost = Append(kept, k), !.ghostSet = set \cup {k}]

RemoveFromGhost(qs, k) ==
    IF k \in qs.ghostSet
    THEN [qs EXCEPT !.ghostSet = @ \ {k}, !.ghost = Without(@, k)] ELSE qs

\* Mutant of Placed: the ghost queue is not looked at.
PlacedInSmall(qs, k) == AddToSmall(qs, k)

\* Where a key that is written goes: a key that was evicted lately goes to the main queue.
Placed(qs, k) ==
    IF k \in qs.ghostSet THEN AddToMain(RemoveFromGhost(qs, k), k) ELSE AddToSmall(qs, k)
PlacedType(qs, k) == IF k \in qs.ghostSet THEN "Main" ELSE "Small"

----------------------------------------------------------------------------

Queued(qs) == qs.smallSet \cup qs.mainSet

\* load_snapshot fills the map and leaves the queues empty.
Init ==
    /\ \E L \in SUBSET Keys :
         /\ db = [k \in L |-> [type |-> "Small", count |-> 0]]
         /\ loose = L
    /\ q = [small |-> <<>>, main |-> <<>>, ghost |-> <<>>,
            smallSet |-> {}, mainSet |-> {}, ghostSet |-> {}]
    /\ th = [t \in Threads |-> Idle]
    /\ overflowed = {}
    /\ tainted = {}

At(t, p) == th[t].pc = p
Goto(t, p) == th' = [th EXCEPT ![t].pc = p]
Done(t) == th' = [th EXCEPT ![t] = Idle]

\* The pcs at which a thread holds a read guard on its key's entry.
Guarded == {"unqueue", "promote", "retype", "reinsert", "del_unqueue"}
NoReader(k) == \A t \in Threads : ~(th[t].key = k /\ th[t].pc \in Guarded)

Busy(k) == \E t \in Threads : th[t].key = k
Taint(k) == tainted' = IF Busy(k) THEN tainted \cup {k} ELSE tainted

\* What a step that puts k into a queue pushed out of them.
Overflow(k) == overflowed' = ((overflowed \ {k}) \cup (Queued(q) \ Queued(q'))) \ Queued(q')

Operations == {"read_set", "get", "read_del", "hset"}

\* A command on key k arrives.
Begin(t, op, k) ==
    /\ At(t, "idle")
    /\ th' = [th EXCEPT ![t] = [pc |-> op, key |-> k, type |-> "Small"]]
    /\ Taint(k)
    /\ UNCHANGED <<db, q, overflowed, loose>>

----------------------------------------------------------------------------
(* SET. *)

\* shard.get and the load of queue_type.
SetRead(t) ==
    /\ At(t, "read_set")
    /\ IF th[t].key \in DOMAIN db
       THEN th' = [th EXCEPT ![t].pc = "unqueue", ![t].type = db[th[t].key].type]
       ELSE Goto(t, "place")
    /\ UNCHANGED <<db, q, overflowed, loose, tainted>>

SetUnqueue(t) ==
    /\ At(t, "unqueue")
    /\ q' = RemoveByType(q, th[t].key, th[t].type)
    /\ Goto(t, "place")
    /\ UNCHANGED <<db, overflowed, loose, tainted>>

\* The queues' lock alone: the entry is not in the map yet.
SetPlace(t) ==
    /\ At(t, "place")
    /\ q' = Placed(q, th[t].key)
    /\ th' = [th EXCEPT ![t].pc = "insert", ![t].type = PlacedType(q, th[t].key)]
    /\ Overflow(th[t].key)
    /\ UNCHANGED <<db, loose, tainted>>

Put(k, type) ==
    /\ db' = [j \in DOMAIN db \cup {k} |-> IF j = k THEN [type |-> type, count |-> 0] ELSE db[j]]
    /\ loose' = IF k \in Queued(q') THEN loose \ {k} ELSE loose \cup {k}

SetInsert(t) ==
    /\ At(t, "insert")
    /\ NoReader(th[t].key)
    /\ UNCHANGED <<q, overflowed, tainted>>
    /\ Put(th[t].key, th[t].type)
    /\ Done(t)

----------------------------------------------------------------------------
(* GET. *)

\* shard.get, queue_type, and access_count of a key in the small queue: the second access
\* promotes it.  (The count is an u8; here it stays at 2.)
GetRead(t) ==
    /\ At(t, "get")
    /\ LET k == th[t].key
       IN IF k \notin DOMAIN db THEN Done(t) /\ UNCHANGED db
          ELSE IF db[k].type = "Main" THEN Goto(t, "reinsert") /\ UNCHANGED db
          ELSE /\ db' = [db EXCEPT ![k].count = IF @ < 2 THEN @ + 1 ELSE @]
               /\ IF db[k].count + 1 > 1 THEN Goto(t, "promote") ELSE Done(t)
    /\ UNCHANGED <<q, overflowed, loose, tainted>>

\* Mutant of GetPromote: the key leaves the small queue and enters none.
GetPromoteDrops(t) ==
    /\ At(t, "promote")
    /\ q' = RemoveFromSmall(q, th[t].key)
    /\ Goto(t, "retype")
    /\ UNCHANGED <<db, overflowed, loose, tainted>>

GetPromote(t) ==
    /\ At(t, "promote")
    /\ q' = AddToMain(RemoveFromSmall(q, th[t].key), th[t].key)
    /\ Overflow(th[t].key)
    /\ Goto(t, "retype")
    /\ UNCHANGED <<db, loose, tainted>>

\* Mutant of GetRetype: the entry is not told.
GetRetypeForgotten(t) ==
    /\ At(t, "retype")
    /\ Done(t)
    /\ UNCHANGED <<db, q, overflowed, loose, tainted>>

\* queue_type.store, still under the read guard.
GetRetype(t) ==
    /\ At(t, "retype")
    /\ db' = [db EXCEPT ![th[t].key].type = "Main"]
    /\ Done(t)
    /\ UNCHANGED <<q, overflowed, loose, tainted>>

GetReinsert(t) ==
    /\ At(t, "reinsert")
    /\ q' = ReinsertMainTail(q, th[t].key)
    /\ Overflow(th[t].key)
    /\ Done(t)
    /\ UNCHANGED <<db, loose, tainted>>

----------------------------------------------------------------------------
(* DEL. *)

DelRead(t) ==
    /\ At(t, "read_del")
    /\ IF th[t].key \in DOMAIN db
       THEN th' = [th EXCEPT ![t].pc = "del_unqueue", ![t].type = db[th[t].key].type]
       ELSE Goto(t, "remove")
    /\ UNCHANGED <<db, q, overflowed, loose, tainted>>

DelUnqueue(t) ==
    /\ At(t, "del_unqueue")
    /\ q' = RemoveByType(q, th[t].key, th[t].type)
    /\ Goto(t, "remove")
    /\ UNCHANGED <<db, overflowed, loose, tainted>>

Drop(k) == db' = [j \in DOMAIN db \ {k} |-> db[j]]

\* shard.remove, of DEL and of an eviction.
RemoveEntry(t) ==
    /\ At(t, "remove")
    /\ NoReader(th[t].key)
    /\ Drop(th[t].key)
    /\ Done(t)
    /\ UNCHANGED <<q, overflowed, loose, tainted>>

----------------------------------------------------------------------------
(* HSET, under the map's write lock throughout. *)

\* An expired entry is taken out of its queue and out of the map, and the loop goes round.
HsetDropExpired(t) ==
    /\ At(t, "hset")
    /\ th[t].key \in DOMAIN db
    /\ NoReader(th[t].key)
    /\ q' = RemoveByType(q, th[t].key, db[th[t].key].type)
    /\ Drop(th[t].key)
    /\ UNCHANGED <<th, overflowed, loose, tainted>>

HsetEntry(t) ==
    /\ At(t, "hset")
    /\ NoReader(th[t].key)
    /\ IF th[t].key \in DOMAIN db
       THEN UNCHANGED <<db, q, overflowed, loose>>
       ELSE /\ q' = Placed(q, th[t].key)
            /\ Put(th[t].key, PlacedType(q, th[t].key))
            /\ Overflow(th[t].key)
    /\ Done(t)
    /\ UNCHANGED tainted

----------------------------------------------------------------------------
(* Eviction and expiry. *)

\* evict_s3fifo under the queues' lock: the head of the small queue, which becomes a ghost,
\* or else that of the main queue.  The map follows in RemoveEntry.
EvictPop(t) ==
    /\ At(t, "idle")
    /\ \E k \in Keys :
         /\ \/ /\ q.small # <<>> /\ k = Head(q.small)
               /\ q' = AddToGhost([q EXCEPT !.small = Tail(@), !.smallSet = @ \ {k}], k)
            \/ /\ q.small = <<>> /\ q.main # <<>> /\ k = Head(q.main)
               /\ q' = [q EXCEPT !.main = Tail(@), !.mainSet = @ \ {k}]
         /\ th' = [th EXCEPT ![t] = [pc |-> "remove", key |-> k, type |-> "Small"]]
         /\ Taint(k)
    /\ UNCHANGED <<db, overflowed, loose>>

\* Lazy and passive expiry, and FLUSHDB, remove the entry and leave the queues alone.
Expire(k) ==
    /\ k \in DOMAIN db
    /\ NoReader(k)
    /\ Drop(k)
    /\ tainted' = tainted \cup {k}
    /\ UNCHANGED <<q, th, overflowed, loose>>

----------------------------------------------------------------------------

Step(t) ==
    \/ SetRead(t) \/ SetUnqueue(t) \/ SetPlace(t) \/ SetInsert(t)
    \/ GetRead(t) \/ GetPromote(t) \/ GetRetype(t) \/ GetReinsert(t)
    \/ DelRead(t) \/ DelUnqueue(t) \/ RemoveEntry(t)
    \/ HsetDropExpired(t) \/ HsetEntry(t) \/ EvictPop(t)

Next ==
    \/ \E t \in Threads : Step(t) \/ \E op \in Operations, k \in Keys : Begin(t, op, k)
    \/ \E k \in Keys : Expire(k)

Spec == Init /\ [][Next]_vars

----------------------------------------------------------------------------
(* Properties. *)

\* The sets that answer the membership tests and the queues agree, no key is twice in a
\* queue, and no queue outgrows its capacity, whatever operations overlap.  For the ghost
\* queue, to which keys are added without a test, this rests on a key never being in the
\* small and the ghost queue at once.
QueuesExact ==
    /\ q.smallSet = Range(q.small) /\ IsInjective(q.small) /\ Len(q.small) <= SmallCapacity
    /\ q.mainSet = Range(q.main) /\ IsInjective(q.main) /\ Len(q.main) <= MainCapacity
    /\ q.ghostSet = Range(q.ghost) /\ IsInjective(q.ghost) /\ Len(q.ghost) <= GhostCapacity
    /\ q.smallSet \cap q.ghostSet = {}

\* Every entry of the map can be found by an eviction: a key that no operation is working on
\* is in a queue, unless a newer key took its place in a full queue, or it was in no queue
\* when it entered the map (loaded from a snapshot, or taken out of its queue between
\* SetPlace and SetInsert by a DEL or an eviction).
EvictableUnlessExplained ==
    \A k \in DOMAIN db : Busy(k) \/ k \in Queued(q) \cup overflowed \cup loose

\* As long as the operations on a key follow one another and it does not expire, its
\* queue_type is true: the key is not in the other queue, so that the next SET or DEL, which
\* trusts queue_type, leaves nothing of it behind.
TypeTruthful ==
    \A k \in DOMAIN db \ tainted :
        Busy(k) \/ IF db[k].type = "Small" THEN k \notin q.mainSet ELSE k \notin q.smallSet
=============================================================================
