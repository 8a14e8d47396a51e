------------------------------ MODULE Recovery ------------------------------
(***************************************************************************)
(* The start of src/main.rs with both persistence mechanisms on: the        *)
(* snapshot is loaded and the whole log is executed on top of it, with one  *)
(* timestamp, through the handlers that live traffic uses.                  *)
(*                                                                          *)
(* One key, and what happens to it since the files were empty: commands,    *)
(* refused writes and evictions (the limit itself is the subject of         *)
(* Keyspace), seconds that pass, snapshots, log rewrites and restarts, none *)
(* of them overlapping (the races between them are the subject of Snapshot  *)
(* and Aof).                                                                *)
(***************************************************************************)
EXTENDS Integers, Sequences

CONSTANTS
    Requests,   \* the commands clients send
    MaxValue,   \* the largest i64
    MaxTtl, MaxClock, MaxLog,
    Never       \* an expiry later than any other: None

\* A command of the key, as it is sent and logged: SET v [EX ttl] (ttl 0: without EX),
\* INCRBY v, DEL, EXPIRE ttl, PERSIST.
I64 == -(MaxValue + 1)..MaxValue
RequestType == [name: {"SET", "INCRBY", "DEL", "EXPIRE", "PERSIST"}, v: I64, ttl: 0..MaxTtl]

ASSUME RecoveryAssumption ==
    /\ MaxValue \in Nat /\ MaxTtl \in Nat /\ MaxClock \in Nat /\ MaxLog \in Nat /\ Never \in Nat
    /\ Never > MaxClock + MaxTtl
    /\ Requests \subseteq RequestType

VARIABLES
    live,       \* the entry of the key in the store
    clock,      \* seconds
    snapshot,   \* the entry in the snapshot file
    log,        \* the commands in the append-only file
    excused     \* history: since the log was rewritten the key expired or was evicted, a
                \* write was refused, a FLUSHDB was executed, or a restart found a log that
                \* does not begin with the key while the snapshot has it

historyVars == <<live, clock, snapshot, log, excused>>

\* An entry; Gone, which expired at time 0, stands for the key's absence.
Gone == [v |-> 0, exp |-> 0]
Alive(e, t) == t < e.exp

\* checked_add on what parse_i64 reads back, which is every number but the least; a
\* command that fails changes nothing.
Added(v, d) == IF v # -(MaxValue + 1) /\ v + d \in I64 THEN v + d ELSE v

\* What execute_command does to the entry e of the key, with timestamp t, when there is
\* room for it.
Execute(e, c, t) ==
    CASE c.name = "SET" -> [v |-> c.v, exp |-> IF c.ttl = 0 THEN Never ELSE t + c.ttl]
      [] c.name = "DEL" -> Gone
      [] c.name = "INCRBY" -> IF Alive(e, t) THEN [e EXCEPT !.v = Added(@, c.v)]
                              ELSE [v |-> c.v, exp |-> Never]
      [] c.name = "EXPIRE" -> IF Alive(e, t) /\ c.ttl > 0 THEN [e EXCEPT !.exp = t + c.ttl] ELSE Gone
      [] c.name = "PERSIST" -> IF Alive(e, t) THEN [e EXCEPT !.exp = Never] ELSE Gone

Request(name, v, ttl) == [name |-> name, v |-> v, ttl |-> ttl]

\* Mutant of Rewritten: the time to live is left out.
RewrittenForever(e, t) == IF Alive(e, t) THEN <<Request("SET", e.v, 0)>> ELSE <<>>

\* write_store_snapshot: the log that recreates the entry, with the seconds it has left.
Rewritten(e, t) ==
    IF ~Alive(e, t) THEN <<>>
    ELSE IF e.exp = Never THEN <<Request("SET", e.v, 0)>>
    ELSE <<Request("SET", e.v, 0), Request("EXPIRE", 0, e.exp - t)>>

\* What can become of a command: a SET or an INCR is refused when evict_if_needed finds no
\* room, and what a command leaves may be evicted for the next write of another key.
Fates(c) == {"done", "evicted"} \cup (IF c.name \in {"SET", "INCRBY"} THEN {"refused"} ELSE {})
Met(e, c, fate, t) ==
    CASE fate = "done" -> Execute(e, c, t)
      [] fate = "refused" -> e
      [] fate = "evicted" -> Gone

\* The commands, executed one after the other with the same timestamp.
ReplayAs(e, commands, fates, t) ==
    LET after[i \in 0..Len(commands)] ==
            IF i = 0 THEN e ELSE Met(after[i - 1], commands[i], fates[i], t)
    IN after[Len(commands)]
Replay(e, commands, t) == ReplayAs(e, commands, [i \in 1..Len(commands) |-> "done"], t)

\* load_snapshot drops what has expired; then the log is executed with replay_now.
Restored == IF Alive(snapshot, clock) THEN snapshot ELSE Gone
Loaded == Replay(Restored, log, clock)

\* The log does not depend on the entry it is executed on, or that is none.
Anchored == snapshot = Gone \/ (log # <<>> /\ log[1].name \in {"SET", "DEL"})

----------------------------------------------------------------------------

HistoryStart == live = Gone /\ clock = 0 /\ snapshot = Gone /\ log = <<>> /\ excused = FALSE

\* A command is executed, or refused, and logged whatever it answered; an eviction is not
\* logged.
Serve(c, fate) ==
    /\ Len(log) < MaxLog
    /\ live' = Met(live, c, fate, clock) /\ log' = Append(log, c)
    /\ excused' = (excused \/ fate # "done")
    /\ UNCHANGED <<clock, snapshot>>

Second ==
    /\ clock < MaxClock
    /\ clock' = clock + 1
    /\ excused' = (excused \/ (live # Gone /\ ~Alive(live, clock + 1)))
    /\ UNCHANGED <<live, snapshot, log>>

SaveSnapshot ==
    /\ snapshot' = IF Alive(live, clock) THEN live ELSE Gone
    /\ UNCHANGED <<live, clock, log, excused>>

\* The new log holds what the store holds; an entry that has expired is still in the store.
RewriteLog ==
    /\ log' = Rewritten(live, clock)
    /\ excused' = (live # Gone /\ ~Alive(live, clock))
    /\ UNCHANGED <<live, clock, snapshot>>

\* FLUSHDB is not logged.
FlushDb ==
    /\ live' = Gone /\ excused' = TRUE
    /\ UNCHANGED <<clock, snapshot, log>>

\* A restart, with room for everything.
Reboot ==
    /\ live' = Loaded /\ excused' = (excused \/ ~Anchored)
    /\ UNCHANGED <<clock, snapshot, log>>

\* A restart that runs into the limit: load_snapshot does not look at it, the handlers do.
RebootShort ==
    /\ \E e \in {Restored, Gone} :
       \E fates \in [1..Len(log) -> {"done", "evicted", "refused"}] :
            /\ \A i \in 1..Len(log) : fates[i] \in Fates(log[i])
            /\ live' = ReplayAs(e, log, fates, clock)
    /\ excused' = TRUE
    /\ UNCHANGED <<clock, snapshot, log>>

HistoryNext ==
    \/ \E c \in Requests : \E fate \in Fates(c) : Serve(c, fate)
    \/ Second \/ SaveSnapshot \/ RewriteLog \/ FlushDb \/ Reboot \/ RebootShort

HistorySpec == HistoryStart /\ [][HistoryNext]_historyVars

----------------------------------------------------------------------------

\* A restart from snapshot and log gives the key the value it had, and an expiry that is
\* later by at most the time since the beginning, after any number of earlier restarts,
\* provided the log begins with a SET or a DEL of the key or the snapshot lacks it, and
\* since the last rewrite of the log the key has not expired, no write was refused for want
\* of memory, the key was not evicted and no FLUSHDB was executed.  Each of these breaks it:
\* a refused write is in the log and is executed at the restart, an eviction and a FLUSHDB
\* are not in the log, an INCR is repeated over the value of the snapshot, a rewrite drops
\* the DEL of a key that the snapshot has, a time to live in the log is relative.
RecoveryFaithful ==
    ~excused /\ Anchored =>
        /\ Loaded.v = live.v
        /\ \/ Loaded.exp = live.exp
           \/ live.exp # Never /\ Loaded.exp \in live.exp..live.exp + clock
=============================================================================
