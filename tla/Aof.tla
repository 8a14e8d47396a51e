-------------------------------- MODULE Aof --------------------------------
(***************************************************************************)
(* The append-only file of src/aof.rs: append and its fsync policies, the   *)
(* everysec task, the rewrite with its swap of the live file, shutdown,     *)
(* power loss and replay.                                                   *)
(*                                                                          *)
(* A logged command is a write <<key, version>>; versions number the writes *)
(* in the order in which they reach the store.  The file at the AOF path is *)
(* the sequence log, of which the first synced records are on the disk; buf *)
(* is the BufWriter in front of it.  A record that was cut short is Broken. *)
(* rename is taken to be atomic and durable, as on a journaling file system.*)
(***************************************************************************)
EXTENDS Integers, Sequences, FiniteSets, FiniteSetsExt

CONSTANTS
    Conns,        \* connection tasks
    Rewriters,    \* blocking jobs that run rewrite
    Keys,         \* keys
    Owns,         \* the <<connection, key>> pairs of the writes that clients send
    Policy,       \* FsyncPolicy: "always", "everysec" or "no"
    MinSize,      \* aof_rewrite_min_size, in records
    Percentage,   \* aof_rewrite_percentage
    Faults,       \* what may fail: "append", "sync", "walk", "rename", "reopen", "final"
    MaxErrors,    \* bound on failures
    MaxCrashes,   \* bound on power losses
    MaxWrites,    \* bound on writes
    NoOne         \* the holder of a free lock

ASSUME ThreadsAssumption ==
    /\ IsFiniteSet(Conns) /\ Owns \subseteq Conns \X Keys
    /\ Conns \cap Rewriters = {} /\ NoOne \notin Conns \cup Rewriters
ASSUME PolicyAssumption ==
    /\ Policy \in {"always", "everysec", "no"}
    /\ Faults \subseteq {"append", "sync", "walk", "rename", "reopen", "final"}
ASSUME BoundsAssumption ==
    MinSize \in Nat /\ Percentage \in Nat /\ MaxErrors \in Nat /\ MaxCrashes \in Nat /\ MaxWrites \in Nat

VARIABLES
    db,         \* the store: the version of every key, 0 when absent
    next,       \* number of writes so far
    conn,       \* connection tasks
    buf,        \* contents of the BufWriter
    log,        \* the file at the AOF path
    synced,     \* how much of it is on the disk
    orphan,     \* the open descriptor is of a file that is no longer at the path
    lock,       \* holder of the mutex over the BufWriter
    dirty,      \* Aof.dirty
    size,       \* Aof.size_bytes, in records
    lastSize,   \* Aof.last_rewrite_size
    rewriting,  \* Aof.rewrite_in_progress
    rw,         \* rewrite jobs
    task,       \* everysec_task: waiting for its tick, inside sync, or ended
    phase,      \* the process
    faults,     \* failures and power losses so far
    acked,      \* writes answered to the client (history)
    lost,       \* writes of the old file that a rewrite did not carry over (history)
    base,       \* the store when the running rewrite began (history)
    incident    \* an append, a reopen or the final sync has failed (history)

fileVars == <<buf, log, synced, orphan>>
statVars == <<dirty, size, lastSize>>
history == <<acked, lost, base, incident>>
vars == <<db, next, conn, fileVars, lock, statVars, rewriting, rw, task, phase, faults, history>>

Broken == <<>>
Writes == Keys \X (1..MaxWrites)
NoWrite == <<>>
IdleConn == [pc |-> "idle", w |-> NoWrite]
IdleJob == [pc |-> "idle", todo |-> {}, tmp |-> <<>>]

Init ==
    /\ db = [k \in Keys |-> 0] /\ next = 0
    /\ conn = [c \in Conns |-> IdleConn]
    /\ buf = <<>> /\ log = <<>> /\ synced = 0 /\ orphan = FALSE
    /\ lock = NoOne
    /\ dirty = FALSE /\ size = 0 /\ lastSize = 0
    /\ rewriting = FALSE
    /\ rw = [r \in Rewriters |-> IdleJob]
    /\ task = "idle"
    /\ phase = "running"
    /\ faults = [errors |-> 0, crashes |-> 0]
    /\ acked = {} /\ lost = {} /\ base = [k \in Keys |-> 0] /\ incident = FALSE

----------------------------------------------------------------------------
Running == phase \in {"running", "draining", "exiting"}

\* BufWriter::flush: the buffered records reach the file that is open, at the path or not.
Flush ==
    /\ log' = IF orphan THEN log ELSE log \o buf
    /\ buf' = <<>>

\* sync_data after a flush.
FlushAndSync ==
    /\ Flush
    /\ synced' = IF orphan THEN synced ELSE Len(log')

\* An operation f of the operating system fails.
Fails(f) ==
    /\ f \in Faults
    /\ faults.errors < MaxErrors
    /\ faults' = [faults EXCEPT !.errors = @ + 1]

----------------------------------------------------------------------------
(* Write commands: the store first, then aof_log. *)

Apply(c, k) ==
    /\ phase = "running"
    /\ conn[c].pc = "idle"
    /\ <<c, k>> \in Owns
    /\ next < MaxWrites
    /\ next' = next + 1
    /\ db' = [db EXCEPT ![k] = next + 1]
    /\ conn' = [conn EXCEPT ![c] = [pc |-> "append", w |-> <<k, next + 1>>]]
    /\ UNCHANGED <<fileVars, lock, statVars, rewriting, rw, task, phase, faults, history>>

\* append under everysec and no: one critical section; a full BufWriter first flushes.
AppendBuffered(c) ==
    /\ Policy # "always"
    /\ conn[c].pc = "append"
    /\ lock = NoOne
    /\ \/ log' = log /\ buf' = Append(buf, conn[c].w)
       \/ log' = (IF orphan THEN log ELSE log \o buf) /\ buf' = <<conn[c].w>>
    /\ dirty' = TRUE
    /\ conn' = [conn EXCEPT ![c].pc = "size"]
    /\ UNCHANGED <<db, next, synced, orphan, lock, size, lastSize, rewriting, rw, task, phase, faults, history>>

\* append under always holds the lock over the fsync.
AppendLocked(c) ==
    /\ Policy = "always"
    /\ conn[c].pc = "append"
    /\ lock = NoOne
    /\ lock' = c
    /\ buf' = Append(buf, conn[c].w)
    /\ conn' = [conn EXCEPT ![c].pc = "fsync"]
    /\ UNCHANGED <<db, next, log, synced, orphan, statVars, rewriting, rw, task, phase, faults, history>>

\* Mutant of AppendFsync: the data is flushed to the operating system but not synced.
AppendFlushOnly(c) ==
    /\ conn[c].pc = "fsync"
    /\ Flush
    /\ lock' = NoOne
    /\ conn' = [conn EXCEPT ![c].pc = "size"]
    /\ UNCHANGED <<db, next, synced, orphan, statVars, rewriting, rw, task, phase, faults, history>>

AppendFsync(c) ==
    /\ conn[c].pc = "fsync"
    /\ FlushAndSync
    /\ lock' = NoOne
    /\ conn' = [conn EXCEPT ![c].pc = "size"]
    /\ UNCHANGED <<db, next, orphan, statVars, rewriting, rw, task, phase, faults, history>>

\* The flush or the sync fails: append returns the error, aof_log prints it, and the
\* client is answered all the same.
AppendFails(c) ==
    /\ conn[c].pc = "fsync"
    /\ Fails("append")
    /\ \/ Flush
       \/ UNCHANGED <<buf, log>>
    /\ lock' = NoOne
    /\ incident' = TRUE
    /\ acked' = acked \cup {conn[c].w}
    /\ conn' = [conn EXCEPT ![c] = IdleConn]
    /\ UNCHANGED <<db, next, synced, orphan, statVars, rewriting, rw, task, phase, lost, base>>

\* size_bytes grows after the lock is dropped; then the client is answered.
AddSize(c) ==
    /\ conn[c].pc = "size"
    /\ size' = size + 1
    /\ acked' = acked \cup {conn[c].w}
    /\ conn' = [conn EXCEPT ![c] = IdleConn]
    /\ UNCHANGED <<db, next, fileVars, lock, dirty, lastSize, rewriting, rw, task, phase, faults, lost, base, incident>>

----------------------------------------------------------------------------
(* The everysec task. *)

\* Mutant of EverysecTick: after an error the task does not try again.
EverysecTickGivesUp ==
    /\ Policy = "everysec"
    /\ phase = "running"
    /\ task = "idle"
    /\ dirty
    /\ faults.errors = 0
    /\ task' = "sync"
    /\ UNCHANGED <<db, next, conn, fileVars, lock, statVars, rewriting, rw, phase, faults, history>>

EverysecTick ==
    /\ Policy = "everysec"
    /\ phase = "running"
    /\ task = "idle"
    /\ dirty
    /\ task' = "sync"
    /\ UNCHANGED <<db, next, conn, fileVars, lock, statVars, rewriting, rw, phase, faults, history>>

\* After the shutdown signal the task syncs a last time, dirty or not, and ends.
EverysecLast ==
    /\ Policy = "everysec"
    /\ phase \in {"draining", "exiting"}
    /\ task = "idle"
    /\ task' = "last"
    /\ UNCHANGED <<db, next, conn, fileVars, lock, statVars, rewriting, rw, phase, faults, history>>

AfterSync == IF task = "last" THEN "ended" ELSE "idle"

EverysecSync ==
    /\ task \in {"sync", "last"}
    /\ lock = NoOne
    /\ FlushAndSync
    /\ dirty' = FALSE
    /\ task' = AfterSync
    /\ UNCHANGED <<db, next, conn, orphan, lock, size, lastSize, rewriting, rw, phase, faults, history>>

\* Mutant of SyncFails: dirty is cleared although the sync failed.
SyncFailsClean ==
    /\ task \in {"sync", "last"}
    /\ lock = NoOne
    /\ Fails("sync")
    /\ \/ Flush
       \/ UNCHANGED <<buf, log>>
    /\ task' = AfterSync
    /\ dirty' = FALSE
    /\ UNCHANGED <<db, next, conn, synced, orphan, lock, size, lastSize, rewriting, rw, phase, history>>

\* A failed flush or sync leaves dirty set, so the next tick tries again;
\* after the last sync there is none.
SyncFails ==
    /\ task \in {"sync", "last"}
    /\ lock = NoOne
    /\ Fails("sync")
    /\ \/ Flush
       \/ UNCHANGED <<buf, log>>
    /\ task' = AfterSync
    /\ UNCHANGED <<db, next, conn, synced, orphan, lock, statVars, rewriting, rw, phase, history>>

----------------------------------------------------------------------------
(* Rewrite. *)

\* should_rewrite.
ShouldRewrite ==
    LET from == IF lastSize > MinSize THEN lastSize ELSE MinSize
    IN size >= MinSize /\ size >= from + (from * Percentage) \div 100

SpawnJob(r) ==
    /\ phase = "running"
    /\ ~rewriting
    /\ rw[r].pc = "idle"
    /\ rw' = [rw EXCEPT ![r].pc = "claim"]
    /\ UNCHANGED <<db, next, conn, fileVars, lock, statVars, rewriting, task, phase, faults, history>>

Bgrewriteaof(r) == SpawnJob(r)
SupervisorTick(r) == Percentage > 0 /\ ShouldRewrite /\ SpawnJob(r)

\* Mutant of Claim: the flag is set but not tested.
ClaimAlways(r) ==
    /\ rw[r].pc = "claim"
    /\ rewriting' = TRUE
    /\ base' = db
    /\ rw' = [rw EXCEPT ![r] = [pc |-> "walk", todo |-> Keys, tmp |-> <<>>]]
    /\ UNCHANGED <<db, next, conn, fileVars, lock, statVars, task, phase, faults, acked, lost, incident>>

\* The compare-exchange on rewrite_in_progress; the loser returns Ok(None).
Claim(r) ==
    /\ rw[r].pc = "claim"
    /\ IF rewriting
       THEN /\ rw' = [rw EXCEPT ![r] = IdleJob]
            /\ UNCHANGED <<rewriting, base>>
       ELSE /\ rewriting' = TRUE
            /\ base' = db
            /\ rw' = [rw EXCEPT ![r] = [pc |-> "walk", todo |-> Keys, tmp |-> <<>>]]
    /\ UNCHANGED <<db, next, conn, fileVars, lock, statVars, task, phase, faults, acked, lost, incident>>

\* write_store_snapshot reads key after key while writers go on; the last one ends with
\* the fsync of the temporary file.
WalkKey(r, k) ==
    /\ rw[r].pc = "walk"
    /\ k \in rw[r].todo
    /\ rw' = [rw EXCEPT ![r] = [pc |-> IF @.todo = {k} THEN "lock" ELSE "walk",
                                todo |-> @.todo \ {k},
                                tmp |-> IF db[k] = 0 THEN @.tmp ELSE Append(@.tmp, <<k, db[k]>>)]]
    /\ UNCHANGED <<db, next, conn, fileVars, lock, statVars, rewriting, task, phase, faults, history>>

WalkFails(r) ==
    /\ rw[r].pc = "walk"
    /\ Fails("walk")
    /\ rw' = [rw EXCEPT ![r] = [IdleJob EXCEPT !.pc = "release"]]
    /\ UNCHANGED <<db, next, conn, fileVars, lock, statVars, rewriting, task, phase, history>>

\* The live file is locked, and flushed to the old file.
LockLive(r) ==
    /\ rw[r].pc = "lock"
    /\ lock = NoOne
    /\ lock' = r
    /\ Flush
    /\ rw' = [rw EXCEPT ![r].pc = "rename"]
    /\ UNCHANGED <<db, next, conn, synced, orphan, statVars, rewriting, task, phase, faults, history>>

\* That flush fails: the swap is given up and the records stay in the BufWriter.
LiveFlushFails(r) ==
    /\ rw[r].pc = "lock"
    /\ lock = NoOne
    /\ Fails("walk")
    /\ rw' = [rw EXCEPT ![r] = [IdleJob EXCEPT !.pc = "release"]]
    /\ UNCHANGED <<db, next, conn, fileVars, lock, statVars, rewriting, task, phase, history>>

Covered(w, s) == \E i \in 1..Len(s) : s[i] # Broken /\ s[i][1] = w[1] /\ s[i][2] >= w[2]

\* The new file takes the path; the descriptor still is of the old one.
RenameFile(r) ==
    /\ rw[r].pc = "rename"
    /\ log' = rw[r].tmp
    /\ synced' = Len(rw[r].tmp)
    /\ orphan' = TRUE
    /\ lost' = lost \cup {log[i] : i \in {j \in 1..Len(log) : ~Covered(log[j], rw[r].tmp)}}
    /\ rw' = [rw EXCEPT ![r].pc = "reopen"]
    /\ UNCHANGED <<db, next, conn, buf, lock, statVars, rewriting, task, phase, faults, acked, base, incident>>

RenameFails(r) ==
    /\ rw[r].pc = "rename"
    /\ Fails("rename")
    /\ lock' = NoOne
    /\ rw' = [rw EXCEPT ![r] = [IdleJob EXCEPT !.pc = "release"]]
    /\ UNCHANGED <<db, next, conn, fileVars, statVars, rewriting, task, phase, history>>

\* Mutant of Reopen: the counters start from zero instead of the new file.
ReopenFromZero(r) ==
    /\ rw[r].pc = "reopen"
    /\ orphan' = FALSE
    /\ size' = 0 /\ lastSize' = 0
    /\ dirty' = FALSE
    /\ lock' = NoOne
    /\ rw' = [rw EXCEPT ![r] = [IdleJob EXCEPT !.pc = "release"]]
    /\ UNCHANGED <<db, next, conn, buf, log, synced, rewriting, task, phase, faults, history>>

\* The path is opened again and the counters start from the new file.
Reopen(r) ==
    /\ rw[r].pc = "reopen"
    /\ orphan' = FALSE
    /\ size' = Len(rw[r].tmp) /\ lastSize' = Len(rw[r].tmp)
    /\ dirty' = FALSE
    /\ lock' = NoOne
    /\ rw' = [rw EXCEPT ![r] = [IdleJob EXCEPT !.pc = "release"]]
    /\ UNCHANGED <<db, next, conn, buf, log, synced, rewriting, task, phase, faults, history>>

\* The error return keeps the old BufWriter, whose file has lost its name.
ReopenFails(r) ==
    /\ rw[r].pc = "reopen"
    /\ Fails("reopen")
    /\ incident' = TRUE
    /\ lock' = NoOne
    /\ rw' = [rw EXCEPT ![r] = [IdleJob EXCEPT !.pc = "release"]]
    /\ UNCHANGED <<db, next, conn, fileVars, statVars, rewriting, task, phase, acked, lost, base>>

Release(r) ==
    /\ rw[r].pc = "release"
    /\ rewriting' = FALSE
    /\ base' = [k \in Keys |-> 0]
    /\ rw' = [rw EXCEPT ![r] = IdleJob]
    /\ UNCHANGED <<db, next, conn, fileVars, lock, statVars, task, phase, faults, acked, lost, incident>>

----------------------------------------------------------------------------
(* Shutdown, power loss, startup. *)

Shutdown ==
    /\ phase = "running"
    /\ phase' = "draining"
    /\ UNCHANGED <<db, next, conn, fileVars, lock, statVars, rewriting, rw, task, faults, history>>

\* Mutant of FinalSync: the server leaves without it.
FinalSyncSkipped ==
    /\ phase = "draining"
    /\ \A c \in Conns : conn[c].pc = "idle"
    /\ phase' = "exiting"
    /\ UNCHANGED <<db, next, conn, fileVars, lock, statVars, rewriting, rw, task, faults, history>>

\* With the connections drained, main syncs once more, whatever the policy.
FinalSync ==
    /\ phase = "draining"
    /\ \A c \in Conns : conn[c].pc = "idle"
    /\ lock = NoOne
    /\ FlushAndSync
    /\ dirty' = FALSE
    /\ phase' = "exiting"
    /\ UNCHANGED <<db, next, conn, orphan, lock, size, lastSize, rewriting, rw, task, faults, history>>

\* A final sync that fails is reported and the exit goes on.
FinalSyncFails ==
    /\ phase = "draining"
    /\ \A c \in Conns : conn[c].pc = "idle"
    /\ lock = NoOne
    /\ Fails("final")
    /\ \/ Flush
       \/ UNCHANGED <<buf, log>>
    /\ incident' = TRUE
    /\ phase' = "exiting"
    /\ UNCHANGED <<db, next, conn, synced, orphan, lock, statVars, rewriting, rw, task, acked, lost, base>>

\* The memory of the process is gone.
Gone ==
    /\ db' = [k \in Keys |-> 0]
    /\ conn' = [c \in Conns |-> IdleConn]
    /\ buf' = <<>> /\ orphan' = FALSE
    /\ lock' = NoOne
    /\ dirty' = FALSE /\ size' = 0 /\ lastSize' = 0
    /\ rewriting' = FALSE
    /\ rw' = [r \in Rewriters |-> IdleJob]
    /\ task' = "idle"
    /\ base' = [k \in Keys |-> 0]

\* main returns; the runtime waits for its blocking jobs.
Exit ==
    /\ phase = "exiting"
    /\ task \in {"idle", "ended"}
    /\ \A r \in Rewriters : rw[r].pc = "idle"
    /\ phase' = "exited"
    /\ Gone
    /\ UNCHANGED <<next, log, synced, faults, acked, lost, incident>>

\* Power is lost: of what was not synced some prefix reached the disk, perhaps with a piece
\* of the next record.  Only always promises anything about answered writes.
PowerLoss ==
    /\ Running
    /\ faults.crashes < MaxCrashes
    /\ faults' = [faults EXCEPT !.crashes = @ + 1]
    /\ \E n \in synced..Len(log), cut \in BOOLEAN :
         /\ cut => n < Len(log) \/ buf # <<>>
         /\ log' = SubSeq(log, 1, n) \o (IF cut THEN <<Broken>> ELSE <<>>)
    /\ synced' = Len(log')
    /\ acked' = IF Policy = "always" THEN acked ELSE {}
    /\ phase' = "down"
    /\ Gone
    /\ UNCHANGED <<next, lost, incident>>

\* Mutant of Replay: the first command for a key wins.
ReplayFirst(s) ==
    [k \in Keys |-> LET I == {i \in 1..Len(s) : s[i] # Broken /\ s[i][1] = k}
                    IN IF I = {} THEN 0 ELSE s[Min(I)][2]]

\* Replaying the commands in order: the last one for a key wins.
Replay(s) ==
    [k \in Keys |-> LET I == {i \in 1..Len(s) : s[i] # Broken /\ s[i][1] = k}
                    IN IF I = {} THEN 0 ELSE s[Max(I)][2]]

\* Startup replays the file and opens it; a record that was cut short refuses the start.
Restart ==
    /\ phase \in {"down", "exited"}
    /\ IF \E i \in 1..Len(log) : log[i] = Broken
       THEN /\ phase' = "refused"
            /\ UNCHANGED <<db, synced, size, lastSize>>
       ELSE /\ phase' = "running"
            /\ db' = Replay(log)
            /\ size' = Len(log) /\ lastSize' = Len(log)
            /\ synced' = Len(log)
    /\ UNCHANGED <<next, conn, buf, log, orphan, lock, dirty, rewriting, rw, task, faults, history>>

\* The operator cuts the damaged tail off by hand.
OperatorTruncates ==
    /\ phase = "refused"
    /\ \E n \in 1..Len(log) : /\ log[n] = Broken /\ (\A i \in 1..(n - 1) : log[i] # Broken)
                             /\ log' = SubSeq(log, 1, n - 1)
    /\ synced' = Len(log')
    /\ phase' = "down"
    /\ UNCHANGED <<db, next, conn, buf, orphan, lock, statVars, rewriting, rw, task, faults, history>>

----------------------------------------------------------------------------
ConnStep(c) == AppendBuffered(c) \/ AppendLocked(c) \/ AppendFsync(c) \/ AppendFails(c) \/ AddSize(c)

JobStep(r) ==
    \/ Claim(r) \/ (\E k \in Keys : WalkKey(r, k)) \/ LockLive(r) \/ RenameFile(r) \/ Reopen(r) \/ Release(r)
    \/ WalkFails(r) \/ LiveFlushFails(r) \/ RenameFails(r) \/ ReopenFails(r)

Next ==
    \/ \E c \in Conns : ConnStep(c) \/ (\E k \in Keys : Apply(c, k))
    \/ EverysecTick \/ EverysecLast \/ EverysecSync \/ SyncFails
    \/ \E r \in Rewriters : Bgrewriteaof(r) \/ SupervisorTick(r) \/ JobStep(r)
    \/ Shutdown \/ FinalSync \/ FinalSyncFails \/ Exit \/ PowerLoss \/ Restart \/ OperatorTruncates

Spec == Init /\ [][Next]_vars

\* The timer ticks, blocking jobs run, and whoever waits for the mutex gets it in the end.
FairSpec ==
    /\ Spec
    /\ WF_vars(EverysecTick) /\ SF_vars(EverysecSync)
    /\ \A c \in Conns : SF_vars(ConnStep(c))
    /\ \A r \in Rewriters : SF_vars(JobStep(r))

----------------------------------------------------------------------------
(* Properties. *)

\* Every variable stays in its range.
TypeOK ==
    /\ db \in [Keys -> 0..MaxWrites] /\ next \in 0..MaxWrites
    /\ conn \in [Conns -> [pc: {"idle", "append", "fsync", "size"}, w: Writes \cup {NoWrite}]]
    /\ buf \in Seq(Writes) /\ log \in Seq(Writes \cup {Broken}) /\ synced \in 0..Len(log)
    /\ orphan \in BOOLEAN /\ lock \in Conns \cup Rewriters \cup {NoOne}
    /\ dirty \in BOOLEAN /\ size \in Nat /\ lastSize \in Nat /\ rewriting \in BOOLEAN
    /\ rw \in [Rewriters -> [pc: {"idle", "claim", "walk", "lock", "rename", "reopen", "release"},
                             todo: SUBSET Keys, tmp: Seq(Writes)]]
    /\ task \in {"idle", "sync", "last", "ended"}
    /\ phase \in {"running", "draining", "exiting", "exited", "down", "refused"}
    /\ faults \in [errors: 0..MaxErrors, crashes: 0..MaxCrashes]
    /\ acked \subseteq Writes /\ lost \subseteq Writes \cup {Broken}
    /\ base \in [Keys -> 0..MaxWrites] /\ incident \in BOOLEAN

\* At most one job is past its claim, so the temporary file and the swap have one owner.
OneRewrite ==
    \A q, r \in Rewriters :
        rw[q].pc \notin {"idle", "claim"} /\ rw[r].pc \notin {"idle", "claim"} => q = r

\* Under everysec a file that is not dirty is on the disk completely: neither append nor a
\* failed sync nor a rewrite can leave data behind that no tick will sync.
CleanMeansSynced == Running /\ Policy = "everysec" /\ ~dirty => buf = <<>> /\ synced = Len(log)

\* Under always an answered write is on the disk, or superseded there by a later write of
\* its key, unless a rewrite dropped it or the disk failed under an append or a reopen.
\* Each key has one writing connection.
DurableUnlessRewritten ==
    Policy = "always" /\ ~incident =>
        \A w \in acked : Covered(w, SubSeq(log, 1, synced)) \/ w \in lost

\* A rewrite drops only writes that reached the store after it had begun.
LossConfined == [][\A w \in lost' \ lost : w # Broken /\ w[2] > base[w[1]]]_vars

\* A restart after a power loss (always) or a graceful exit (any policy) restores every
\* answered write or a later one of its key, unless a rewrite dropped it.  Each key has
\* one writing connection.
RestartRestores ==
    [][phase # "running" /\ phase' = "running" /\ ~incident =>
         \A w \in acked : db'[w[1]] >= w[2] \/ w \in lost]_vars

\* size_bytes never falls behind the file: an append counts after it unlocks, so a rewrite
\* between the two may count a record too many, never one too few.
SizeCovers ==
    Running /\ ~incident /\ lock \notin Rewriters =>
        size + Cardinality({c \in Conns : conn[c].pc \in {"fsync", "size"}}) >= Len(log) + Len(buf)

\* Under everysec, what was appended is synced in the end, also when a sync fails first.
SyncedInTheEnd == dirty ~> (~dirty \/ phase # "running")

\* docs/FEATURES.md:180: "replay semantics can never diverge from live semantics": when no
\* command runs, replaying the log gives the store.
ReplayMatchesStore ==
    phase = "running" /\ (\A c \in Conns : conn[c].pc = "idle") => Replay(log \o buf) = db
=============================================================================
