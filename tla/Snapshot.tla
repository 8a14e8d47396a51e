------------------------------ MODULE Snapshot ------------------------------
(***************************************************************************)
(* The RDB snapshot of src/persistence.rs and its callers in src/main.rs:   *)
(* SAVE, BGSAVE, the periodic snapshot_task, the final snapshot of a        *)
(* graceful shutdown, and load_snapshot at start-up.                        *)
(*                                                                          *)
(* Every caller runs save_snapshot_sync on a thread.  A thread is a slot of *)
(* Threads that is reused; kind[t] says who started it:                     *)
(*   "conn"      a connection task inside the SAVE handler                  *)
(*   "bgsave"    the detached std::thread of BGSAVE                         *)
(*   "blocking"  a spawn_blocking job of snapshot_task                      *)
(*   "final"     the spawn_blocking job of the shutdown path                *)
(* The keyspace is abstracted to one version and one expiry per key: a      *)
(* write bumps the version, and a deleted key is an entry that expired at   *)
(* time 0.  The walk reads one key at a time, in any order, because the     *)
(* order of the shards and buckets depends on the hash.                     *)
(***************************************************************************)
EXTENDS Integers, FiniteSets

CONSTANTS
    Threads,    \* slots for threads that run save_snapshot_sync
    Keys,       \* the keys of the store
    MaxVer,     \* bound on the versions written to a key
    MaxClock,   \* bound on the clock
    IoErrors    \* whether file operations may fail

ASSUME KeysAssumption == IsFiniteSet(Keys)
ASSUME BoundsAssumption == MaxVer \in Nat /\ MaxClock \in Nat \ {0} /\ IoErrors \in BOOLEAN

VARIABLES
    db,                \* key -> [ver, exp]
    clock,             \* get_timestamp()
    SAVE_IN_PROGRESS,  \* the global flag
    LAST_SAVE_TIME,    \* what LASTSAVE returns
    pc, kind,          \* where each thread is, and who started it
    now,               \* the timestamp the walk of a thread uses
    todo,              \* the keys the walk of a thread has not visited yet
    base,              \* the store when the save of a thread began (history)
    tmp,               \* the file "<path>.tmp"
    file,              \* the file "<path>"
    phase,             \* of the process: running, final (snapshot), exit (main has
                       \* returned), exited (gracefully), down (killed)
    failed             \* which file operations have failed in this process: those of a
                       \* save, the load (history)

store == <<db, clock>>
flags == <<SAVE_IN_PROGRESS, LAST_SAVE_TIME>>
locals == <<pc, kind, now, todo, base>>
files == <<tmp, file>>
vars == <<store, flags, locals, files, phase, failed>>

Never == MaxClock + 1
Entries == [ver: 0..MaxVer, exp: 0..Never]
Times == 1..MaxClock
NoFile == [found |-> FALSE]

\* A snapshot file: the timestamp of its header, the count of its header (0 until
\* the save patches it), the entries written so far, and the threads that wrote.
Files == [found: {TRUE}, time: Times, count: 0..Cardinality(Keys),
          data: UNION {[S -> Entries] : S \in SUBSET Keys}, writers: SUBSET Threads]

Kinds == {"none", "conn", "bgsave", "blocking", "final"}
Pcs == {"idle", "spawned", "enter", "create", "walk", "publish", "stamp", "release"}
Holding == {"spawned", "create", "walk", "publish", "stamp", "release"}

Absent == [ver |-> 0, exp |-> 0]
EmptyDb == [k \in Keys |-> Absent]
Expired(e, t) == t >= e.exp
Stored(f) == IF f.found THEN DOMAIN f.data ELSE {}
Counted(f) == IF f.found THEN f.count ELSE 0
Lesser(m, n) == IF m < n THEN m ELSE n

Init ==
    /\ db = EmptyDb
    /\ clock = 1
    /\ SAVE_IN_PROGRESS = FALSE
    /\ LAST_SAVE_TIME = 0
    /\ pc = [t \in Threads |-> "idle"]
    /\ kind = [t \in Threads |-> "none"]
    /\ now = [t \in Threads |-> 1]
    /\ todo = [t \in Threads |-> {}]
    /\ base = [t \in Threads |-> EmptyDb]
    /\ tmp = NoFile
    /\ file = NoFile
    /\ phase = "running"
    /\ failed = {}

----------------------------------------------------------------------------
(* Clients and time. *)

\* Mutant: connections are not joined before the final snapshot.
WriteDuringFinal(k) ==
    /\ phase \in {"running", "final"}
    /\ db[k].ver < MaxVer
    /\ \E x \in {0} \cup (clock + 1)..Never : db' = [db EXCEPT ![k] = [ver |-> @.ver + 1, exp |-> x]]
    /\ UNCHANGED <<clock, flags, locals, files, phase, failed>>

\* A write command: the key gets a new version and an expiry in the future
\* (exp = 0 is a DEL).
Write(k) ==
    /\ phase = "running"
    /\ db[k].ver < MaxVer
    /\ \E x \in {0} \cup (clock + 1)..Never : db' = [db EXCEPT ![k] = [ver |-> @.ver + 1, exp |-> x]]
    /\ UNCHANGED <<clock, flags, locals, files, phase, failed>>

Tick ==
    /\ clock < MaxClock
    /\ clock' = clock + 1
    /\ UNCHANGED <<db, flags, locals, files, phase, failed>>

Start(t, k, p) ==
    /\ pc[t] = "idle"
    /\ pc' = [pc EXCEPT ![t] = p]
    /\ kind' = [kind EXCEPT ![t] = k]
    /\ UNCHANGED <<store, LAST_SAVE_TIME, now, todo, base, files, failed>>

\* The SAVE command runs the save inside its connection task.
SaveCommand(t) ==
    /\ phase = "running"
    /\ Start(t, "conn", "enter")
    /\ UNCHANGED <<SAVE_IN_PROGRESS, phase>>

\* The BGSAVE command: claims the flag, spawns a thread, answers the client.  When the
\* flag is taken it answers an error and changes nothing.
BgSaveCommand(t) ==
    /\ phase = "running"
    /\ ~SAVE_IN_PROGRESS
    /\ SAVE_IN_PROGRESS' = TRUE
    /\ Start(t, "bgsave", "spawned")
    /\ UNCHANGED phase

\* snapshot_task fires: it does not wait for the job of the previous tick.  It stops
\* listening once the shutdown signal is out.
SnapshotTick(t) ==
    /\ phase = "running"
    /\ Start(t, "blocking", "enter")
    /\ UNCHANGED <<SAVE_IN_PROGRESS, phase>>

----------------------------------------------------------------------------
(* save_snapshot_sync, step by step. *)

Goto(t, p) == pc' = [pc EXCEPT ![t] = p]

\* Mutant: the thread does not give the flag back, and so refuses itself.
BgSaveThreadKeepsFlag(t) ==
    /\ pc[t] = "spawned"
    /\ Goto(t, "enter")
    /\ UNCHANGED <<store, flags, kind, now, todo, base, files, phase, failed>>

\* The BGSAVE thread gives the claimed flag back before it calls save_snapshot_sync.
BgSaveThreadClears(t) ==
    /\ pc[t] = "spawned"
    /\ SAVE_IN_PROGRESS' = FALSE
    /\ Goto(t, "enter")
    /\ UNCHANGED <<store, LAST_SAVE_TIME, kind, now, todo, base, files, phase, failed>>

\* Mutant: a refused save still runs the store(false) at the end of the function.
SwapFlagFallsThrough(t) ==
    /\ pc[t] = "enter"
    /\ Goto(t, IF SAVE_IN_PROGRESS THEN "release" ELSE "create")
    /\ SAVE_IN_PROGRESS' = TRUE
    /\ UNCHANGED <<store, LAST_SAVE_TIME, kind, now, todo, base, files, phase, failed>>

\* swap(true): whoever reads false owns the save, the others return Err.
SwapFlag(t) ==
    /\ pc[t] = "enter"
    /\ Goto(t, IF SAVE_IN_PROGRESS THEN "idle" ELSE "create")
    /\ kind' = [kind EXCEPT ![t] = IF SAVE_IN_PROGRESS THEN "none" ELSE @]
    /\ SAVE_IN_PROGRESS' = TRUE
    /\ UNCHANGED <<store, LAST_SAVE_TIME, now, todo, base, files, phase, failed>>

\* Mutant: the temporary file is opened for append instead of truncated.
CreateTempAppends(t) ==
    /\ pc[t] = "create"
    /\ Goto(t, "walk")
    /\ now' = [now EXCEPT ![t] = clock]
    /\ todo' = [todo EXCEPT ![t] = Keys]
    /\ base' = [base EXCEPT ![t] = db]
    /\ tmp' = [found |-> TRUE, time |-> clock, count |-> 0, data |-> [k \in Stored(tmp) |-> tmp.data[k]],
               writers |-> {t}]
    /\ UNCHANGED <<store, flags, kind, file, phase, failed>>

\* now = get_timestamp(), File::create truncates a left-over temporary file, and the
\* header goes out with a zero count.
CreateTemp(t) ==
    /\ pc[t] = "create"
    /\ Goto(t, "walk")
    /\ now' = [now EXCEPT ![t] = clock]
    /\ todo' = [todo EXCEPT ![t] = Keys]
    /\ base' = [base EXCEPT ![t] = db]
    /\ tmp' = [found |-> TRUE, time |-> clock, count |-> 0, data |-> [k \in {} |-> db[k]],
               writers |-> {t}]
    /\ UNCHANGED <<store, flags, kind, file, phase, failed>>

\* One entry of the walk: skipped if it is expired at the time the save began.
WalkKey(t, k) ==
    /\ pc[t] = "walk"
    /\ k \in todo[t]
    /\ todo' = [todo EXCEPT ![t] = @ \ {k}]
    /\ tmp' = IF Expired(db[k], now[t]) THEN tmp
              ELSE [tmp EXCEPT !.data = [j \in DOMAIN @ \cup {k} |-> IF j = k THEN db[k] ELSE @[j]],
                               !.writers = @ \cup {t}]
    /\ UNCHANGED <<store, flags, pc, kind, now, base, file, phase, failed>>

\* Seek back, patch the count, flush.
PatchCount(t) ==
    /\ pc[t] = "walk"
    /\ todo[t] = {}
    /\ Goto(t, "publish")
    /\ tmp' = [tmp EXCEPT !.count = Cardinality(DOMAIN tmp.data), !.writers = @ \cup {t}]
    /\ UNCHANGED <<store, flags, kind, now, todo, base, file, phase, failed>>

\* rename(tmp, path).
Rename(t) ==
    /\ pc[t] = "publish"
    /\ tmp.found
    /\ Goto(t, "stamp")
    /\ file' = tmp
    /\ tmp' = NoFile
    /\ UNCHANGED <<store, flags, kind, now, todo, base, phase, failed>>

\* Mutant: LASTSAVE is set to the end of the save.
StampTimeLate(t) ==
    /\ pc[t] = "stamp"
    /\ Goto(t, "release")
    /\ LAST_SAVE_TIME' = clock
    /\ UNCHANGED <<store, SAVE_IN_PROGRESS, kind, now, todo, base, files, phase, failed>>

StampTime(t) ==
    /\ pc[t] = "stamp"
    /\ Goto(t, "release")
    /\ LAST_SAVE_TIME' = now[t]
    /\ UNCHANGED <<store, SAVE_IN_PROGRESS, kind, now, todo, base, files, phase, failed>>

\* Mutant: an error returns from the function without the store(false).
IoErrorReturnsEarly(t) ==
    /\ IoErrors
    /\ pc[t] \in {"create", "walk", "publish"}
    /\ Goto(t, "idle")
    /\ failed' = failed \cup {"save"}
    /\ UNCHANGED <<store, flags, kind, now, todo, base, files, phase>>

\* Any file operation fails: the closure returns Err and leaves the temporary file.
IoError(t) ==
    /\ IoErrors
    /\ pc[t] \in {"create", "walk", "publish"}
    /\ Goto(t, "release")
    /\ failed' = failed \cup {"save"}
    /\ UNCHANGED <<store, flags, kind, now, todo, base, files, phase>>

\* The locals of the thread go out of scope.
ReleaseFlag(t) ==
    /\ pc[t] = "release"
    /\ SAVE_IN_PROGRESS' = FALSE
    /\ Goto(t, "idle")
    /\ kind' = [kind EXCEPT ![t] = "none"]
    /\ now' = [now EXCEPT ![t] = 1]
    /\ todo' = [todo EXCEPT ![t] = {}]
    /\ base' = [base EXCEPT ![t] = EmptyDb]
    /\ UNCHANGED <<store, LAST_SAVE_TIME, files, phase, failed>>

SaveStep(t) ==
    \/ BgSaveThreadClears(t)
    \/ SwapFlag(t)
    \/ CreateTemp(t)
    \/ \E k \in Keys : WalkKey(t, k)
    \/ PatchCount(t)
    \/ Rename(t)
    \/ StampTime(t)
    \/ ReleaseFlag(t)

----------------------------------------------------------------------------
(* Shutdown, crash, restart. *)

Running(ks) == {t \in Threads : pc[t] # "idle" /\ kind[t] \in ks}

\* All connection tasks have been joined; main starts the final snapshot.
StartFinalSnapshot(t) ==
    /\ phase = "running"
    /\ Running({"conn"}) = {}
    /\ Start(t, "final", "enter")
    /\ phase' = "final"
    /\ UNCHANGED SAVE_IN_PROGRESS

\* The final snapshot returned, or its time bound expired; main returns.
MainReturns ==
    /\ phase = "final"
    /\ phase' = "exit"
    /\ UNCHANGED <<store, flags, locals, files, failed>>

\* The process is gone: its memory with it.  db is kept until the restart as a record
\* of what the store held last.
Stop(p) ==
    /\ phase' = p
    /\ SAVE_IN_PROGRESS' = FALSE
    /\ LAST_SAVE_TIME' = 0
    /\ pc' = [t \in Threads |-> "idle"]
    /\ kind' = [t \in Threads |-> "none"]
    /\ now' = [t \in Threads |-> 1]
    /\ todo' = [t \in Threads |-> {}]
    /\ base' = [t \in Threads |-> EmptyDb]
    /\ failed' = {}
    /\ UNCHANGED <<store, files>>

\* Dropping the runtime waits for spawn_blocking jobs, not for the detached thread.
ProcessExits ==
    /\ phase = "exit"
    /\ Running({"blocking", "final"}) = {}
    /\ Stop("exited")

Crash ==
    /\ phase \in {"running", "final", "exit"}
    /\ Stop("down")

\* What the store holds when load_snapshot has read the entries of S: those that have
\* expired meanwhile are dropped.
Restored(S) ==
    [k \in Keys |-> IF k \notin S THEN Absent
                    ELSE IF Expired(file.data[k], clock) THEN [file.data[k] EXCEPT !.exp = 0]
                    ELSE file.data[k]]

\* How many entries the loop finds: as many as the header counts, or fewer if the file ends.
Readable == Lesser(Counted(file), Cardinality(Stored(file)))

\* Mutant: the loop over the entries ends one too early.
LoadSnapshotShort ==
    /\ phase \in {"down", "exited"}
    /\ phase' = "running"
    /\ \E S \in SUBSET Stored(file) :
         Cardinality(S) = (IF Readable = 0 THEN 0 ELSE Readable - 1) /\ db' = Restored(S)
    /\ failed' = {}
    /\ UNCHANGED <<clock, flags, locals, files>>

\* load_snapshot reads everything; no file at all is an empty store.
LoadSnapshot ==
    /\ phase \in {"down", "exited"}
    /\ phase' = "running"
    /\ \E S \in SUBSET Stored(file) : Cardinality(S) = Readable /\ db' = Restored(S)
    /\ failed' = {}
    /\ UNCHANGED <<clock, flags, locals, files>>

\* The file cannot be opened, read or decoded: whatever was read before the failure stays in
\* the store, and main goes on with it.
LoadFails ==
    /\ IoErrors
    /\ phase \in {"down", "exited"}
    /\ file.found
    /\ phase' = "running"
    /\ \E S \in SUBSET Stored(file) : (S = {} \/ Cardinality(S) < Readable) /\ db' = Restored(S)
    /\ failed' = {"load"}
    /\ UNCHANGED <<clock, flags, locals, files>>

Next ==
    \/ \E k \in Keys : Write(k)
    \/ Tick
    \/ \E t \in Threads :
         \/ SaveCommand(t)
         \/ BgSaveCommand(t)
         \/ SnapshotTick(t)
         \/ SaveStep(t)
         \/ IoError(t)
         \/ StartFinalSnapshot(t)
    \/ MainReturns
    \/ ProcessExits
    \/ Crash
    \/ LoadSnapshot
    \/ LoadFails

Spec == Init /\ [][Next]_vars

\* Threads are scheduled by the operating system, so a started save keeps running.
FairSpec == Spec /\ \A t \in Threads : WF_vars(SaveStep(t))

----------------------------------------------------------------------------
(* Properties. *)

\* Every variable stays in its range.
TypeOK ==
    /\ db \in [Keys -> Entries]
    /\ clock \in Times
    /\ SAVE_IN_PROGRESS \in BOOLEAN
    /\ LAST_SAVE_TIME \in Times \cup {0}
    /\ pc \in [Threads -> Pcs]
    /\ kind \in [Threads -> Kinds]
    /\ now \in [Threads -> Times]
    /\ todo \in [Threads -> SUBSET Keys]
    /\ base \in [Threads -> [Keys -> Entries]]
    /\ tmp \in Files \cup {NoFile}
    /\ file \in Files \cup {NoFile}
    /\ phase \in {"running", "final", "exit", "exited", "down"}
    /\ failed \subseteq {"save", "load"}

\* At most one thread is between its claim of SAVE_IN_PROGRESS and its release, although
\* the BGSAVE thread gives the flag back and claims it a second time.
OneSaver == \A t, u \in Threads : pc[t] \in Holding /\ pc[u] \in Holding => t = u

\* A set SAVE_IN_PROGRESS has an owner that will clear it: no error path, no refused save
\* and no exit leaves the flag behind, which would refuse every later save.
FlagOwned == SAVE_IN_PROGRESS => \E t \in Threads : pc[t] \in Holding

\* The file that load_snapshot reads was written by one save from its header to its
\* last entry, and its header counts exactly its entries.
PublishedComplete ==
    file.found => /\ file.count = Cardinality(DOMAIN file.data)
                  /\ Cardinality(file.writers) = 1

\* A published snapshot is fuzzy but never wrong about a key: an entry it holds is one
\* the store held since the save began, and a key it lacks had expired by then or was
\* changed during the walk.
PublishedFromWindow ==
    [][\A t \in Threads : Rename(t) =>
         \A k \in Keys :
           IF k \in DOMAIN file'.data
           THEN /\ file'.data[k].ver \in base[t][k].ver..db[k].ver
                /\ ~Expired(file'.data[k], now[t])
           ELSE Expired(base[t][k], now[t]) \/ db[k].ver > base[t][k].ver]_vars

\* Replacing the snapshot never brings back an older value of a key, whichever of SAVE,
\* BGSAVE, the periodic task and the shutdown path wrote the two files, and across restarts.
\* The exception is a process whose load failed: it runs without what it could not read,
\* and its first save replaces the file that has it.
NeverOlder ==
    [][\A k \in Stored(file) \cap Stored(file') :
         "load" \in failed \/ file'.data[k].ver >= file.data[k].ver]_vars

\* LASTSAVE reports the timestamp of the file on disk, except in the moment between the
\* rename and the store of LAST_SAVE_TIME, and before the first save of this process.
LastSaveHonest ==
    LAST_SAVE_TIME # 0 /\ (\A t \in Threads : pc[t] # "stamp") =>
        file.found /\ file.time = LAST_SAVE_TIME

\* When the final snapshot gets to publish, it holds exactly the live store: the
\* connections were joined first, so nothing is written behind its walk.
FinalSnapshotExact ==
    [][\A t \in Threads : Rename(t) /\ kind[t] = "final" =>
         file'.data = [k \in {j \in Keys : ~Expired(db[j], now[t])} |-> db[k]]]_vars

\* A restart restores every key of the last published file that has not expired, unless
\* the load fails; then each key is restored or absent, and nothing else is in the store.
RestartRestores ==
    [][phase' = "running" /\ phase \in {"down", "exited"} =>
         \A k \in Keys :
            LET there == k \in Stored(file) /\ ~Expired(file.data[k], clock)
            IN \/ there /\ db'[k] = file.data[k]
               \/ Expired(db'[k], clock) /\ (there => "load" \in failed')]_vars

\* The final snapshot is refused only because a BGSAVE or a periodic save is at work: the
\* SAVEs of clients are over, since the connections were joined, and no flag was left set.
FinalYieldsToBackground ==
    [][\A t \in Threads : SwapFlag(t) /\ kind[t] = "final" /\ SAVE_IN_PROGRESS =>
         \E u \in Threads \ {t} : pc[u] \in Holding /\ kind[u] \in {"bgsave", "blocking"}]_vars

\* An accepted BGSAVE is honoured even when its thread loses the flag it gave back: a
\* file at least as new as the store at the time of the reply gets published, unless a file
\* operation of this process has failed.  The premise is that clients do not send BGSAVE for
\* ever: a thread that has just given the flag back can lose it to the next BGSAVE, and that
\* one to the next.
BgSaveHonoured ==
    <>[](\A t \in Threads : pc[t] # "spawned") =>
        \A t \in Threads, k \in Keys, v \in 0..MaxVer :
            (pc[t] = "spawned" /\ db[k].ver = v) ~>
                \/ k \in Stored(file) /\ file.data[k].ver >= v
                \/ db[k].ver # v \/ Expired(db[k], clock)
                \/ phase # "running" \/ failed # {}

\* Saving and loading together keep the promise of FuzzySnapshot: one save at a time, which
\* publishes values of its window or nothing, and a restart that gives the snapshot back, or
\* a part of it if the load fails.
\* A save counts from the moment its walk begins until it renames or gives up.
Disk == [k \in Stored(file) |-> file.data[k]]
Saving == {t \in Threads : pc[t] \in {"walk", "publish"}}
Saves == {[since |-> now[t], base |-> base[t]] : t \in Saving}
Fuzzy == INSTANCE FuzzySnapshot WITH disk <- Disk, saves <- Saves, up <- phase \notin {"down", "exited"},
                                         partial <- "load" \in failed
ImplementsFuzzy == Fuzzy!Spec
=============================================================================
