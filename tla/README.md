# Verification of redistill

TLA+ models of redistill, a Redis-compatible key-value server in Rust, with TLC
configurations and TLAPS proofs. Every definition is translated from the code under
`src/src/`; `PROJECT.json` maps each one to its lines.

## The system

| Part | Code | What it does |
|---|---|---|
| Sharded store | `store.rs` | `DashMap` shards, entries with expiry, strings and hashes, lazy expiry on access |
| Memory accounting | `store.rs`, `main.rs` | the global `MEMORY_USED`, updated beside (not inside) the map operations |
| Eviction | `store.rs` | noeviction, LRU and random sampling, S3-FIFO queues |
| Passive expiration | `store.rs`, `main.rs` | a task that samples shards every 100 ms |
| Hash values | `store.rs` | `HSET`/`HGET`/`HDEL`/`HGETALL` on `Arc<RwLock<HashMap>>` |
| Command handlers | `main.rs` | `execute_command` and one handler per command |
| SCAN and KEYS | `store.rs`, `main.rs` | cursor encoding, glob matching |
| AOF | `aof.rs` | append, fsync policies, rewrite, replay |
| RDB snapshots | `persistence.rs` | `SAVE`, `BGSAVE`, periodic and final snapshots, load |
| Recovery | `main.rs` | snapshot, then log, through `execute_command` |
| Connections and shutdown | `main.rs`, `server.rs` | accept loop, limits, drain, background tasks |
| RESP protocol | `protocol.rs` | incremental parser, writer, number parsing |
| Buffer pool | `store.rs` | reuse of reply buffers |
| Configuration | `config.rs` | file and environment |

Clients talk RESP to connection tasks. A task executes a command on the sharded store,
adjusts `MEMORY_USED`, and appends write commands to the AOF. Beside the connections run
the expiration task, the snapshot task, the everysec task, the rewrite supervisor and
blocking jobs for saves and rewrites. They share four things: the shards, `MEMORY_USED`,
the snapshot flag with its files, and the AOF's mutex with its file. The modules follow
that division.

## Modules

| Module | Part | State | Actions |
|---|---|---|---|
| `Snapshot` | RDB saves and load | store (a version and an expiry per key), `SAVE_IN_PROGRESS`, `LAST_SAVE_TIME`, the place and the locals of each saving thread, the temporary and the published file | `SaveCommand`, `BgSaveCommand`, `SnapshotTick`, the steps of `save_snapshot_sync`, `IoError`, `StartFinalSnapshot`, `MainReturns`, `ProcessExits`, `Crash`, `LoadSnapshot`, `LoadFails` |
| `FuzzySnapshot` | what saving and loading promise | store, one published snapshot, at most one save, known by its beginning, whether this process read all of it | `Write`, `BeginSave`, `Publish`, `GiveUp`, `Stop`, `Load`, `LoadPart` |
| `Keyspace` | string commands, expiry, memory, LRU and random eviction | the map, `MEMORY_USED` modulo `U64`, the clock, one record per connection and for the expiration task | one per map operation, `MEMORY_USED` operation or timestamp of a handler |
| `HashKeys` | hash commands on one key | the entry, the bytes of the hash objects (an `Arc` can outlive its entry), read guards, `MEMORY_USED` | one per critical section of the shard lock or the lock in the hash |
| `S3Fifo` | the S3-FIFO policy of one shard | the map (queue type and access count per key), the three queues with their sets, one record per thread | one per critical section of the queues' lock or the map's lock on the key |
| `Aof` | append-only file | store, `BufWriter`, file, how much of it is synced, mutex, `dirty`, sizes, rewrite jobs | append per policy, everysec task, rewrite step by step, shutdown, `PowerLoss`, `Restart`, `OperatorTruncates` (the repair of a log that start-up refuses), and the failures of disk operations |
| `Server` | accept loop, connection tasks, signals, drain | phase of main, the shutdown channel, `ACTIVE_CONNECTIONS`, the rate window, per connection its place, what is on the wire and in the buffer, and its unanswered commands | one per stretch between two awaits of main or of a task, the client's moves, `Abort`, timers |
| `Glob` | `matches_pattern` | the arguments and the locals of the function | one per branch of its loops |
| `Scan` | `SCAN` over a store nobody changes | the shards, the cursor the client has, the locals of `scan`, what was returned | `BeginCall`, one per branch of the loops, the returns |
| `Decimal`, `Numeral` | digits; `write_u64`, `write_signed_integer` and `parse_i64` | the bytes, the number, the index | one per digit written or read |
| `Frames` | `write_resp_array` | the stream, the commands in it, and where each header lies (history) | `WriteArray`, `WriteBulk` |
| `Resp` | `parse_command`, `try_parse` | what has arrived and been consumed, the locals of `try_parse`, the commands returned | `Receive` of any number of bytes, one per byte of a header, per payload and per command, `Overflow` |
| `LogFile` | `CommandReader` | where a crash cut the log, the position, the parts read, the commands returned | `Crash`, one per line with its payload, `EndOfFile`, `CommandRead` |
| `Recovery` | start-up from snapshot and log | the entry of one key, the clock, the two files | `Serve` of a command that is executed, refused or followed by an eviction, `Second`, `SaveSnapshot`, `RewriteLog`, `FlushDb`, `Reboot`, `RebootShort` |
| `Algorithms` | the six machines above | which of them runs | one per machine |
| `Snapshot_proofs`, `Keyspace_proofs`, `HashKeys_proofs`, `S3Fifo_proofs`, `Aof_proofs`, `Server_proofs`, `Algorithms_proofs`, `Resp_proofs` | theorems | | |
| `MC*` | instances for TLC | | |

How data is abstracted:

- `Snapshot` and `Aof`: a value is a version number. Newer writes have greater versions,
  so "older", "lost" and "superseded" are comparisons. A snapshot file is a map with a
  header count; a log is a sequence of records, and a record cut short is `Broken`.
- `Keyspace`: values are integers, with `Text` for any value that is not a number.
  The i64 range is `-(I64Max + 1)..I64Max`, and `parse_i64` cannot read its least element,
  as in the code. Sizes keep the differences that matter: a sign or a text costs more.
  The clock counts seconds; `PX` is given in milliseconds and `Seconds` rounds it as the
  code does.
- `HashKeys`: a hash is the set of its bytes, pairs of a field and a position in it, so
  that its size is a cardinality and a longer or shorter value changes it. Commands on
  other keys touch other entries, so one key is enough.
- `S3Fifo`: a key stands for its hash, and any entry may be found expired. The history
  variables `overflowed`, `loose` and `tainted` mark the keys for which the code makes no
  promise, and when.
- `Server`: what a client sends is counted in halves of commands, so that a read can end in
  the middle of one.
- `Frames`, `Resp`, `LogFile` and `Numeral` work on bytes, because their properties are
  about bytes. `format!` of a length is any digit string without a leading zero that means
  it. `Glob` works on an alphabet that contains `*` and `?` themselves; `Scan` knows of a key
  whether it matches, does not, or has expired.

Where the code performs several atomic operations in a row, the model has several actions.
The exception is `HashKeys`, where an addition to `MEMORY_USED` is joined to the critical
section it is computed in: additions commute and no hash command reads the counter. The
shard lock is explicit there (`MayRead`, `MayWrite`): `HDEL` holds it from the test of
`remove_if` (`HdelSweep`) to the removal (`HdelRemove`), and in between an `HSET` that has
the `Arc` can fill the hash. What a removal took out of the map is measured after the shard
is unlocked (`Discount`).

Names of definitions follow the code (`evict_if_needed` is `EvictIfNeeded`). A definition
whose comment begins with "Mutant" is a plausible bug: the named definition with a guard
dropped or an order swapped. Replacing the original by it must violate the property listed
with it in `PROJECT.json`; no run uses it otherwise.

## What the runs show

| Run | Instance | Properties |
|---|---|---|
| `snapshot_keys` | 2 threads, 2 keys, 2 versions, disk errors, failing loads, crashes, no clock | `OneSaver`, `FlagOwned`, `PublishedFromWindow`, `NeverOlder`, `FinalSnapshotExact` |
| `snapshot_live` | 2 threads, 1 key, 1 version, clock 1..2, disk errors, failing loads, crashes, fairness | `LastSaveHonest`, `ImplementsFuzzy`, `BgSaveHonoured` |
| `keyspace_expiry` | 2 connections, expiration task, 1 key, every kind of command, no eviction, clock 0..1 | `TypeOK`, `MemoryConserved`, `NoPrematureExpiry`, `ExpiryNotLate` |
| `keyspace_memory` | 2 connections, expiration task, 3 keys, `SET` with all options, `GET`, `DEL`, eviction, limit 3 | `MemoryConserved`, `SoftLimit` |
| `keyspace_incr` | 2 connections, `INCR` | violates `IncrementsDistinct` |
| `hash_keys` | 3 connections, 2 fields with values of length 0 and 1, 4 commands of any kind | `NoEmptyHash`, `GrowthCounted`, `HsetReachesStore` |
| `aof_always` | 2 connections with a key each, 2 rewrite jobs, 2 writes, one failure of any disk operation, 1 power loss | `DurableUnlessRewritten`, `SizeCovers`, `LossConfined`, `RestartRestores` |
| `aof_everysec` | the same with 1 job, failing syncs, graceful exit, fairness | `CleanMeansSynced`, `RestartRestores`, `SyncedInTheEnd` |
| `aof_order` | 2 connections that write one key | violates `ReplayMatchesStore` |
| `s3fifo` | 2 threads, 2 keys, capacities 2, 1 and 2, every operation | `QueuesExact`, `EvictableUnlessExplained`, `TypeTruthful` |
| `server` | 2 connections with limit 1, rate 1 per second, batches of 2, pipelining up to one and a half commands, fairness | `CountExact`, `QuietAtExit`, `ExecutedAnswered`, `NoNewWork`, `ShutdownCompletes`, `SlotReleased`, `AnsweredInTheEnd` |
| `algorithms` | all keys and patterns up to length 4, two shards of up to 4 and 3 entries with any cursor and counts, all pipelines of two commands of a set whose payloads imitate framing, received in reads of every size and logs of them cut at every byte, all numerals up to 4 bytes, all histories of a key with up to 3 commands in the log, 2 seconds, refused writes, evictions and any number of snapshots, rewrites and restarts | `GlobExact`, `ScanExact`, `FragmentSafe`, `TornLogDetected`, `ParseExact`, `RecoveryFaithful` |

### Snapshots

The interesting point is the flag. `BGSAVE` claims `SAVE_IN_PROGRESS` in the handler, and
its thread clears it and claims it again inside `save_snapshot_sync`. Another save can slip
in. `OneSaver` shows that two saves still never overlap (they share `<path>.tmp`), and
`FlagOwned` that a set flag always has an owner that will clear it. `BgSaveHonoured` shows
that a `BGSAVE` whose thread loses the flag is honoured by the save that took it. Its
premise is that clients do not send `BGSAVE` for ever: each new one may displace the last.
A file operation that fails in this process ends the promise.

A file is fuzzy: it mixes moments of its walk. `PublishedFromWindow` bounds the fuzziness
by the duration of the save, key by key. `ImplementsFuzzy` says the same of the whole as a
refinement: `FuzzySnapshot` has no threads, flag, temporary file or header, only a save
that begins, publishes values of its window or gives up, and a restart that gives the
snapshot back, or a part of it if the load fails. In the mapping a save lasts from the
start of its walk to its rename, the snapshot is the data of the published file, and every
other step is a stutter.

A load can fail: a file that cannot be opened, read or decoded to its end is reported, and
main goes on with what was read. From then on the process lacks the other keys, and its
first save replaces the file that has them. `NeverOlder` therefore compares two published
files only in a process whose load succeeded; there it holds across crashes, disk errors
and restarts.

`FinalSnapshotExact` says that the final snapshot is exact when it is taken. It may not be
taken: a running background save makes it return an error, after which the process ends
and, if that save was a `BGSAVE`, kills it. `FinalYieldsToBackground` says that this is the
only way in which it is refused (a theorem, see below). docs/PRODUCTION_GUIDE.md:164
promises a final snapshot without the exception.

### Strings, expiry and memory

`MEMORY_USED` is updated beside the map. `MemoryConserved` states the balance: the counter
plus what the handlers in flight still have to add or subtract is the size of the map,
modulo 2^64. It holds through every race of `SET`, `MSET`, `INCR`, `DEL`, lazy and passive
expiry and eviction. It is stated for behaviours without `FLUSHDB`, which subtracts the sum
of an earlier walk and leaves expired entries out. In `keyspace_expiry` the counter can
never exceed the limit (`U64 = MaxMemory + 1`), so no command is refused; `keyspace_memory`
has a limit that is reached, and eviction. `INCR` and `MSET` appear in the first of the
two only, because `SoftLimit` does not hold with them: they test the limit with the net
growth over an earlier read, and the entry they read may be gone by the insert.

`SoftLimit` says how far the limit can be passed: by one entry for each connection but one.

A connection takes its timestamp before it waits for the command, so handlers work with a
time that may be long past. `NoPrematureExpiry` says that a decision on an old read never
removes a fresh entry, `ExpiryNotLate` that no entry gets more time than was asked for: the
seconds of `EX` and `EXPIRE`, and for `PX` less than a second more than its milliseconds,
which the code rounds up to seconds. It can give less: a `SET EX` after an idle time as
long as the TTL stores an entry that has expired already (docs/FEATURES.md:26 promises the
TTL). In the same way a `GET` can return an expired value, and `EXPIRE` or `PERSIST` can
revive one.

`keyspace_incr` records a disagreement: two `INCR`s answer the same number.

### Hashes

`HSET` gets or creates the hash under the shard lock and fills it without that lock.
`HsetReachesStore` says that the fields arrive in the hash that the key holds, unless a
command took the key away in between. One such command is an `HDEL` of *other* fields that
empties the hash: its `remove_if` sees the empty hash and not the `HSET` that already holds
the `Arc`. The fields of that `HSET` are then answered and lost, whether they arrive after
the removal or between the test of `remove_if` and the removal, which the lock in the hash
does not span. The theorem on `SweepTakesOnlyLate` says that fields leave the map with the
empty key in the second way only, and `NoEmptyHash` that an empty hash does not stay.
`GrowthCounted` says that overlapping `HSET`s never under-count memory, as long as none
makes the hash smaller by shorter values: two that overlap measure the same shrinking and
both subtract it. With `HDEL` there is no such property for the same reason (see the
hazards).

### Eviction by S3-FIFO

The queues have their own lock, and the entry in the map carries a copy of the queue it is
in (`queue_type`). `QueuesExact`: the sets that answer membership tests and the queues
agree, and the capacities hold, whatever operations overlap. `EvictableUnlessExplained`: an
entry is in some queue, so that an eviction can find it. There are two exceptions, which
the history variables name: a full queue dropped it for a newer key, or it entered the map
while it was in no queue. Such entries stay until they expire or are touched.
`TypeTruthful`: as long as the operations on a key follow one another, the copy is true.

### Append-only file

With policy `always`, an answered write is on the disk (`DurableUnlessRewritten`) except in
two cases. A rewrite drops what is appended between the walk of a key and the swap of the
files; `LossConfined` shows that it drops nothing older than its own beginning, which also
needs that two jobs on their way never get to work together. And a failed
append, or a failed reopen after the rename, is printed and answered all the same; the
history variable `incident` marks behaviours in which that has happened.

With `everysec`, `CleanMeansSynced` says that `dirty` never lies while the process runs,
whatever the rewrite and failed syncs do to it, and `SyncedInTheEnd` that the data reaches
the disk. `RestartRestores` holds when each key has one writing connection. `aof_order` shows
why: the store and the log are written one after the other without a common lock.

Commands are logged after they have run, whatever they answered: a write refused for lack
of memory or a `SET NX` that found the key is logged too, although docs/FEATURES.md speaks of
every successful write command.

In this model a logged command is an absolute write, so applying it twice does no harm. An
`INCR` is not absolute. A rewrite that walks the key after the `INCR` has changed the store
and swaps the files before it is appended leaves a log in which the increment is in the
rewritten value and in the record behind it, and a replay applies it twice. No property
here rules that out; it is listed under the hazards.

### Connections and shutdown

`ExecutedAnswered`: a handler that ends by itself, in whatever state of its batch the
signal, the timeout or the end of the stream found it, has answered what it executed.
`NoNewWork` and `QuietAtExit` order the shutdown: no command begins after the signal, and no
handler is left when the log is synced and the final snapshot is taken. `CountExact` says
that the connection limit compares with a true number. The liveness properties name what they need:

- `ShutdownCompletes`: a signal ends in an exit whatever the clients do, unless it came
  before the accept loop had subscribed to the channel (main.rs:1646). Such a signal is lost.
- `SlotReleased`: the slot of a client that closed is given back, unless it left half a
  command and no `connection_timeout` is set. Then its task reads the end of the stream for
  ever (protocol.rs:46 takes a read of zero bytes for progress).
- `AnsweredInTheEnd`: an executed command is answered, unless its client has sent a part of
  the next one and waits: the flush is skipped while anything is in the buffer.

### Sequential algorithms

Each is a machine that takes one round of its loop a step, so what it computes is an
invariant of its last state. `GlobExact`: the loop with one remembered star decides whether
the pattern can be laid over the key, each star taking any stretch of it. `FragmentSafe`:
however a pipeline arrives, the parser of a connection returns the commands that were sent,
consumes their bytes and no others, and waits only for a command that is not there in full;
it refuses the stream only when the next command does not fit `MAX_BUFFER_SIZE`.
`TornLogDetected`: the reader of a log cut at any byte returns the commands that are there
in full, and reports a clean end if and only if the cut is between two commands.
`ParseExact`: `parse_i64` accepts exactly the numerals in its range, and reads back every
i64 that `write_signed_integer` writes but the least. `ScanExact`: an iteration over an
unchanged store returns live matching keys behind its first cursor only, none twice, and at
its end it has returned all of them *except* perhaps ones at which a full call stopped. The
code does miss those: the cursor of a full call points behind an entry that was not looked
at (docs/EXAMPLES.md:501 offers it to scan all keys safely). A cursor that pointed at the
entry would satisfy the property too.

`RecoveryFaithful`: snapshot and log together give the key back, if the log begins with a
`SET` or `DEL` of it or the snapshot lacks it, and if since the last rewrite of the log the
key has not expired or been evicted, no write of it was refused for want of memory and no
`FLUSHDB` ran. The model has each of these, and each breaks the promise: a refused write is
in the log and succeeds at the restart, an eviction and a `FLUSHDB` are not in the log, an
`INCR` that the snapshot contains is applied again, a deleted key whose `DEL` a rewrite
dropped comes back. A restart may itself run into the limit (`RebootShort`): its replay is
then refused and evicts like live traffic. A rewrite copies what the store holds, and with
it the promise begins anew.

## Bounds

- Two threads or connections suffice for each pairwise race; `hash_keys` has three because
  its interesting races have three parts (an `HSET`, an `HDEL`, a third writer).
- Two versions, or two writes, are the least with which "older" means something.
  `snapshot_live` has one: there only presence, expiry and time matter.
- The clock needs two values: before and after an expiry. `snapshot_keys` has one value,
  so the only expired entries there are deleted ones; `snapshot_live` has two. `PX` is 1 and
  1000 milliseconds: one that is rounded up and one that is not.
- `U64 = 4` in `keyspace_expiry`, with entries of size 2 and 3, lets the counter wrap all the
  time. In `keyspace_memory` it is out of reach, except below zero.
- `MaxErrors = 1` in `Aof`: every failure path is taken, at any point, once. `Snapshot` does
  not bound disk errors.
- `MaxAttempts = 2` for the 100 attempts of `evict_if_needed`: one that frees too little and
  another.
- `MaxCommands = 4` in `hash_keys`: one command to create the hash and three in a race.
  `MaxLen = 1`: a value can become longer or shorter, and a field stays when its value does
  not have a byte.
  This run ends when the commands are used up, so it does not check deadlock.
- `s3fifo`: with two keys, a main queue of one overflows, and the others do not. A small
  queue that overflows puts keys out of it in the same way.
- `server`: the talking client has three halves under way, so that a batch can end with
  the buffer empty, with half a command and at `BatchSize`; the other client only connects
  and closes, which is enough to reach the connection limit and the rate limit. The run ends
  when the server has exited, so it does not check deadlock; neither does `algorithms`,
  whose machines end.
- `algorithms`: `COUNT` is clamped to 1..2 instead of 10..1000 and a cursor counts to 4
  instead of 10^9; `I64Max = 127` makes overflow reachable with three digits. `MaxArray`,
  `MaxString` and `MaxBuffer` are 2, 10 and 19, so that a length of two digits occurs, a command
  is as long as it may be and the buffer overflows. In histories the numbers of a key are
  -2..1, with -2 the one that cannot be parsed back.

Symmetry is used for threads, connections, jobs, keys, fields and objects where the
configuration treats them alike, and never in a run that checks liveness.

## Fairness

- `Snapshot!FairSpec`: weak fairness of each thread's `SaveStep`. A started operating
  system thread keeps running. A disk that fails is not excluded: `BgSaveHonoured` names it
  as an outcome.
- `Aof!FairSpec`: weak fairness of the timer tick of `everysec_task`; strong fairness of
  its sync and of the steps of connections and rewrite jobs, which take the AOF mutex. A
  waiter for a contended mutex is woken in the end, but nothing orders the waiters. Nothing
  is assumed of clients. Syncs fail at most `MaxErrors` times: on a disk that always fails,
  nothing would ever be synced.
- `Server!FairSpec`: weak fairness of main and of each task. The runtime polls every task
  that can go on, timers included. Nothing is assumed of clients, signals and the clock.

## Proofs

TLC checks the instances above; the theorems hold for any sets of threads, connections,
keys and commands and any bounds. Assumptions on the constants are the named `ASSUME`s of
the component modules: sets that must be finite or disjoint are, bounds are natural numbers.
Those that say something about the code:

- `ScanAssumption`: no shard has more than `CursorBase` (10^9) entries; beyond that a cursor
  would name a place in the next shard.
- `RespAssumption`: the commands a client sends are within `MaxArray` and `MaxString`, and the
  least buffer `try_parse` looks at is no longer than the shortest frame, `*0\r\n`. The
  payloads are any bytes.
- `RecoveryAssumption`: `Never` is later than any expiry that is set.

Three theorems have a hypothesis of their own, which says what the clients send:

- `SetsOnly` (of `LimitIsSoft`): the commands are `SET`, `GET`, `DEL`, `EXPIRE` and
  `PERSIST`, there is a connection, and `U64` has room for the limit and an entry of each
  connection. `SoftLimit` does not hold with `INCR` and `MSET` (see above).
- `OneWriter` (of `AnsweredIsDurable` and `RestartLosesNothing`): each key is written by one
  connection. Without it the log may have the versions of a key in the wrong order, which is
  what `aof_order` shows.

`MCKeyspace_memory.cfg` is an instance of the first, `MCAof_always.cfg` and
`MCAof_everysec.cfg` are instances of the second.

| Module | Theorem | Statement |
|---|---|---|
| `Snapshot_proofs` | `SaversExclude`, `FlagHasOwner`, `TypeCorrect`, `PublishedIsComplete`, `SnapshotsNeverGoBack` | `OneSaver`, `FlagOwned`, `TypeOK`, `PublishedComplete`, `NeverOlder` |
| | `SnapshotImplementsFuzzy` | `Spec => ImplementsFuzzy` |
| | `PublishesItsWindow`, `LastSaveIsHonest`, `RestartRestoresAll`, `FinalIsExact`, `FinalYieldsOnlyToBackground` | `PublishedFromWindow`, `LastSaveHonest`, `RestartRestores`, `FinalSnapshotExact`, `FinalYieldsToBackground` |
| `Keyspace_proofs` | `TypeCorrect`, `FreshEntriesStay`, `NoLateExpiry` | `TypeOK`, `NoPrematureExpiry`, `ExpiryNotLate` |
| | `NoMemoryLost` | `MemoryConserved` |
| | `LimitIsSoft` | `SoftLimit`, assuming `SetsOnly` |
| `HashKeys_proofs` | `TypeCorrect`, `HsetReaches`, `SweepTakesOnlyLateFields`, `NoEmptyHashLeft`, `GrowthIsCounted` | `TypeOK`, `HsetReachesStore`, `SweepTakesOnlyLate`, `NoEmptyHash`, `GrowthCounted` |
| `S3Fifo_proofs` | `QueuesAreExact`, `EntriesAreEvictable`, `TypesAreTruthful` | `QueuesExact`, `EvictableUnlessExplained`, `TypeTruthful` |
| `Aof_proofs` | `TypeCorrect`, `OneRewriteAtATime`, `CleanIsSynced`, `LossIsConfined`, `SizeCoversFile` | `TypeOK`, `OneRewrite`, `CleanMeansSynced`, `LossConfined`, `SizeCovers` |
| | `AnsweredIsDurable`, `RestartLosesNothing` | `DurableUnlessRewritten`, `RestartRestores`, assuming `OneWriter` |
| `Server_proofs` | `NoWorkAfterSignal`, `RepliesNotDropped`, `QuietWhenFilesClose`, `RateLimitHolds`, `ActiveIsExact` | `NoNewWork`, `ExecutedAnswered`, `QuietAtExit`, `RateHeld`, `CountExact` |
| `Algorithms_proofs` | `GlobDecides`, `GlobEnds` | `GlobExact`, `GlobAdvances` |
| | `ScanIsExact` | `ScanExact` |
| | `RecoveryIsFaithful` | `RecoveryFaithful` |
| `Resp_proofs` | `ParseIsExact`, `FragmentsAreSafe`, `TornLogsAreDetected` | `ParseExact`, `FragmentSafe`, `TornLogDetected` |

The arguments:

- **Snapshot.** `OneSaver` is not inductive: a second thread could claim a flag that the
  first has lost. `MutexInv` adds that a holder implies a set flag; then claiming needs a
  clear flag, and only the holder clears it. Completeness of the published file needs to
  know what the temporary file looks like while one thread writes it: `FileInv` says that it
  belongs to the holder, that after the patch its count is right, and that each of its
  entries lies between the published file and the store. The last part carries `NeverOlder`:
  rename moves the published file forward, never past the store, and `LoadSnapshot` restores
  the store to the published file, all of it (`LoadReadsAll`). It is stated for `Intact`
  processes, whose load did not fail; a failed load breaks it, and the next successful one
  restores it.
- **Window.** `WindowInv` relates, for the thread that walks, each key to what it was when
  the save began: the key has only moved on, what has been written of it is a value since
  then, and a key that was left out is still to be visited, was expired or has been written
  meanwhile. At the rename nothing is left to visit, and this is `Faithful`, the guard of
  `Publish` in `FuzzySnapshot`; that is the only step of the refinement that is not
  immediate. `TimeInv` adds that header and `LAST_SAVE_TIME` agree. `FinalInv` says who can
  run together with the final snapshot, which is why the store stands still under it.
- **Keyspace.** `Inv` types the record of each thread (`Good`: which fields mean something
  where) and says that no thread's timestamp is in the future. That a removal on an old read
  tests the entry again under the lock then gives `NoPrematureExpiry`. Old timestamps, with
  what `Seconds` can add to the milliseconds of `PX` (`SecondsOf`), give `ExpiryNotLate`.
- **Memory.** A sum is the number of its units (`Units`): an entry of size 3 is three
  pairs. Finite sets have theorems where sums would need an induction, and that a step
  which changes one key or one thread changes a sum by one term is a lemma about two sets
  (`SumParts`, `SumChanges`). `MemoryInv` adds to the balance that the map is finite and
  that `flushed` marks every behaviour with a `FLUSHDB` under way. Each action then
  satisfies `Balanced`: what the map gains, the thread owes. `LimitInv` is the invariant of
  the limit. The map alone does not carry it, because a `SET` is admitted long before it
  stores; `LimitInv` bounds what `MEMORY_USED` stands for (the map, plus what is still to
  be subtracted, minus what is still to be added) together with what is admitted and not
  yet counted. When `evict_if_needed` admits one, `MEMORY_USED` plus the entry fits the
  limit, and of all other connections each has at most one entry that the counter does not
  know. That sum stays below `U64`, so the counter the test reads has not wrapped.
- **HashKeys.** `Attached`: an `HSET` about to fill holds the hash of the key or has been
  marked by the command that took it away. `Swept`: the hash that an `HDEL` is about to
  remove is the one it found empty, and empty still unless an `HSET` has come late; this
  needs `Guarded` and the shard lock, which keep every other command away in between.
  `Cared`: an empty hash has somebody who will fill it, sweep it or remove it. `Growing`: as
  long as nothing shrinks, the counter covers the hash, or one `HSET` under way has found no
  more than the counter and will add all the growth since.
- **S3Fifo.** `Without` (the `retain` of a queue) is a recursive function; what it keeps is
  shown by taking a least counterexample. With its lemmas each method of `S3FifoQueues` keeps
  the queues `InOrder`. `IInv` says of an entry that no eviction can find that some thread is
  about to place or remove it; and of each key whose operations have not overlapped that at
  most one thread works on it, with what that thread can rely on at each place (`Local`: after
  `unqueue` the key is in no queue, before `insert` the type it will write is true, ...). The
  types in the map are false in between, so the part on the threads is what makes
  `TypeTruthful` inductive.
- **Aof.** `LockInv` says who holds the mutex and what is still then; `DownInv` that nothing
  is under way in a process that is gone; `OrphanInv` that a descriptor without a name
  belongs to a rewrite that is about to reopen, or to one that failed. These carry
  `CleanMeansSynced`. `CarryInv` says that a rewrite's file has, for each key it has read,
  the version the key had at the beginning or a later one; with `WholeInv` (no broken record
  in a log that runs) this is `LossConfined`. `SizeInv` counts the appends that are in the
  file and not yet in `size_bytes`.
- **Durability.** That an answered write is in the synced part of the file, or superseded in
  it, is lost at the swap unless the superseding record is itself carried over. `HeldInv` asks
  it to be the write itself (which the swap then marks as lost if it drops it) or a record the
  running rewrite began with (`Based`; `CarryInv` carries those). It speaks of the synced
  part under `always`, of file and buffer under the other policies, and also of the writes
  between their fsync and their answer. The claim of a rewrite takes the present store as its
  beginning, and for that to be no older than any record, nothing in the files may be newer
  than the store: `OldInv`. Replay takes the last record of a key, the theorems want the
  newest: `OrderInv` says that they are the same, from one writer per key (the write a
  connection has not yet appended is the newest of its key), through buffer, log and the file
  of the rewrite. `TailInv` (only the last record is ever cut short) and `LastInv` (the final
  sync leaves no buffer) serve the two ways a process ends.
- **Server.** `TasksInv`: a handler that runs hears the shutdown, a task that does not came
  after it, and only a flush to a client that is gone fails. `RateInv` relates the window of
  `check_rate_limit` to the clock. `CountExact` counts handlers as a finite set.
- **Recursion.** Two definitions recurse over a sequence: the value of a digit string
  (`Prefixes`) and the replay of a log (`Replay`). TLA+ defines such a function by CHOOSE,
  so that one exists has to be shown: `Recursion` does, with the step of the recursion as a
  function instead of an operator. `StayTogether` shows that two functions that begin alike
  and go on alike are alike. Both take a least counterexample. With them, a longer sequence
  has the values of its prefixes, and that is all the invariants need: the loops of the
  code are steps, so the induction over the input is the one over the behaviour.
- **Glob.** `Undecided` says at each round that the whole pattern matches if and only if the
  rest behind the last star does, from the byte at which that star was last tried or a later
  one; `Fitting` says what was matched since. The step that needs an argument is the next
  star: the loop forgets the one before it. That loses nothing, because a match in which the
  earlier star takes more is also one in which the later star does.
- **Scan.** `ScanInv` orders the store by `Place`, the cursor that names an entry: what was
  returned is the matching entries from the first cursor up to the present place, without
  those at which a full call stopped. That the coding of cursors keeps the order is where the
  size of a shard comes in.
- **Recovery.** The invariant cannot speak of the restart alone: after one, the log is
  executed again, later. `Coherent` says that the log executed on an empty store at *any* time
  from now on gives the value of the entry and an expiry that fits (`Fits`), and that what it
  gives later fits what it gives earlier, which the restart needs to keep it. Commands keep it
  because one that is executed at two times on entries that fit leaves entries that fit
  (`ExecuteFits`). An anchored log forgets the snapshot, so this is all a restart needs. A
  refused write, an eviction or a short restart suspends the claim (`excused`); a rewrite
  establishes it from nothing, since the log it writes recreates the entry at any later time.
- **Numbers.** `Writing`: the digits so far, behind what is left of the number, mean the
  number. `Parsed`: the value so far is that of the prefix and within range; a refusal at a
  prefix is one of the whole, since the magnitude only grows.
- **Frames.** `FramesInv` lays the stream out: headers and payloads follow one another without
  a gap, each header is a mark, a digit string that means the right length, CR and LF. It is
  kept by writing, because bytes in place do not change (`Grown`).
- **Parser.** `ParserInv` gives the place of `try_parse` in that layout: in which command, how
  many arguments it has, in which header and with the value of the digits so far, or at which
  payload. The next byte is then known (`HeaderByte`), so a branch that refuses is impossible,
  and lengths read are those written, so a payload is skipped whatever is in it. Each way to
  give up and wait is one where the end of the command has not arrived (`Outstanding`).
- **Reader.** `ReaderInv` does the same for `CommandReader`. The first LF from the place of a
  header on is the one that ends it (`HeaderLine`); a line or payload that the cut has shortened
  cannot be taken for a whole one, and then the cut is inside the command (`Torn`).

Some of these properties are stated in the component modules and proved, and no run of
their own repeats them: the type invariants of `Snapshot`, `HashKeys` and `Aof`,
`PublishedComplete`, `RestartRestores` of `Snapshot` and `FinalYieldsToBackground`,
`SweepTakesOnlyLate`, `OneRewrite`, `RateHeld` and `GlobAdvances`.

Every safety property that a run checks and that holds has a theorem. The six machines of
`Algorithms` are proved one by one, each under its own specification; `Algorithms` only runs one
of them at a time. Checked by TLC only:

- liveness under fairness (`BgSaveHonoured`, `SyncedInTheEnd`, `ShutdownCompletes`, `SlotReleased`,
  `AnsweredInTheEnd`), which is out of the prover's reach;
- that the two runs that end in a violation do end so: a counterexample is an instance.

The inductive invariants of `S3Fifo` and of durability, two whose statement is the least
obvious, were model-checked before they were proved, the latter under all three policies with
2 connections, 1 job, 3 writes, every failure and a power loss.

## Assumptions of the models

- `Snapshot`: `persistence.enabled` and `save_on_shutdown` are on. Rename is atomic. A
  crash is one of the process; `save_snapshot_sync` does not fsync, so after a power
  loss the file system decides.
- `Aof`: rename is atomic and durable, and the pages of a process that ended reach the
  disk. `Aof::open` starts with `dirty = false` on that assumption. A logged command is an
  absolute write of one key. A failing append is a failing flush or fsync under policy
  `always`. The properties of `always` are stated for behaviours without an `incident`.
- `Keyspace`: a map operation is atomic, as `DashMap` locks the key's shard. The victim of
  a sampling is any key of the map, or none, since the shards are picked at random. `SET GET`
  and `MGET` only add reads and are left out. A TTL near 2^64, with which `now + ttl` wraps,
  is out of the range of the model. Whether a refused write was necessary depends on the
  random draw (the loop gives up at the first empty sample), so no property says that it was.
- `HashKeys`: `DEL`, `SET` and `EXPIRE` of the key are one critical section each.
- `S3Fifo`: two keys never share a hash in the ghost queue.
- `Server`: both limits are configured. A receiver that subscribes after the signal was
  sent is not woken by it, as in `tokio::sync::watch`.
- `Recovery`: commands, saves and rewrites of the history do not overlap; what happens when
  they do is the subject of `Snapshot` and `Aof`. `Scan`: nobody writes between the calls,
  since an insertion or a removal shifts the positions.

## Not modelled

- Which lock guards are alive inside `evict_random` and `expire_random_keys` when they
  remove a key. The answer lies in the lifetimes of temporaries and in `dashmap`.
- `AUTH`, `INFO`, `LASTSAVE`, `DBSIZE`, `PING` and the dispatch of `execute_command`: they
  read, or act on one connection's own state.
- The buffer pool, TLS, the health endpoint, configuration and the copy of the store in
  `lib.rs` have no concurrent state worth a model.

`PROJECT.json` lists each with its reason, and under "hazards" what can go wrong in this
code, with the properties that would catch it and the reason where there are none.
