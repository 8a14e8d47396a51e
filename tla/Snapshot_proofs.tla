--------------------------- MODULE Snapshot_proofs ---------------------------
(***************************************************************************)
(* Proofs about Snapshot for any number of threads and keys and any bounds: *)
(* the type invariant, mutual exclusion of savers, completeness of the      *)
(* published file, that a published file never goes back in time and lies   *)
(* within the window of its save, and that Snapshot implements              *)
(* FuzzySnapshot.                                                           *)
(***************************************************************************)
EXTENDS Snapshot, FiniteSetTheorems, TLAPS

\* Only the holder of the flag is between claim and release, so a clear of the flag is
\* always the holder's own.
FlagHeld == \A t \in Threads : pc[t] \in Holding => SAVE_IN_PROGRESS

MutexInv == pc \in [Threads -> Pcs] /\ FlagHeld /\ OneSaver

\* MutexInv is inductive: claiming needs a clear flag, and clearing it is the last thing
\* a holder does (or, in the BGSAVE thread, makes it a non-holder again).
LEMMA MutexInit == Init => MutexInv
  BY DEF Init, MutexInv, FlagHeld, OneSaver, Pcs, Holding

LEMMA MutexStep == MutexInv /\ [Next]_vars => MutexInv'
<1> SUFFICES ASSUME MutexInv, [Next]_vars PROVE MutexInv'
  OBVIOUS
<1> USE DEF MutexInv, FlagHeld, OneSaver, Pcs, Holding
<1>1. CASE \E k \in Keys : Write(k)
  BY <1>1 DEF Write, flags, locals
<1>2. CASE Tick
  BY <1>2 DEF Tick, flags, locals
<1>3. ASSUME NEW t \in Threads, SaveCommand(t) \/ SnapshotTick(t) \/ StartFinalSnapshot(t) PROVE MutexInv'
  BY <1>3 DEF SaveCommand, SnapshotTick, StartFinalSnapshot, Start
<1>4. ASSUME NEW t \in Threads, BgSaveCommand(t) PROVE MutexInv'
  BY <1>4 DEF BgSaveCommand, Start
<1>5. ASSUME NEW t \in Threads, SaveStep(t) PROVE MutexInv'
  <2>1. CASE BgSaveThreadClears(t)
    BY <2>1 DEF BgSaveThreadClears, Goto
  <2>2. CASE SwapFlag(t)
    BY <2>2 DEF SwapFlag, Goto
  <2>3. CASE CreateTemp(t) \/ PatchCount(t)
    BY <2>3 DEF CreateTemp, PatchCount, Goto, flags
  <2>4. CASE \E k \in Keys : WalkKey(t, k)
    BY <2>4 DEF WalkKey, flags
  <2>5. CASE Rename(t) \/ StampTime(t)
    BY <2>5 DEF Rename, StampTime, Goto, flags
  <2>6. CASE ReleaseFlag(t)
    BY <2>6 DEF ReleaseFlag, Goto
  <2> QED BY <1>5, <2>1, <2>2, <2>3, <2>4, <2>5, <2>6 DEF SaveStep
<1>6. ASSUME NEW t \in Threads, IoError(t) PROVE MutexInv'
  BY <1>6 DEF IoError, Goto, flags
<1>7. CASE MainReturns
  BY <1>7 DEF MainReturns, flags, locals
<1>8. CASE ProcessExits \/ Crash
  BY <1>8 DEF ProcessExits, Crash, Stop
<1>9. CASE LoadSnapshot \/ LoadFails
  BY <1>9 DEF LoadSnapshot, LoadFails, flags, locals
<1>10. CASE UNCHANGED vars
  BY <1>10 DEF vars, flags, locals
<1> QED BY <1>1, <1>2, <1>3, <1>4, <1>5, <1>6, <1>7, <1>8, <1>9, <1>10 DEF Next

\* Savers exclude each other, whatever mix of SAVE, BGSAVE, periodic and final snapshots
\* runs.
THEOREM SaversExclude == Spec => []OneSaver
<1>1. Init => MutexInv
  BY MutexInit
<1>2. MutexInv => OneSaver
  BY DEF MutexInv
<1> QED BY <1>1, <1>2, MutexStep, PTL DEF Spec

\* A step of a holder to another holding place keeps it the owner of the flag.
LEMMA StillOwned ==
    ASSUME MutexInv, FlagOwned, NEW t \in Threads, pc[t] \in Holding, NEW p \in Holding, Goto(t, p)
    PROVE FlagOwned'
<1> t \in DOMAIN pc /\ pc'[t] = p
  BY DEF MutexInv, Goto
<1> QED BY DEF FlagOwned

\* FlagOwned is preserved: a claim makes its thread the owner, and nobody leaves the
\* holding places without clearing the flag.
LEMMA OwnedStep == MutexInv /\ FlagOwned /\ [Next]_vars => FlagOwned'
<1> SUFFICES ASSUME MutexInv, FlagOwned, [Next]_vars PROVE FlagOwned'
  OBVIOUS
<1>1. CASE UNCHANGED <<pc, SAVE_IN_PROGRESS>>
  BY <1>1 DEF FlagOwned
<1>2. ASSUME NEW t \in Threads, SaveCommand(t) \/ SnapshotTick(t) \/ StartFinalSnapshot(t) PROVE FlagOwned'
  BY <1>2, Zenon DEF SaveCommand, SnapshotTick, StartFinalSnapshot, Start, FlagOwned, MutexInv, Holding
<1>3. ASSUME NEW t \in Threads, BgSaveCommand(t) PROVE FlagOwned'
  BY <1>3 DEF BgSaveCommand, Start, FlagOwned, MutexInv, Holding
<1>4. ASSUME NEW t \in Threads, SwapFlag(t) PROVE FlagOwned'
  BY <1>4 DEF SwapFlag, Goto, FlagOwned, MutexInv, Holding
<1>5. ASSUME NEW t \in Threads, CreateTemp(t) \/ PatchCount(t) \/ Rename(t) \/ StampTime(t) \/ IoError(t)
      PROVE FlagOwned'
  BY <1>5, StillOwned DEF CreateTemp, PatchCount, Rename, StampTime, IoError, Holding
<1>6. ASSUME NEW t \in Threads, BgSaveThreadClears(t) \/ ReleaseFlag(t) PROVE FlagOwned'
  BY <1>6 DEF BgSaveThreadClears, ReleaseFlag, FlagOwned
<1>7. CASE ProcessExits \/ Crash
  BY <1>7 DEF ProcessExits, Crash, Stop, FlagOwned
<1> QED
  BY <1>1, <1>2, <1>3, <1>4, <1>5, <1>6, <1>7, Zenon
  DEF Next, SaveStep, Write, Tick, WalkKey, MainReturns, LoadSnapshot, LoadFails, vars, flags, locals

\* A set flag always has an owner that will clear it, for any number of threads and
\* whichever file operation fails.
THEOREM FlagHasOwner == Spec => []FlagOwned
<1>1. Init => MutexInv /\ FlagOwned
  BY MutexInit DEF Init, FlagOwned
<1> QED BY <1>1, MutexStep, OwnedStep, PTL DEF Spec

----------------------------------------------------------------------------
(* Types. *)

LEMMA FilesFacts ==
    ASSUME NEW f \in Files
    PROVE  /\ f.found = TRUE /\ f.time \in Times /\ f.count \in 0..Cardinality(Keys)
           /\ DOMAIN f.data \subseteq Keys /\ f.data \in [DOMAIN f.data -> Entries]
           /\ f.writers \subseteq Threads
  BY Zenon DEF Files

LEMMA FilesIntro ==
    ASSUME NEW tm \in Times, NEW c \in 0..Cardinality(Keys), NEW S \in SUBSET Keys,
           NEW d \in [S -> Entries], NEW w \in SUBSET Threads
    PROVE  [found |-> TRUE, time |-> tm, count |-> c, data |-> d, writers |-> w] \in Files
  BY DEF Files

LEMMA PatchFile ==
    ASSUME NEW f \in Files, NEW c \in 0..Cardinality(Keys), NEW t \in Threads
    PROVE  [f EXCEPT !.count = c, !.writers = @ \cup {t}] \in Files
  BY Zenon DEF Files

\* A file with one more entry.
WithEntry(f, k, e, t) ==
    [f EXCEPT !.data = [j \in DOMAIN @ \cup {k} |-> IF j = k THEN e ELSE @[j]], !.writers = @ \cup {t}]

LEMMA WalkFile ==
    ASSUME NEW f \in Files, NEW k \in Keys, NEW e \in Entries, NEW t \in Threads
    PROVE  WithEntry(f, k, e, t) \in Files
<1> DEFINE d == [j \in DOMAIN f.data \cup {k} |-> IF j = k THEN e ELSE f.data[j]]
<1>1. d \in [DOMAIN f.data \cup {k} -> Entries] /\ DOMAIN f.data \cup {k} \in SUBSET Keys
  BY FilesFacts, Zenon
<1>2. d \in UNION {[S -> Entries] : S \in SUBSET Keys}
  BY <1>1, Zenon
<1> HIDE DEF d
<1>3. [f EXCEPT !.data = d, !.writers = @ \cup {t}] \in Files
  BY <1>2, Zenon DEF Files
<1> QED BY <1>3 DEF d, WithEntry

LEMMA EmptyDbType == EmptyDb \in [Keys -> Entries] /\ Absent \in Entries
  BY BoundsAssumption DEF EmptyDb, Absent, Entries, Never

LEMMA FirstTime == 1 \in Times
  BY BoundsAssumption DEF Times

LEMMA ExpiredEntry ==
    ASSUME NEW e \in Entries
    PROVE  [e EXCEPT !.exp = 0] \in Entries
<1>1. 0 \in 0..Never
  BY BoundsAssumption DEF Never
<1> QED BY <1>1 DEF Entries

LEMMA DomainCount ==
    ASSUME NEW f \in Files
    PROVE  /\ IsFiniteSet(DOMAIN f.data)
           /\ Cardinality(DOMAIN f.data) \in 0..Cardinality(Keys)
<1>1. DOMAIN f.data \in SUBSET Keys
  BY FilesFacts, Zenon
<1> QED BY <1>1, KeysAssumption, FS_Subset, FS_CardinalityType

LEMMA TypeInit == Init => TypeOK
<1> SUFFICES ASSUME Init PROVE TypeOK
  OBVIOUS
<1> QED BY FirstTime, EmptyDbType, Zenon DEF Init, TypeOK, Pcs, Kinds

\* Whatever part of the file a load reads, it is entries.
LEMMA RestoredType ==
    ASSUME TypeOK, NEW S \in SUBSET Stored(file)
    PROVE  Restored(S) \in [Keys -> Entries]
<1>1. ASSUME NEW k \in S PROVE file.data[k] \in Entries /\ [file.data[k] EXCEPT !.exp = 0] \in Entries
  <2>1. file \in Files /\ k \in DOMAIN file.data
    BY DEF TypeOK, Stored, NoFile
  <2>2. file.data[k] \in Entries
    BY <2>1, FilesFacts, Zenon
  <2> QED BY <2>2, ExpiredEntry
<1> QED BY <1>1, EmptyDbType DEF Restored

\* What the walk needs of the temporary file: it exists and the holder alone wrote it.
TmpOwned ==
    \A t \in Threads : pc[t] \in {"walk", "publish"} => tmp.found = TRUE /\ tmp.writers = {t}

LEMMA TypeStep == TypeOK /\ TmpOwned /\ [Next]_vars => TypeOK'
<1> SUFFICES ASSUME TypeOK, TmpOwned, [Next]_vars PROVE TypeOK'
  OBVIOUS
<1> USE DEF TypeOK, Pcs, Kinds
<1>1. ASSUME NEW k \in Keys, Write(k) PROVE TypeOK'
  <2>1. PICK x \in {0} \cup (clock + 1)..Never : db' = [db EXCEPT ![k] = [ver |-> @.ver + 1, exp |-> x]]
    BY <1>1, Zenon DEF Write
  <2>2. [ver |-> db[k].ver + 1, exp |-> x] \in Entries
    BY <1>1, BoundsAssumption DEF Write, Entries, Never, Times
  <2> QED BY <1>1, <2>1, <2>2 DEF Write, flags, locals, files
<1>2. CASE Tick
  BY <1>2, BoundsAssumption DEF Tick, flags, locals, files, Times
<1>3. ASSUME NEW t \in Threads, SaveCommand(t) \/ SnapshotTick(t) \/ StartFinalSnapshot(t) \/ BgSaveCommand(t)
      PROVE TypeOK'
  BY <1>3, Zenon DEF SaveCommand, SnapshotTick, StartFinalSnapshot, BgSaveCommand, Start, store, files
<1>4. ASSUME NEW t \in Threads, SaveStep(t) PROVE TypeOK'
  <2>1. CASE BgSaveThreadClears(t) \/ SwapFlag(t)
    BY <2>1, Zenon DEF BgSaveThreadClears, SwapFlag, Goto, store, files
  <2>2. CASE CreateTemp(t)
    <3>1. tmp' \in Files
      <4>1. [k \in {} |-> db[k]] \in [{} -> Entries] /\ {} \in SUBSET Keys /\ {t} \in SUBSET Threads
        OBVIOUS
      <4>2. 0 \in 0..Cardinality(Keys)
        BY KeysAssumption, FS_CardinalityType
      <4> QED BY <2>2, <4>1, <4>2, FilesIntro, Zenon DEF CreateTemp
    <3> QED BY <2>2, <3>1 DEF CreateTemp, Goto, store, flags
  <2>3. ASSUME NEW k \in Keys, WalkKey(t, k) PROVE TypeOK'
    <3>1. tmp \in Files
      BY <2>3 DEF WalkKey, TmpOwned, NoFile
    <3>2. db[k] \in Entries
      OBVIOUS
    <3>3. tmp' \in Files
      <4>1. CASE Expired(db[k], now[t])
        BY <2>3, <3>1, <4>1, Zenon DEF WalkKey
      <4>2. CASE ~Expired(db[k], now[t])
        <5>1. tmp' = WithEntry(tmp, k, db[k], t)
          BY <2>3, <4>2, Zenon DEF WalkKey, WithEntry
        <5>2. t \in Threads
          BY <1>4
        <5> QED BY <3>1, <3>2, <5>1, <5>2, WalkFile, Zenon
      <4> QED BY <4>1, <4>2
    <3> QED BY <2>3, <3>3 DEF WalkKey, store, flags
  <2>4. CASE PatchCount(t)
    <3>1. tmp \in Files
      BY <2>4 DEF PatchCount, TmpOwned, NoFile
    <3>2. tmp' \in Files
      BY <2>4, <3>1, PatchFile, DomainCount, Zenon DEF PatchCount
    <3> QED BY <2>4, <3>2 DEF PatchCount, Goto, store, flags
  <2>5. CASE Rename(t)
    BY <2>5 DEF Rename, Goto, store, flags
  <2>6. CASE StampTime(t)
    BY <2>6 DEF StampTime, Goto, store, files
  <2>7. CASE ReleaseFlag(t)
    BY <2>7, EmptyDbType, FirstTime, Zenon DEF ReleaseFlag, Goto, store, files
  <2> QED BY <1>4, <2>1, <2>2, <2>3, <2>4, <2>5, <2>6, <2>7 DEF SaveStep
<1>5. ASSUME NEW t \in Threads, IoError(t) PROVE TypeOK'
  BY <1>5 DEF IoError, Goto, store, flags, files
<1>6. CASE MainReturns
  BY <1>6 DEF MainReturns, store, flags, locals, files
<1>7. CASE ProcessExits \/ Crash
  <2>1. \E p \in {"exited", "down"} : Stop(p)
    BY <1>7, Zenon DEF ProcessExits, Crash
  <2>2. PICK p \in {"exited", "down"} : Stop(p)
    BY <2>1
  <2> QED BY <2>2, EmptyDbType, FirstTime, Zenon DEF Stop, store, files
<1>8. CASE LoadSnapshot \/ LoadFails
  <2>1. PICK S \in SUBSET Stored(file) : db' = Restored(S)
    BY <1>8, Zenon DEF LoadSnapshot, LoadFails
  <2>2. db' \in [Keys -> Entries]
    BY <2>1, RestoredType
  <2> QED BY <1>8, <2>2 DEF LoadSnapshot, LoadFails, flags, locals, files
<1>9. CASE UNCHANGED vars
  BY <1>9 DEF vars, store, flags, locals, files
<1> QED BY <1>1, <1>2, <1>3, <1>4, <1>5, <1>6, <1>7, <1>8, <1>9 DEF Next

----------------------------------------------------------------------------
(* The two files. *)

TmpCounted ==
    \A t \in Threads : pc[t] = "publish" => tmp.count = Cardinality(DOMAIN tmp.data)

\* The process runs, and it began with all of the published file.
Intact == phase \notin {"down", "exited"} /\ "load" \notin failed

\* Then the published file is never ahead of the store ...
FileBehindStore == Intact => \A k \in Stored(file) : file.data[k].ver <= db[k].ver

\* ... and what a walk has collected lies between the two.
TmpBetween ==
    \A t \in Threads : pc[t] \in {"walk", "publish"} =>
        \A k \in DOMAIN tmp.data :
            /\ tmp.data[k].ver <= db[k].ver
            /\ Intact /\ k \in Stored(file) => file.data[k].ver <= tmp.data[k].ver

FileInv == TmpOwned /\ TmpCounted /\ PublishedComplete /\ FileBehindStore /\ TmpBetween

\* No thread runs while the process is down.
PhaseInv == phase \in {"down", "exited"} => \A t \in Threads : pc[t] = "idle"

IInv == TypeOK /\ MutexInv /\ PhaseInv /\ FileInv

\* Versions are numbers.
LEMMA VersionsNat ==
    ASSUME TypeOK
    PROVE  /\ \A k \in Keys : db[k].ver \in Nat
           /\ \A k \in Stored(file) : k \in Keys /\ file.data[k].ver \in Nat
           /\ \A k \in Stored(tmp) : k \in Keys /\ tmp.data[k].ver \in Nat
<1>1. \A e \in Entries : e.ver \in Nat
  BY BoundsAssumption DEF Entries
<1>2. ASSUME NEW f \in Files \cup {NoFile}, NEW k \in Stored(f) PROVE k \in Keys /\ f.data[k] \in Entries
  <2>1. f \in Files /\ k \in DOMAIN f.data
    BY <1>2 DEF Stored, NoFile
  <2> QED BY <2>1, FilesFacts, Zenon
<1>3. tmp \in Files \cup {NoFile} /\ file \in Files \cup {NoFile} /\ db \in [Keys -> Entries]
  BY DEF TypeOK
<1> QED BY <1>1, <1>2, <1>3

\* A step that leaves the store and the files alone and lets no thread into the walk.
LEMMA QuietStep ==
    ASSUME FileInv, UNCHANGED <<db, tmp, file>>, Intact' => Intact,
           \A t \in Threads : pc'[t] \in {"walk", "publish"} => pc'[t] = pc[t]
    PROVE  FileInv'
  BY DEF FileInv, TmpOwned, TmpCounted, PublishedComplete, FileBehindStore, TmpBetween, Stored

LEMMA FileInit == Init => FileInv
  BY DEF Init, FileInv, TmpOwned, TmpCounted, PublishedComplete, FileBehindStore, TmpBetween,
         Stored, NoFile

LEMMA WriteKeepsFileInv ==
    ASSUME IInv, NEW k \in Keys, Write(k)
    PROVE  FileInv'
<1>1. PICK x : db' = [db EXCEPT ![k] = [ver |-> @.ver + 1, exp |-> x]]
  BY Zenon DEF Write
<1>2. \A j \in Keys : db[j].ver \in Nat /\ db'[j].ver \in Nat /\ db[j].ver <= db'[j].ver
  BY <1>1, VersionsNat DEF IInv, TypeOK
<1>3. UNCHANGED <<pc, tmp, file>> /\ Intact' = Intact
  BY DEF Write, locals, files, Intact
<1>4. FileBehindStore'
  BY <1>2, <1>3, VersionsNat DEF IInv, FileInv, FileBehindStore, Stored
<1>5. TmpBetween'
  <2> SUFFICES ASSUME NEW t \in Threads, pc[t] \in {"walk", "publish"}, NEW j \in DOMAIN tmp.data
               PROVE tmp.data[j].ver <= db'[j].ver
    BY <1>3 DEF TmpBetween, Stored, IInv, FileInv
  <2>1. j \in Stored(tmp) /\ tmp.data[j].ver <= db[j].ver
    BY DEF IInv, FileInv, TmpOwned, TmpBetween, Stored
  <2> QED BY <1>2, <2>1, VersionsNat DEF IInv
<1> QED BY <1>3, <1>4, <1>5 DEF IInv, FileInv, TmpOwned, TmpCounted, PublishedComplete

LEMMA CreateKeepsFileInv ==
    ASSUME IInv, NEW t \in Threads, CreateTemp(t)
    PROVE  FileInv'
<1>1. \A u \in Threads : pc'[u] \in {"walk", "publish"} => u = t
  BY DEF IInv, MutexInv, OneSaver, CreateTemp, Goto, Holding
<1>2. /\ pc'[t] = "walk" /\ tmp'.found = TRUE /\ tmp'.writers = {t} /\ DOMAIN tmp'.data = {}
      /\ UNCHANGED <<db, file>> /\ Intact' = Intact
  BY DEF IInv, MutexInv, CreateTemp, Goto, store, Intact
<1> QED BY <1>1, <1>2 DEF IInv, FileInv, TmpOwned, TmpCounted, PublishedComplete, FileBehindStore,
                         TmpBetween, Stored

LEMMA WalkKeepsFileInv ==
    ASSUME IInv, NEW t \in Threads, NEW k \in Keys, WalkKey(t, k)
    PROVE  FileInv'
<1>1. \A u \in Threads : pc'[u] \in {"walk", "publish"} => u = t
  BY DEF IInv, MutexInv, OneSaver, WalkKey, Holding
<1>2. UNCHANGED <<pc, db, file>> /\ pc[t] = "walk" /\ Intact' = Intact
  BY DEF WalkKey, store, Intact
<1>3. tmp \in Files /\ tmp.writers = {t}
  BY <1>2 DEF IInv, TypeOK, FileInv, TmpOwned, NoFile
<1>4. CASE Expired(db[k], now[t])
  BY <1>2, <1>4, QuietStep DEF WalkKey, IInv
<1>5. CASE ~Expired(db[k], now[t])
  <2>1. /\ tmp'.found = TRUE /\ tmp'.writers = {t}
        /\ tmp'.data = [j \in DOMAIN tmp.data \cup {k} |-> IF j = k THEN db[k] ELSE tmp.data[j]]
    BY <1>3, <1>5, Zenon DEF WalkKey, Files
  <2>2. ASSUME NEW j \in DOMAIN tmp'.data
        PROVE tmp'.data[j].ver <= db[j].ver /\ (Intact /\ j \in Stored(file) => file.data[j].ver <= tmp'.data[j].ver)
    BY <1>2, <2>1, VersionsNat DEF IInv, FileInv, TmpBetween, FileBehindStore
  <2> QED BY <1>1, <1>2, <2>1, <2>2, Zenon DEF IInv, FileInv, TmpOwned, TmpCounted, PublishedComplete,
                                       FileBehindStore, TmpBetween, Stored
<1> QED BY <1>4, <1>5

LEMMA PatchKeepsFileInv ==
    ASSUME IInv, NEW t \in Threads, PatchCount(t)
    PROVE  FileInv'
<1>1. \A u \in Threads : pc'[u] \in {"walk", "publish"} => u = t
  BY DEF IInv, MutexInv, OneSaver, PatchCount, Goto, Holding
<1>2. UNCHANGED <<db, file>> /\ pc[t] = "walk" /\ Intact' = Intact
  BY DEF PatchCount, store, Intact
<1>3. tmp \in Files /\ tmp.writers = {t}
  BY <1>2 DEF IInv, TypeOK, FileInv, TmpOwned, NoFile
<1>4. /\ tmp'.found = TRUE /\ tmp'.writers = {t} /\ tmp'.data = tmp.data
      /\ tmp'.count = Cardinality(DOMAIN tmp.data)
  BY <1>3, Zenon DEF PatchCount, Files
<1> QED BY <1>1, <1>2, <1>4, Zenon DEF IInv, FileInv, TmpOwned, TmpCounted, PublishedComplete,
                               FileBehindStore, TmpBetween, Stored

LEMMA RenameKeepsFileInv ==
    ASSUME IInv, NEW t \in Threads, Rename(t)
    PROVE  FileInv'
<1>1. \A u \in Threads : pc'[u] \notin {"walk", "publish"}
  BY DEF IInv, MutexInv, OneSaver, Rename, Goto, Holding
<1>2. UNCHANGED db /\ file' = tmp /\ pc[t] = "publish"
  BY DEF Rename, store
<1>3. tmp.found = TRUE /\ tmp.writers = {t} /\ tmp.count = Cardinality(DOMAIN tmp.data)
  BY <1>2 DEF IInv, FileInv, TmpOwned, TmpCounted
<1>4. PublishedComplete'
  BY <1>2, <1>3, FS_Singleton, Zenon DEF PublishedComplete
<1>5. FileBehindStore'
  BY <1>2, <1>3 DEF IInv, FileInv, TmpBetween, FileBehindStore, Stored
<1> QED BY <1>1, <1>4, <1>5 DEF FileInv, TmpOwned, TmpCounted, TmpBetween

\* The loader reads every entry, because the header counts them all.
LEMMA LoadReadsAll ==
    ASSUME IInv, NEW S \in SUBSET Stored(file), Cardinality(S) = Readable
    PROVE  S = Stored(file)
<1>1. CASE file.found
  <2>1. file \in Files
    BY <1>1 DEF IInv, TypeOK, NoFile
  <2>2. IsFiniteSet(Stored(file)) /\ Cardinality(Stored(file)) \in Nat /\ Counted(file) = Cardinality(Stored(file))
    BY <1>1, <2>1, DomainCount, FS_CardinalityType DEF Stored, Counted, IInv, FileInv, PublishedComplete
  <2>3. Cardinality(S) = Cardinality(Stored(file))
    BY <2>2 DEF Lesser, Readable
  <2> QED BY <2>2, <2>3, FS_Subset
<1>2. CASE ~file.found
  BY <1>2 DEF Stored
<1> QED BY <1>1, <1>2

LEMMA LoadKeepsFileInv ==
    ASSUME IInv, LoadSnapshot
    PROVE  FileInv'
<1>1. UNCHANGED <<pc, tmp, file>>
  BY DEF LoadSnapshot, locals, files
<1>2. \A t \in Threads : pc[t] \notin {"walk", "publish"}
  BY DEF LoadSnapshot, IInv, PhaseInv
<1>3. FileBehindStore'
  <2>1. PICK S \in SUBSET Stored(file) : Cardinality(S) = Readable /\ db' = Restored(S)
    BY DEF LoadSnapshot
  <2>2. S = Stored(file)
    BY <2>1, LoadReadsAll
  <2>3. ASSUME NEW k \in Stored(file) PROVE file.data[k].ver <= db'[k].ver
    <3>0. file \in Files /\ k \in DOMAIN file.data
      BY DEF IInv, TypeOK, Stored, NoFile
    <3>1. k \in Keys /\ file.data[k].ver \in Nat /\ file.data[k] \in Entries
      BY <3>0, VersionsNat, FilesFacts, Zenon DEF IInv
    <3>2. [file.data[k] EXCEPT !.exp = 0].ver = file.data[k].ver
      BY <3>1 DEF Entries
    <3>3. db'[k].ver = file.data[k].ver
      BY <2>1, <2>2, <3>1, <3>2 DEF Restored
    <3> QED BY <3>1, <3>3
  <2> QED BY <1>1, <2>3 DEF FileBehindStore, Stored
<1> QED BY <1>1, <1>2, <1>3 DEF IInv, FileInv, TmpOwned, TmpCounted, TmpBetween, PublishedComplete

\* After a failed load nothing is said of the store.
LEMMA LoadFailsKeepsFileInv ==
    ASSUME IInv, LoadFails
    PROVE  FileInv'
<1>1. UNCHANGED <<pc, tmp, file>> /\ ~Intact'
  BY DEF LoadFails, locals, files, Intact
<1>2. \A t \in Threads : pc[t] \notin {"walk", "publish"}
  BY DEF LoadFails, IInv, PhaseInv
<1> QED BY <1>1, <1>2 DEF IInv, FileInv, TmpOwned, TmpCounted, FileBehindStore, TmpBetween, PublishedComplete

LEMMA PhaseStep == IInv /\ [Next]_vars => PhaseInv'
<1> SUFFICES ASSUME IInv, [Next]_vars, phase' \in {"down", "exited"}
             PROVE  \A t \in Threads : pc'[t] = "idle"
  BY DEF PhaseInv
<1> USE DEF IInv, PhaseInv
<1>1. CASE UNCHANGED <<pc, phase>>
  BY <1>1
<1>2. CASE ProcessExits \/ Crash
  BY <1>2 DEF ProcessExits, Crash, Stop
<1>3. CASE MainReturns \/ LoadSnapshot \/ LoadFails
  BY <1>3 DEF MainReturns, LoadSnapshot, LoadFails
<1>4. ASSUME NEW t \in Threads, SaveCommand(t) \/ BgSaveCommand(t) \/ SnapshotTick(t) \/ StartFinalSnapshot(t)
      PROVE FALSE
  BY <1>4 DEF SaveCommand, BgSaveCommand, SnapshotTick, StartFinalSnapshot
<1>5. ASSUME NEW t \in Threads, SaveStep(t) \/ IoError(t) PROVE FALSE
  BY <1>5, Zenon DEF SaveStep, IoError, BgSaveThreadClears, SwapFlag, CreateTemp, WalkKey, PatchCount,
              Rename, StampTime, ReleaseFlag
<1>6. CASE Tick \/ \E k \in Keys : Write(k)
  BY <1>6 DEF Tick, Write, locals
<1>7. CASE UNCHANGED vars
  BY <1>7 DEF vars, locals
<1> QED BY <1>2, <1>3, <1>4, <1>5, <1>6, <1>7 DEF Next

LEMMA FileStep == IInv /\ [Next]_vars => FileInv'
<1> SUFFICES ASSUME IInv, [Next]_vars PROVE FileInv'
  OBVIOUS
<1>0. FileInv /\ pc \in [Threads -> Pcs]
  BY DEF IInv, MutexInv
<1>1. ASSUME NEW k \in Keys, Write(k) PROVE FileInv'
  BY <1>1, WriteKeepsFileInv
<1>2. CASE Tick
  BY <1>0, <1>2, QuietStep DEF Tick, locals, files, Intact
<1>3. ASSUME NEW t \in Threads, SaveCommand(t) \/ BgSaveCommand(t) \/ SnapshotTick(t) \/ StartFinalSnapshot(t)
      PROVE FileInv'
  BY <1>0, <1>3, QuietStep DEF SaveCommand, BgSaveCommand, SnapshotTick, StartFinalSnapshot, Start, store, files, Intact
<1>4. ASSUME NEW t \in Threads, SaveStep(t) PROVE FileInv'
  <2>1. CASE BgSaveThreadClears(t) \/ SwapFlag(t) \/ StampTime(t) \/ ReleaseFlag(t)
    BY <1>0, <2>1, QuietStep DEF BgSaveThreadClears, SwapFlag, StampTime, ReleaseFlag, Goto, store, files, Intact
  <2> QED BY <1>4, <2>1, CreateKeepsFileInv, WalkKeepsFileInv, PatchKeepsFileInv, RenameKeepsFileInv
          DEF SaveStep
<1>5. ASSUME NEW t \in Threads, IoError(t) PROVE FileInv'
  BY <1>0, <1>5, QuietStep DEF IoError, Goto, store, files, Intact
<1>6. CASE MainReturns
  BY <1>0, <1>6, QuietStep DEF MainReturns, store, locals, files, Intact
<1>7. CASE ProcessExits \/ Crash
  BY <1>0, <1>7, QuietStep DEF ProcessExits, Crash, Stop, store, files, Intact
<1>8. CASE LoadSnapshot \/ LoadFails
  BY <1>8, LoadKeepsFileInv, LoadFailsKeepsFileInv
<1>9. CASE UNCHANGED vars
  BY <1>0, <1>9, QuietStep DEF vars, store, locals, files, Intact
<1> QED BY <1>1, <1>2, <1>3, <1>4, <1>5, <1>6, <1>7, <1>8, <1>9 DEF Next

THEOREM Invariance == Spec => []IInv
<1>1. Init => IInv
  BY TypeInit, MutexInit, FileInit DEF IInv, PhaseInv, Init
<1>2. IInv /\ [Next]_vars => IInv'
  BY TypeStep, MutexStep, PhaseStep, FileStep DEF IInv, FileInv
<1> QED BY <1>1, <1>2, PTL DEF Spec

\* The types hold, with the flag protocol keeping the temporary file in place for the
\* thread that writes it.
THEOREM TypeCorrect == Spec => []TypeOK
<1>1. IInv => TypeOK
  BY DEF IInv
<1> QED BY <1>1, Invariance, PTL

\* What load_snapshot reads is always one save's complete file.
THEOREM PublishedIsComplete == Spec => []PublishedComplete
<1>1. IInv => PublishedComplete
  BY DEF IInv, FileInv
<1> QED BY <1>1, Invariance, PTL

\* No save, by whatever caller and across restarts, replaces a newer value by an older one, in
\* a process whose load did not fail.
THEOREM SnapshotsNeverGoBack == Spec => NeverOlder
<1> DEFINE A == \A k \in Stored(file) \cap Stored(file') :
                    "load" \in failed \/ file'.data[k].ver >= file.data[k].ver
<1>1. IInv /\ [Next]_vars => [A]_vars
  <2> SUFFICES ASSUME IInv, Next PROVE A
    OBVIOUS
  <2>1. CASE file' = file
    BY <2>1, VersionsNat DEF IInv
  <2>2. ASSUME NEW t \in Threads, Rename(t) PROVE A
    <3>1. file' = tmp /\ pc[t] = "publish" /\ tmp.found
      BY <2>2 DEF Rename
    <3>2. ASSUME NEW k \in Stored(file) \cap Stored(tmp), "load" \notin failed
          PROVE  tmp.data[k].ver >= file.data[k].ver
      <4>1. Intact
        BY <3>1, <3>2 DEF Intact, IInv, PhaseInv
      <4> QED BY <3>1, <3>2, <4>1, VersionsNat DEF IInv, FileInv, TmpBetween, Stored
    <3> QED BY <3>1, <3>2
  <2>3. file' = file \/ \E t \in Threads : Rename(t)
    BY Zenon DEF Next, SaveStep, Write, Tick, SaveCommand, BgSaveCommand, SnapshotTick, StartFinalSnapshot,
           Start, BgSaveThreadClears, SwapFlag, CreateTemp, WalkKey, PatchCount, StampTime, ReleaseFlag,
           IoError, MainReturns, ProcessExits, Crash, Stop, LoadSnapshot, LoadFails, files
  <2> QED BY <2>1, <2>2, <2>3
<1> QED BY <1>1, Invariance, PTL DEF Spec, NeverOlder

----------------------------------------------------------------------------
(* The window of a save, and the refinement of FuzzySnapshot. *)

\* What a save knows of key k while it walks: the key has only moved on since the save
\* began, and what the temporary file says of it, once it has been visited, is faithful.
KeyWindow(t, k) ==
    /\ base[t][k].ver <= db[k].ver
    /\ base[t][k].ver = db[k].ver => base[t][k] = db[k]
    /\ IF k \in DOMAIN tmp.data
       THEN /\ base[t][k].ver <= tmp.data[k].ver /\ tmp.data[k].ver <= db[k].ver
            /\ tmp.data[k].ver = db[k].ver => tmp.data[k] = db[k]
            /\ ~Expired(tmp.data[k], now[t])
       ELSE k \in todo[t] \/ Expired(base[t][k], now[t]) \/ base[t][k].ver < db[k].ver

WindowInv ==
    \A t \in Saving :
        /\ \A k \in Keys : KeyWindow(t, k)
        /\ pc[t] = "publish" => todo[t] = {}

LEMMA EntriesFacts ==
    ASSUME NEW e \in Entries
    PROVE  e.ver \in Int /\ e.exp \in Int
  BY BoundsAssumption DEF Entries, Never

\* A step that leaves the store, the temporary file and the walking threads alone.
LEMMA WindowQuiet ==
    ASSUME WindowInv, UNCHANGED <<db, tmp, todo, base, now>>,
           \A t \in Threads : pc'[t] \in {"walk", "publish"} => pc'[t] = pc[t]
    PROVE  WindowInv'
  BY DEF WindowInv, KeyWindow, Saving, Expired

LEMMA WindowWrite ==
    ASSUME IInv, WindowInv, NEW k \in Keys, Write(k)
    PROVE  WindowInv'
<1>1. PICK x : db' = [db EXCEPT ![k] = [ver |-> @.ver + 1, exp |-> x]]
  BY Zenon DEF Write
<1>2. UNCHANGED <<pc, tmp, todo, base, now>>
  BY DEF Write, locals, files
<1> SUFFICES ASSUME NEW t \in Saving, NEW j \in Keys PROVE KeyWindow(t, j)'
  BY <1>2 DEF WindowInv, Saving
<1>3. KeyWindow(t, j)
  BY DEF WindowInv
<1>4. CASE j # k
  <2>1. db'[j] = db[j]
    BY <1>1, <1>4 DEF IInv, TypeOK
  <2> QED BY <1>2, <1>3, <2>1 DEF KeyWindow, Expired
<1>5. CASE j = k
  <2>1. db'[j].ver = db[j].ver + 1
    BY <1>1, <1>5 DEF IInv, TypeOK
  <2>2. t \in Threads /\ base[t][j] \in Entries /\ db[j] \in Entries
    BY DEF IInv, TypeOK, Saving
  <2>3. base[t][j].ver \in Int /\ db[j].ver \in Int
    BY <2>2, EntriesFacts
  <2>4. base[t][j].ver < db'[j].ver
    BY <1>3, <2>1, <2>3 DEF KeyWindow
  <2>5. j \in DOMAIN tmp.data => tmp.data[j].ver \in Int
    BY VersionsNat DEF IInv, FileInv, TmpOwned, Saving, Stored
  <2> QED BY <1>2, <1>3, <2>1, <2>3, <2>4, <2>5 DEF KeyWindow, Expired
<1> QED BY <1>4, <1>5

LEMMA WindowCreate ==
    ASSUME IInv, WindowInv, NEW t \in Threads, CreateTemp(t)
    PROVE  WindowInv'
<1>1. Saving' = {t}
  BY DEF IInv, MutexInv, OneSaver, CreateTemp, Goto, Holding, Saving
<1>2. /\ base'[t] = db /\ now'[t] = clock /\ todo'[t] = Keys /\ db' = db /\ DOMAIN tmp'.data = {}
      /\ pc'[t] = "walk"
  BY SMTT(30) DEF IInv, TypeOK, CreateTemp, Goto, store
<1>3. ASSUME NEW k \in Keys PROVE KeyWindow(t, k)'
  <2>1. db[k].ver \in Int
    BY EntriesFacts DEF IInv, TypeOK
  <2> QED BY <1>2, <2>1 DEF KeyWindow
<1> QED BY <1>1, <1>2, <1>3 DEF WindowInv

LEMMA WindowWalk ==
    ASSUME IInv, WindowInv, NEW t \in Threads, NEW k \in Keys, WalkKey(t, k)
    PROVE  WindowInv'
<1>1. Saving = {t} /\ Saving' = {t}
  BY DEF IInv, MutexInv, OneSaver, WalkKey, Holding, Saving
<1>2. UNCHANGED <<pc, db, base, now>> /\ pc[t] = "walk" /\ todo'[t] = todo[t] \ {k}
  BY DEF WalkKey, store, IInv, TypeOK
<1>3. tmp \in Files
  BY <1>2 DEF IInv, TypeOK, FileInv, TmpOwned, NoFile
<1>4. base[t][k].ver \in Int /\ db[k].ver \in Int
  BY EntriesFacts DEF IInv, TypeOK
<1> SUFFICES ASSUME NEW j \in Keys PROVE KeyWindow(t, j)'
  BY <1>1, <1>2 DEF WindowInv
<1>5. KeyWindow(t, j) /\ KeyWindow(t, k)
  BY <1>1 DEF WindowInv
<1>6. CASE Expired(db[k], now[t])
  <2>1. tmp' = tmp
    BY <1>6, SMTT(30) DEF WalkKey
  <2>2. CASE j # k
    BY <1>2, <1>5, <2>1, <2>2, SMTT(30) DEF KeyWindow, Expired
  <2>3. CASE j = k
    <3>1. Expired(base[t][k], now[t]) \/ base[t][k].ver < db[k].ver
      <4>1. base[t][k].ver <= db[k].ver /\ (base[t][k].ver = db[k].ver => base[t][k] = db[k])
        BY <1>5, Zenon DEF KeyWindow
      <4>2. base[t][k].ver < db[k].ver \/ base[t][k].ver = db[k].ver
        BY <1>4, <4>1
      <4> QED BY <1>6, <4>1, <4>2, Zenon
    <3> QED BY <1>2, <1>5, <2>1, <2>3, <3>1, SMTT(30) DEF KeyWindow, Expired
  <2> QED BY <2>2, <2>3
<1>7. CASE ~Expired(db[k], now[t])
  <2>1. tmp'.data = [i \in DOMAIN tmp.data \cup {k} |-> IF i = k THEN db[k] ELSE tmp.data[i]]
    BY <1>3, <1>7 DEF WalkKey, Files
  <2>2. CASE j # k
    <3>1. (j \in DOMAIN tmp'.data) = (j \in DOMAIN tmp.data)
      BY <2>1, <2>2
    <3>2. j \in DOMAIN tmp.data => tmp'.data[j] = tmp.data[j]
      BY <2>1, <2>2
    <3>3. j \in todo'[t] <=> j \in todo[t]
      BY <1>2, <2>2, SMTT(30)
    <3> QED BY <1>2, <1>5, <3>1, <3>2, <3>3, ZenonT(60) DEF KeyWindow, Expired
  <2>3. CASE j = k
    <3>1. k \in DOMAIN tmp'.data /\ tmp'.data[k] = db[k]
      BY <2>1, SMTT(30)
    <3> QED BY <1>2, <1>4, <1>5, <1>7, <2>3, <3>1, SMTT(30) DEF KeyWindow, Expired
  <2> QED BY <2>2, <2>3
<1> QED BY <1>6, <1>7

LEMMA WindowPatch ==
    ASSUME IInv, WindowInv, NEW t \in Threads, PatchCount(t)
    PROVE  WindowInv'
<1>1. Saving = {t} /\ Saving' = {t}
  BY DEF IInv, MutexInv, OneSaver, PatchCount, Goto, Holding, Saving
<1>2. UNCHANGED <<db, base, now, todo>> /\ pc[t] = "walk" /\ todo[t] = {}
  BY DEF PatchCount, store
<1>3. tmp \in Files
  BY <1>2 DEF IInv, TypeOK, FileInv, TmpOwned, NoFile
<1>4. tmp'.data = tmp.data
  BY <1>3 DEF PatchCount, Files
<1> QED BY <1>1, <1>2, <1>4, Zenon DEF WindowInv, KeyWindow, Expired

LEMMA WindowStep == IInv /\ WindowInv /\ [Next]_vars => WindowInv'
<1> SUFFICES ASSUME IInv, WindowInv, [Next]_vars PROVE WindowInv'
  OBVIOUS
<1>0. pc \in [Threads -> Pcs]
  BY DEF IInv, MutexInv
<1>1. CASE Tick \/ MainReturns \/ UNCHANGED vars
  BY <1>0, <1>1, WindowQuiet DEF Tick, MainReturns, store, locals, files, vars
<1>2. ASSUME NEW t \in Threads, SaveCommand(t) \/ BgSaveCommand(t) \/ SnapshotTick(t) \/ StartFinalSnapshot(t)
      PROVE WindowInv'
  BY <1>0, <1>2, WindowQuiet DEF SaveCommand, BgSaveCommand, SnapshotTick, StartFinalSnapshot, Start, store, files
<1>3. ASSUME NEW t \in Threads, BgSaveThreadClears(t) \/ SwapFlag(t) \/ StampTime(t) \/ IoError(t) PROVE WindowInv'
  BY <1>0, <1>3, WindowQuiet DEF BgSaveThreadClears, SwapFlag, StampTime, IoError, Goto, store, files
<1>4. ASSUME NEW t \in Threads, Rename(t) \/ ReleaseFlag(t) PROVE WindowInv'
  <2>1. Saving' = {}
    BY <1>4 DEF IInv, MutexInv, OneSaver, Rename, ReleaseFlag, Goto, Holding, Saving
  <2> QED BY <2>1 DEF WindowInv
<1>5. CASE ProcessExits \/ Crash
  BY <1>5 DEF ProcessExits, Crash, Stop, WindowInv, Saving
<1>6. CASE LoadSnapshot \/ LoadFails
  <2>1. Saving' = {}
    BY <1>6 DEF LoadSnapshot, LoadFails, IInv, PhaseInv, Saving, locals
  <2> QED BY <2>1 DEF WindowInv
<1> QED
  BY <1>1, <1>2, <1>3, <1>4, <1>5, <1>6, WindowWrite, WindowCreate, WindowWalk, WindowPatch DEF Next, SaveStep

LEMMA WindowAlways == Spec => [](IInv /\ WindowInv)
<1>1. Init => WindowInv
  BY DEF Init, WindowInv, Saving
<1> QED BY <1>1, Invariance, WindowStep, PTL DEF Spec
----------------------------------------------------------------------------
(* The window property and the refinement. *)

\* Whatever a save publishes is, key by key, what the store held while it ran.
THEOREM PublishesItsWindow == Spec => PublishedFromWindow
<1> DEFINE A == \A t \in Threads : Rename(t) =>
         \A k \in Keys :
           IF k \in DOMAIN file'.data
           THEN /\ file'.data[k].ver \in base[t][k].ver..db[k].ver
                /\ ~Expired(file'.data[k], now[t])
           ELSE Expired(base[t][k], now[t]) \/ db[k].ver > base[t][k].ver
<1>1. IInv /\ WindowInv => A
  <2> SUFFICES ASSUME IInv, WindowInv, NEW t \in Threads, Rename(t), NEW k \in Keys
               PROVE  IF k \in DOMAIN file'.data
                      THEN /\ file'.data[k].ver \in base[t][k].ver..db[k].ver
                           /\ ~Expired(file'.data[k], now[t])
                      ELSE Expired(base[t][k], now[t]) \/ db[k].ver > base[t][k].ver
    OBVIOUS
  <2>1. t \in Saving /\ pc[t] = "publish" /\ file' = tmp
    BY DEF Rename, Saving
  <2>2. KeyWindow(t, k) /\ todo[t] = {}
    BY <2>1 DEF WindowInv
  <2>3. base[t][k].ver \in Int /\ db[k].ver \in Int
    BY EntriesFacts DEF IInv, TypeOK
  <2>4. k \in DOMAIN tmp.data => tmp.data[k].ver \in Int
    BY <2>1, VersionsNat DEF IInv, FileInv, TmpOwned, Saving, Stored
  <2> QED BY <2>1, <2>2, <2>3, <2>4 DEF KeyWindow
<1>2. IInv /\ WindowInv => [A]_vars
  BY <1>1
<1> QED BY <1>2, WindowAlways, PTL DEF PublishedFromWindow

\* What the abstract variables do in a step that only concerns threads outside the walk.
LEMMA FuzzyStutter ==
    ASSUME UNCHANGED <<db, clock, file, now, base>>, Saving' = Saving,
           (phase' \in {"down", "exited"}) = (phase \in {"down", "exited"}), failed' = failed
    PROVE  UNCHANGED Fuzzy!vars
<1>1. Saves' = Saves
  BY DEF Saves
<1>2. Disk' = Disk
  BY DEF Disk, Stored
<1> QED BY <1>1, <1>2 DEF Fuzzy!vars

LEMMA FuzzyInit == Init => Fuzzy!Init
<1> SUFFICES ASSUME Init PROVE Fuzzy!Init
  OBVIOUS
<1>1. Saves = {}
  BY DEF Init, Saves, Saving
<1>2. Disk = [k \in {} |-> Absent]
  BY DEF Init, Disk, Stored, NoFile
<1> QED BY <1>1, <1>2 DEF Init, Fuzzy!Init, EmptyDb, Absent, Fuzzy!Absent

LEMMA FuzzyWrite ==
    ASSUME IInv, NEW k \in Keys, Write(k)
    PROVE  Fuzzy!Write(k)
<1>1. PICK x \in {0} \cup (clock + 1)..Never : db' = [db EXCEPT ![k] = [ver |-> @.ver + 1, exp |-> x]]
  BY Zenon DEF Write
<1>2. x \in 0..Never
  BY BoundsAssumption DEF IInv, TypeOK, Times, Never
<1>3. Disk' = Disk /\ Saves' = Saves
  BY DEF Write, locals, files, Disk, Stored, Saves, Saving
<1> QED BY <1>1, <1>2, <1>3, Zenon DEF Write, Fuzzy!Write, Fuzzy!Never, Never

LEMMA FuzzyTick == ASSUME Tick PROVE Fuzzy!Tick
<1>1. Disk' = Disk /\ Saves' = Saves
  BY DEF Tick, locals, files, Disk, Stored, Saves, Saving
<1> QED BY <1>1 DEF Tick, Fuzzy!Tick

LEMMA FuzzyBegin ==
    ASSUME IInv, NEW t \in Threads, CreateTemp(t)
    PROVE  Fuzzy!BeginSave
<1>1. Saving = {} /\ Saving' = {t}
  BY DEF IInv, MutexInv, OneSaver, CreateTemp, Goto, Holding, Saving
<1>2. base'[t] = db /\ now'[t] = clock
  BY DEF IInv, TypeOK, CreateTemp
<1>3. Saves = {} /\ Saves' = {[since |-> clock, base |-> db]}
  BY <1>1, <1>2 DEF Saves
<1>4. Disk' = Disk
  BY DEF CreateTemp, Disk, Stored
<1>5. phase \notin {"down", "exited"}
  BY DEF CreateTemp, IInv, PhaseInv
<1> QED BY <1>3, <1>4, <1>5 DEF CreateTemp, store, Fuzzy!BeginSave

LEMMA FuzzyPublish ==
    ASSUME IInv, WindowInv, NEW t \in Threads, Rename(t)
    PROVE  Fuzzy!Publish
<1> DEFINE s == [since |-> now[t], base |-> base[t]]
<1>1. t \in Saving /\ pc[t] = "publish" /\ file' = tmp /\ tmp.found /\ db' = db /\ clock' = clock /\ phase' = phase
  BY DEF Rename, Saving, store
<1>0. failed' = failed
  BY DEF Rename
<1>2. Saving' = {}
  BY DEF IInv, MutexInv, OneSaver, Rename, Goto, Holding, Saving
<1>3. s \in Saves /\ Saves' = {}
  BY <1>1, <1>2 DEF Saves
<1>4. Disk' = [k \in DOMAIN tmp.data |-> tmp.data[k]]
  BY <1>1 DEF Disk, Stored
<1>5. DOMAIN Disk' \subseteq Keys
  <2>1. tmp \in Files
    BY <1>1 DEF IInv, TypeOK, NoFile
  <2>2. DOMAIN tmp.data \subseteq Keys
    BY <2>1, FilesFacts, Zenon
  <2> QED BY <1>4, <2>2
<1>6. ASSUME NEW k \in Keys PROVE Fuzzy!Faithful(s, Disk', k)
  <2>1. KeyWindow(t, k) /\ todo[t] = {}
    BY <1>1 DEF WindowInv
  <2>2. base[t][k].ver \in Int /\ db[k].ver \in Int
    BY EntriesFacts DEF IInv, TypeOK
  <2>3. k \in DOMAIN tmp.data => tmp.data[k].ver \in Int
    BY <1>1, VersionsNat DEF IInv, FileInv, TmpOwned, Saving, Stored
  <2>4. (k \in DOMAIN Disk') = (k \in DOMAIN tmp.data) /\ (k \in DOMAIN tmp.data => Disk'[k] = tmp.data[k])
    BY <1>4
  <2>5. s.base = base[t] /\ s.since = now[t]
    OBVIOUS
  <2> HIDE DEF s
  <2> QED BY <2>1, <2>2, <2>3, <2>4, <2>5 DEF KeyWindow, Expired, Fuzzy!Faithful, Fuzzy!Expired
<1>7. phase \notin {"down", "exited"}
  BY <1>1 DEF IInv, PhaseInv
<1> HIDE DEF s
<1> QED BY <1>0, <1>1, <1>3, <1>5, <1>6, <1>7, Zenon DEF Fuzzy!Publish

LEMMA FuzzyGiveUp ==
    ASSUME IInv, NEW t \in Threads, IoError(t)
    PROVE  Fuzzy!GiveUp \/ UNCHANGED Fuzzy!vars
<1>1. UNCHANGED <<db, clock, file, now, base, phase>> /\ ("load" \in failed') = ("load" \in failed)
  BY DEF IoError, store, files
<1>2. Saving' = {}
  BY DEF IInv, MutexInv, OneSaver, IoError, Goto, Holding, Saving
<1>3. Saves' = {} /\ Disk' = Disk
  BY <1>1, <1>2 DEF Saves, Disk, Stored
<1> QED BY <1>1, <1>3 DEF Fuzzy!GiveUp

LEMMA FuzzyStop == ASSUME ProcessExits \/ Crash PROVE Fuzzy!Stop
<1>1. Saving' = {} /\ UNCHANGED <<db, clock, file>> /\ phase' \in {"down", "exited"} /\ failed' = {}
  BY DEF ProcessExits, Crash, Stop, Saving, store, files
<1>2. Saves' = {} /\ Disk' = Disk
  BY <1>1 DEF Saves, Disk, Stored
<1> QED BY <1>1, <1>2 DEF Fuzzy!Stop

\* The two modules restore the same entries in the same way.
LEMMA FuzzyRestored ==
    ASSUME NEW S \in SUBSET Stored(file)
    PROVE  S \subseteq DOMAIN Disk /\ DOMAIN Disk = Stored(file) /\ Restored(S) = Fuzzy!Restored(S)
<1>1. DOMAIN Disk = Stored(file) /\ \A k \in Stored(file) : Disk[k] = file.data[k]
  BY DEF Disk
<1> QED BY <1>1 DEF Restored, Fuzzy!Restored, Absent, Fuzzy!Absent, Expired, Fuzzy!Expired

LEMMA FuzzyLoad == ASSUME IInv, LoadSnapshot PROVE Fuzzy!Load
<1>1. PICK S \in SUBSET Stored(file) : Cardinality(S) = Readable /\ db' = Restored(S)
  BY DEF LoadSnapshot
<1>2. S = Stored(file)
  BY <1>1, LoadReadsAll
<1>3. /\ UNCHANGED <<clock, Disk, Saves>> /\ phase \in {"down", "exited"} /\ phase' = "running"
      /\ failed' = {}
  BY DEF LoadSnapshot, locals, files, Disk, Stored, Saves, Saving
<1>4. db' = Fuzzy!Restored(DOMAIN Disk)
  BY <1>1, <1>2, FuzzyRestored
<1> QED BY <1>3, <1>4 DEF Fuzzy!Load

LEMMA FuzzyLoadPart == ASSUME LoadFails PROVE Fuzzy!LoadPart
<1>1. PICK S \in SUBSET Stored(file) : db' = Restored(S)
  BY DEF LoadFails
<1>2. /\ UNCHANGED <<clock, Disk, Saves>> /\ phase \in {"down", "exited"} /\ phase' = "running"
      /\ failed' = {"load"}
  BY DEF LoadFails, locals, files, Disk, Stored, Saves, Saving
<1>3. S \in SUBSET DOMAIN Disk /\ db' = Fuzzy!Restored(S)
  BY <1>1, FuzzyRestored
<1> QED BY <1>2, <1>3 DEF Fuzzy!LoadPart

\* Every step of the snapshot protocol is a step of FuzzySnapshot or none.
LEMMA FuzzyStep == IInv /\ WindowInv /\ [Next]_vars => [Fuzzy!Next]_(Fuzzy!vars)
<1> SUFFICES ASSUME IInv, WindowInv, [Next]_vars PROVE [Fuzzy!Next]_(Fuzzy!vars)
  OBVIOUS
<1>0. pc \in [Threads -> Pcs]
  BY DEF IInv, MutexInv
<1>1. ASSUME NEW t \in Threads, SaveCommand(t) \/ BgSaveCommand(t) \/ SnapshotTick(t) \/ StartFinalSnapshot(t)
      PROVE UNCHANGED Fuzzy!vars
  <2>1. Saving' = Saving /\ UNCHANGED <<db, clock, file, now, base, failed>>
    BY <1>0, <1>1 DEF SaveCommand, BgSaveCommand, SnapshotTick, StartFinalSnapshot, Start, Saving, store, files
  <2>2. (phase' \in {"down", "exited"}) = (phase \in {"down", "exited"})
    BY <1>1 DEF SaveCommand, BgSaveCommand, SnapshotTick, StartFinalSnapshot
  <2> QED BY <2>1, <2>2, FuzzyStutter
<1>2. ASSUME NEW t \in Threads, BgSaveThreadClears(t) \/ SwapFlag(t) \/ StampTime(t) \/ PatchCount(t)
      PROVE UNCHANGED Fuzzy!vars
  <2>1. Saving' = Saving /\ UNCHANGED <<db, clock, file, now, base, phase, failed>>
    BY <1>0, <1>2 DEF BgSaveThreadClears, SwapFlag, StampTime, PatchCount, Goto, Saving, store, files
  <2> QED BY <2>1, FuzzyStutter
<1>3. ASSUME NEW t \in Threads, NEW k \in Keys, WalkKey(t, k) PROVE UNCHANGED Fuzzy!vars
  <2>1. Saving' = Saving /\ UNCHANGED <<db, clock, file, now, base, phase, failed>>
    BY <1>3 DEF WalkKey, Saving, store
  <2> QED BY <2>1, FuzzyStutter
<1>4. ASSUME NEW t \in Threads, ReleaseFlag(t) PROVE UNCHANGED Fuzzy!vars
  <2>1. Saving = {} /\ Saving' = {} /\ UNCHANGED <<db, clock, file, phase, failed>>
    BY <1>4 DEF IInv, MutexInv, OneSaver, ReleaseFlag, Goto, Holding, Saving, store, files
  <2>2. Saves' = Saves /\ Disk' = Disk
    BY <2>1 DEF Saves, Disk, Stored
  <2> QED BY <2>1, <2>2 DEF Fuzzy!vars
<1>5. CASE MainReturns
  <2>1. Saving' = Saving /\ UNCHANGED <<db, clock, file, now, base, failed>>
    BY <1>5 DEF MainReturns, Saving, store, locals, files
  <2> QED BY <1>5, <2>1, FuzzyStutter DEF MainReturns
<1>6. CASE UNCHANGED vars
  <2>1. Saving' = Saving /\ UNCHANGED <<db, clock, file, now, base, phase, failed>>
    BY <1>6 DEF vars, Saving, store, locals, files
  <2> QED BY <2>1, FuzzyStutter
<1> QED
  BY <1>1, <1>2, <1>3, <1>4, <1>5, <1>6, FuzzyWrite, FuzzyTick, FuzzyBegin, FuzzyPublish, FuzzyGiveUp,
     FuzzyStop, FuzzyLoad, FuzzyLoadPart
  DEF Next, SaveStep, Fuzzy!Next

\* The protocol of flag, temporary file and rename implements the fuzzy snapshot.
THEOREM SnapshotImplementsFuzzy == Spec => ImplementsFuzzy
  BY FuzzyInit, FuzzyStep, WindowAlways, PTL DEF Spec, ImplementsFuzzy, Fuzzy!Spec

----------------------------------------------------------------------------
(* LASTSAVE, the restart and the final snapshot. *)

\* The header of a file carries the time at which its save began.
TimeInv ==
    /\ \A t \in Saving : tmp.time = now[t]
    /\ \A t \in Threads : pc[t] = "stamp" => file.found = TRUE /\ file.time = now[t]
    /\ LastSaveHonest

LEMMA TimeQuiet ==
    ASSUME TimeInv, UNCHANGED <<LAST_SAVE_TIME, now, tmp, file>>,
           \A t \in Threads : pc'[t] \in {"walk", "publish"} => pc[t] \in {"walk", "publish"},
           \A t \in Threads : pc'[t] = "stamp" <=> pc[t] = "stamp"
    PROVE  TimeInv'
  BY DEF TimeInv, LastSaveHonest, Saving

LEMMA TimeStep == IInv /\ TimeInv /\ [Next]_vars => TimeInv'
<1> SUFFICES ASSUME IInv, TimeInv, [Next]_vars PROVE TimeInv'
  OBVIOUS
<1>0. pc \in [Threads -> Pcs] /\ now \in [Threads -> Times]
  BY DEF IInv, MutexInv, TypeOK
<1>1. CASE Tick \/ MainReturns \/ LoadSnapshot \/ LoadFails \/ (\E k \in Keys : Write(k)) \/ UNCHANGED vars
  BY <1>1, TimeQuiet DEF Tick, MainReturns, LoadSnapshot, LoadFails, Write, flags, locals, files, vars
<1>2. ASSUME NEW t \in Threads, SaveCommand(t) \/ BgSaveCommand(t) \/ SnapshotTick(t) \/ StartFinalSnapshot(t)
      PROVE TimeInv'
  BY <1>0, <1>2, TimeQuiet DEF SaveCommand, BgSaveCommand, SnapshotTick, StartFinalSnapshot, Start, files
<1>3. ASSUME NEW t \in Threads, BgSaveThreadClears(t) \/ SwapFlag(t) \/ IoError(t) PROVE TimeInv'
  BY <1>0, <1>3, TimeQuiet, SMTT(30) DEF BgSaveThreadClears, SwapFlag, IoError, Goto, flags, files
<1>4. ASSUME NEW t \in Threads, CreateTemp(t) PROVE TimeInv'
  <2>1. Saving' = {t} /\ \A u \in Threads : pc'[u] # "stamp" /\ pc[u] # "stamp"
    BY <1>4, SMTT(30) DEF IInv, MutexInv, OneSaver, CreateTemp, Goto, Holding, Saving
  <2>2. tmp'.time = now'[t] /\ UNCHANGED <<file, LAST_SAVE_TIME>>
    BY <1>0, <1>4, SMTT(30) DEF CreateTemp, flags
  <2> QED BY <2>1, <2>2, SMTT(30) DEF TimeInv, LastSaveHonest
<1>5. ASSUME NEW t \in Threads, PatchCount(t) \/ \E k \in Keys : WalkKey(t, k) PROVE TimeInv'
  <2>1. t \in Saving /\ tmp \in Files
    <3>1. pc[t] = "walk"
      BY <1>5, Zenon DEF PatchCount, WalkKey
    <3>2. tmp.found = TRUE /\ tmp \in Files \cup {NoFile}
      BY <3>1, SMTT(30) DEF IInv, TypeOK, FileInv, TmpOwned
    <3> QED BY <3>1, <3>2 DEF Saving, NoFile
  <2>2. tmp'.time = tmp.time /\ UNCHANGED <<now, file, LAST_SAVE_TIME>>
    <3>1. ASSUME NEW k \in Keys, WalkKey(t, k) PROVE tmp'.time = tmp.time
      <4>1. CASE Expired(db[k], now[t])
        BY <3>1, <4>1 DEF WalkKey
      <4>2. CASE ~Expired(db[k], now[t])
        BY <2>1, <3>1, <4>2 DEF WalkKey, Files
      <4> QED BY <4>1, <4>2
    <3>2. ASSUME PatchCount(t) PROVE tmp'.time = tmp.time
      BY <2>1, <3>2 DEF PatchCount, Files
    <3>3. UNCHANGED <<now, file, LAST_SAVE_TIME>>
      BY <1>5, Zenon DEF PatchCount, WalkKey, flags
    <3> QED BY <1>5, <3>1, <3>2, <3>3, SMTT(30)
  <2>3. \A u \in Threads : (pc'[u] = "stamp" <=> pc[u] = "stamp") /\ (u \in Saving' => u \in Saving)
    BY <1>0, <1>5, ZenonT(60) DEF PatchCount, WalkKey, Goto, Saving
  <2> QED BY <2>2, <2>3 DEF TimeInv, LastSaveHonest, Saving
<1>6. ASSUME NEW t \in Threads, Rename(t) PROVE TimeInv'
  <2>1. t \in Saving /\ pc'[t] = "stamp" /\ Saving' = {} /\ \A u \in Threads : pc'[u] = "stamp" => u = t
    BY <1>6, SMTT(30) DEF IInv, MutexInv, OneSaver, Rename, Goto, Holding, Saving
  <2>2. file' = tmp /\ tmp.found = TRUE /\ now' = now
    BY <1>6, SMTT(30) DEF Rename, IInv, FileInv, TmpOwned
  <2> QED BY <2>1, <2>2 DEF TimeInv, LastSaveHonest
<1>7. ASSUME NEW t \in Threads, StampTime(t) PROVE TimeInv'
  <2>1. pc[t] = "stamp" /\ Saving' = {} /\ \A u \in Threads : pc'[u] # "stamp"
    BY <1>7 DEF IInv, MutexInv, OneSaver, StampTime, Goto, Holding, Saving
  <2>2. LAST_SAVE_TIME' = now[t] /\ file' = file
    BY <1>7, SMTT(30) DEF StampTime, files
  <2> QED BY <2>1, <2>2 DEF TimeInv, LastSaveHonest
<1>8. ASSUME NEW t \in Threads, ReleaseFlag(t) PROVE TimeInv'
  <2>1. Saving' = {} /\ \A u \in Threads : pc[u] # "stamp" /\ pc'[u] # "stamp"
    BY <1>8, SMTT(30) DEF IInv, MutexInv, OneSaver, ReleaseFlag, Goto, Holding, Saving
  <2> QED BY <1>8, <2>1 DEF TimeInv, LastSaveHonest, ReleaseFlag, files
<1>9. CASE ProcessExits \/ Crash
  BY <1>9 DEF ProcessExits, Crash, Stop, TimeInv, LastSaveHonest, Saving
<1> QED BY <1>1, <1>2, <1>3, <1>4, <1>5, <1>6, <1>7, <1>8, <1>9, SMTT(30) DEF Next, SaveStep

\* LASTSAVE tells the time of the file on disk, whichever saves failed or were refused.
THEOREM LastSaveIsHonest == Spec => []LastSaveHonest
<1>1. Init => TimeInv
  BY DEF Init, TimeInv, LastSaveHonest, Saving
<1>2. TimeInv => LastSaveHonest
  BY DEF TimeInv
<1> QED BY <1>1, <1>2, Invariance, TimeStep, PTL DEF Spec

\* A restart brings back every live entry of the published file, and a restart that failed to
\* read it shows nothing that is not in it.
THEOREM RestartRestoresAll == Spec => RestartRestores
<1> DEFINE A == phase' = "running" /\ phase \in {"down", "exited"} =>
                  \A k \in Keys :
                    LET there == k \in Stored(file) /\ ~Expired(file.data[k], clock)
                    IN  \/ there /\ db'[k] = file.data[k]
                        \/ Expired(db'[k], clock) /\ (there => "load" \in failed')
<1>1. IInv /\ [Next]_vars => A
  <2> SUFFICES ASSUME IInv, [Next]_vars, phase' = "running", phase \in {"down", "exited"}, NEW k \in Keys
               PROVE  LET there == k \in Stored(file) /\ ~Expired(file.data[k], clock)
                      IN  \/ there /\ db'[k] = file.data[k]
                          \/ Expired(db'[k], clock) /\ (there => "load" \in failed')
    OBVIOUS
  <2>1. LoadSnapshot \/ LoadFails
    <3>1. \A t \in Threads : pc[t] = "idle"
      BY DEF IInv, PhaseInv
    <3> QED BY <3>1, ZenonT(60)
        DEF Next, SaveStep, Write, Tick, SaveCommand, BgSaveCommand, SnapshotTick, BgSaveThreadClears, SwapFlag,
            CreateTemp, WalkKey, PatchCount, Rename, StampTime, ReleaseFlag, IoError, StartFinalSnapshot,
            MainReturns, ProcessExits, Crash, vars
  <2>2. PICK S \in SUBSET Stored(file) : db' = Restored(S) /\ (S = Stored(file) \/ "load" \in failed')
    <3>1. CASE LoadSnapshot
      <4>1. PICK S \in SUBSET Stored(file) : Cardinality(S) = Readable /\ db' = Restored(S)
        BY <3>1 DEF LoadSnapshot
      <4>2. S = Stored(file)
        BY <4>1, LoadReadsAll
      <4> QED BY <4>1, <4>2
    <3>2. CASE LoadFails
      BY <3>2 DEF LoadFails
    <3> QED BY <2>1, <3>1, <3>2
  <2>3. CASE k \in S /\ ~Expired(file.data[k], clock)
    BY <2>2, <2>3 DEF Restored
  <2>4. CASE ~(k \in S /\ ~Expired(file.data[k], clock))
    <3>1. db'[k].exp = 0
      <4>1. CASE k \notin S
        BY <2>2, <4>1 DEF Restored, Absent
      <4>2. CASE k \in S /\ Expired(file.data[k], clock)
        <5>1. file \in Files /\ k \in DOMAIN file.data
          BY <4>2 DEF IInv, TypeOK, Stored, NoFile
        <5>2. file.data[k] \in Entries
          BY <5>1, FilesFacts, Zenon
        <5> QED BY <2>2, <4>2, <5>2 DEF Restored, Entries
      <4> QED BY <2>4, <4>1, <4>2
    <3>2. Expired(db'[k], clock)
      BY <3>1 DEF Expired, IInv, TypeOK, Times
    <3> QED BY <2>2, <2>4, <3>2
  <2> QED BY <2>3, <2>4
<1>2. IInv /\ [Next]_vars => [A]_vars
  BY <1>1
<1> QED BY <1>2, Invariance, PTL DEF Spec, RestartRestores

\* Who runs when: client SAVEs are over once the final snapshot has been started, there is
\* one final snapshot, and while it walks the store stands still.
FinalInv ==
    /\ \A t \in Threads : pc[t] # "idle" => kind[t] # "none"
    /\ \A t \in Threads : pc[t] # "idle" /\ kind[t] = "conn" => phase = "running"
    /\ \A t \in Threads : pc[t] # "idle" /\ kind[t] = "final" => phase \in {"final", "exit"}
    /\ \A t, u \in Threads : pc[t] # "idle" /\ kind[t] = "final" /\ pc[u] # "idle" /\ kind[u] = "final" => t = u
    /\ \A t \in Saving : kind[t] = "final" => base[t] = db

\* A step in which no thread starts, the store stays and so does the phase.
LEMMA FinalQuiet ==
    ASSUME FinalInv, UNCHANGED <<db, phase>>,
           \A t \in Threads : pc'[t] # "idle" => pc[t] # "idle" /\ kind'[t] = kind[t],
           \A t \in Threads : t \in Saving' => t \in Saving /\ base'[t] = base[t]
    PROVE  FinalInv'
<1>1. \A t \in Saving' : t \in Saving /\ base'[t] = base[t] /\ kind'[t] = kind[t]
  BY DEF Saving
<1> QED BY <1>1, Zenon DEF FinalInv

LEMMA FinalStart ==
    ASSUME IInv, FinalInv, NEW t \in Threads,
           SaveCommand(t) \/ BgSaveCommand(t) \/ SnapshotTick(t) \/ StartFinalSnapshot(t)
    PROVE  FinalInv'
<1>0. pc \in [Threads -> Pcs] /\ kind \in [Threads -> Kinds]
  BY SMTT(30) DEF IInv, TypeOK
<1>1. /\ phase = "running" /\ UNCHANGED <<db, base>> /\ pc[t] = "idle"
      /\ \A u \in Threads \ {t} : pc'[u] = pc[u] /\ kind'[u] = kind[u]
      /\ pc'[t] \in {"enter", "spawned"}
  BY <1>0, SMTT(30) DEF SaveCommand, BgSaveCommand, SnapshotTick, StartFinalSnapshot, Start, store
<1>2. \A u \in Threads : pc[u] # "idle" => kind[u] # "final"
  BY <1>1, Zenon DEF FinalInv
<1>3. \A u \in Saving' : u \in Saving /\ kind'[u] # "final"
  <2>1. ASSUME NEW u \in Saving' PROVE u \in Saving /\ kind'[u] # "final"
    <3>1. u \in Threads \ {t}
      <4>1. u \in Threads /\ pc'[u] \in {"walk", "publish"}
        BY <2>1, Zenon DEF Saving
      <4>2. pc'[t] \notin {"walk", "publish"}
        BY <1>1
      <4> QED BY <4>1, <4>2, Zenon
    <3>2. u \in Saving /\ pc[u] # "idle"
      BY <1>1, <2>1, <3>1, Zenon DEF Saving
    <3> QED BY <1>1, <1>2, <3>1, <3>2, Zenon
  <2> QED BY <2>1, Zenon
<1>4. CASE SaveCommand(t) \/ BgSaveCommand(t) \/ SnapshotTick(t)
  <2>1. kind'[t] \in {"conn", "bgsave", "blocking"} /\ phase' = phase
    <3>1. CASE SaveCommand(t)
      BY <1>0, <3>1, SMTT(30) DEF SaveCommand, Start
    <3>2. CASE BgSaveCommand(t)
      BY <1>0, <3>2 DEF BgSaveCommand, Start
    <3>3. CASE SnapshotTick(t)
      BY <1>0, <3>3 DEF SnapshotTick, Start
    <3> QED BY <1>4, <3>1, <3>2, <3>3, SMTT(30)
  <2> QED BY <1>1, <1>2, <1>3, <2>1, Zenon DEF FinalInv
<1>5. CASE StartFinalSnapshot(t)
  <2>1. kind'[t] = "final" /\ phase' = "final"
    BY <1>0, <1>5 DEF StartFinalSnapshot, Start
  <2>2. \A u \in Threads : pc[u] # "idle" => kind[u] # "conn"
    BY <1>5, Zenon DEF StartFinalSnapshot, Running
  <2> QED BY <1>1, <1>2, <1>3, <2>1, <2>2, Zenon DEF FinalInv
<1> QED BY <1>4, <1>5, SMTT(30)

LEMMA FinalStep == IInv /\ FinalInv /\ [Next]_vars => FinalInv'
<1> SUFFICES ASSUME IInv, FinalInv, [Next]_vars PROVE FinalInv'
  OBVIOUS
<1>0. pc \in [Threads -> Pcs] /\ kind \in [Threads -> Kinds] /\ base \in [Threads -> [Keys -> Entries]]
  BY SMTT(30) DEF IInv, TypeOK
<1>1. ASSUME NEW k \in Keys, Write(k) PROVE FinalInv'
  <2>1. \A t \in Threads : pc[t] # "idle" => kind[t] # "final"
    BY <1>1, Zenon DEF Write, FinalInv
  <2>2. UNCHANGED <<pc, kind, phase>>
    BY <1>1, SMTT(30) DEF Write, locals
  <2> QED BY <2>1, <2>2 DEF FinalInv, Saving
<1>2. CASE Tick \/ UNCHANGED vars
  BY <1>2, FinalQuiet DEF Tick, vars, store, locals, Saving
<1>3. ASSUME NEW t \in Threads,
             BgSaveThreadClears(t) \/ SwapFlag(t) \/ PatchCount(t) \/ Rename(t) \/ StampTime(t) \/ IoError(t)
      PROVE FinalInv'
  BY <1>0, <1>3, FinalQuiet
  DEF BgSaveThreadClears, SwapFlag, PatchCount, Rename, StampTime, IoError, Goto, Saving, store
<1>4. ASSUME NEW t \in Threads, NEW k \in Keys, WalkKey(t, k) PROVE FinalInv'
  BY <1>4, FinalQuiet, SMTT(30) DEF WalkKey, Saving, store
<1>5. ASSUME NEW t \in Threads, CreateTemp(t) PROVE FinalInv'
  <2>1. Saving' = {t}
    BY <1>5, SMTT(30) DEF IInv, MutexInv, OneSaver, CreateTemp, Goto, Holding, Saving
  <2>2. base'[t] = db' /\ UNCHANGED <<kind, phase>> /\ \A u \in Threads : pc'[u] # "idle" => pc[u] # "idle"
    BY <1>0, <1>5 DEF CreateTemp, Goto, store
  <2> QED BY <2>1, <2>2, SMTT(30) DEF FinalInv
<1>6. ASSUME NEW t \in Threads, ReleaseFlag(t) PROVE FinalInv'
  <2>1. /\ Saving' = {} /\ UNCHANGED <<db, phase>>
        /\ \A u \in Threads : pc'[u] # "idle" => pc[u] # "idle" /\ kind'[u] = kind[u]
    BY <1>0, <1>6, Zenon DEF IInv, MutexInv, OneSaver, ReleaseFlag, Goto, Holding, Saving, store
  <2> QED BY <2>1, FinalQuiet
<1>7. CASE MainReturns
  BY <1>7, Zenon DEF MainReturns, FinalInv, Saving, store, locals
<1>8. CASE ProcessExits \/ Crash
  BY <1>8, Zenon DEF ProcessExits, Crash, Stop, FinalInv, Saving
<1>9. CASE LoadSnapshot \/ LoadFails
  BY <1>9 DEF LoadSnapshot, LoadFails, IInv, PhaseInv, FinalInv, Saving, locals
<1> QED BY <1>1, <1>2, <1>3, <1>4, <1>5, <1>6, <1>7, <1>8, <1>9, FinalStart, SMTT(30) DEF Next, SaveStep

LEMMA FinalAlways == Spec => []FinalInv
<1>1. Init => FinalInv
  BY DEF Init, FinalInv, Saving
<1> QED BY <1>1, Invariance, FinalStep, PTL DEF Spec

\* The final snapshot, when it gets to publish, is the live store exactly.
THEOREM FinalIsExact == Spec => FinalSnapshotExact
<1> DEFINE A == \A t \in Threads : Rename(t) /\ kind[t] = "final" =>
                    file'.data = [k \in {j \in Keys : ~Expired(db[j], now[t])} |-> db[k]]
<1>1. IInv /\ WindowInv /\ FinalInv => A
  <2> SUFFICES ASSUME IInv, WindowInv, FinalInv, NEW t \in Threads, Rename(t), kind[t] = "final"
               PROVE  file'.data = [k \in {j \in Keys : ~Expired(db[j], now[t])} |-> db[k]]
    OBVIOUS
  <2>1. t \in Saving /\ pc[t] = "publish" /\ file' = tmp /\ tmp.found
    BY DEF Rename, Saving
  <2>2. base[t] = db /\ todo[t] = {}
    BY <2>1 DEF FinalInv, WindowInv
  <2>3. tmp \in Files
    BY <2>1 DEF IInv, TypeOK, NoFile
  <2>4. DOMAIN tmp.data \subseteq Keys /\ tmp.data \in [DOMAIN tmp.data -> Entries]
    BY <2>3, FilesFacts, Zenon
  <2>5. ASSUME NEW k \in DOMAIN tmp.data PROVE tmp.data[k] = db[k] /\ ~Expired(db[k], now[t])
    <3>1. k \in Keys /\ KeyWindow(t, k)
      BY <2>1, <2>4, Zenon DEF WindowInv
    <3>2. tmp.data[k].ver \in Int /\ db[k].ver \in Int
      BY <2>4, <3>1, EntriesFacts, Zenon DEF IInv, TypeOK
    <3>3. /\ db[k].ver <= tmp.data[k].ver /\ tmp.data[k].ver <= db[k].ver
          /\ tmp.data[k].ver = db[k].ver => tmp.data[k] = db[k]
          /\ ~Expired(tmp.data[k], now[t])
      BY <2>2, <3>1, Zenon DEF KeyWindow
    <3>4. \A m, n \in Int : m <= n /\ n <= m => m = n
      OBVIOUS
    <3>5. tmp.data[k].ver = db[k].ver
      BY <3>2, <3>3, <3>4, Zenon
    <3> QED BY <3>3, <3>5, Zenon
  <2>6. ASSUME NEW k \in Keys, k \notin DOMAIN tmp.data PROVE Expired(db[k], now[t])
    <3>1. KeyWindow(t, k) /\ db[k].ver \in Int
      BY <2>1, EntriesFacts, SMTT(30) DEF WindowInv, IInv, TypeOK
    <3>2. ~(db[k].ver < db[k].ver)
      BY <3>1
    <3> QED BY <2>2, <2>6, <3>1, <3>2, Zenon DEF KeyWindow
  <2>7. DOMAIN tmp.data = {j \in Keys : ~Expired(db[j], now[t])}
    BY <2>4, <2>5, <2>6
  <2> QED BY <2>1, <2>4, <2>5, <2>7, SMTT(30)
<1>2. IInv /\ WindowInv /\ FinalInv => [A]_vars
  BY <1>1
<1> QED BY <1>2, WindowAlways, FinalAlways, PTL DEF FinalSnapshotExact

\* The final snapshot is refused only by a BGSAVE or a periodic save.
THEOREM FinalYieldsOnlyToBackground == Spec => FinalYieldsToBackground
<1> DEFINE A == \A t \in Threads : SwapFlag(t) /\ kind[t] = "final" /\ SAVE_IN_PROGRESS =>
                    \E u \in Threads \ {t} : pc[u] \in Holding /\ kind[u] \in {"bgsave", "blocking"}
<1>1. IInv /\ FlagOwned /\ FinalInv => A
  <2> SUFFICES ASSUME IInv, FlagOwned, FinalInv, NEW t \in Threads, SwapFlag(t), kind[t] = "final", SAVE_IN_PROGRESS
               PROVE  \E u \in Threads \ {t} : pc[u] \in Holding /\ kind[u] \in {"bgsave", "blocking"}
    OBVIOUS
  <2>1. PICK u \in Threads : pc[u] \in Holding
    BY DEF FlagOwned
  <2>2. pc[t] = "enter" /\ u # t /\ pc[u] # "idle"
    BY <2>1 DEF SwapFlag, Holding
  <2>3. phase \in {"final", "exit"}
    BY <2>2 DEF FinalInv
  <2>4. kind[u] \in Kinds /\ kind[u] # "none" /\ kind[u] # "conn" /\ kind[u] # "final"
    BY <2>2, <2>3 DEF FinalInv, IInv, TypeOK
  <2> QED BY <2>1, <2>2, <2>4 DEF Kinds
<1>2. IInv /\ FlagOwned /\ FinalInv => [A]_vars
  BY <1>1
<1> QED BY <1>2, Invariance, FlagHasOwner, FinalAlways, PTL DEF FinalYieldsToBackground
=============================================================================
