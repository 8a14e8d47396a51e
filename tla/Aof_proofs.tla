----------------------------- MODULE Aof_proofs -----------------------------
(***************************************************************************)
(* Proofs about Aof for any number of connections, rewrite jobs, keys,      *)
(* writes, failures and power losses: the types, that one rewrite runs at a *)
(* time, that a clean log is on the disk, that a rewrite drops only writes  *)
(* that came after its beginning, and that size_bytes covers the file;      *)
(* then, where each key has one writing connection, that an answered write  *)
(* is on the disk under always, and that every restart restores what was    *)
(* answered, a rewrite's losses apart.                                      *)
(***************************************************************************)
EXTENDS Aof, SequenceTheorems, FiniteSetTheorems, WellFoundedInduction, TLAPS

ConnPcs == {"idle", "append", "fsync", "size"}
JobPcs == {"idle", "claim", "walk", "lock", "rename", "reopen", "release"}

\* The writes there have been.  Everything in the store, in the files and in the
\* connections is one of them; this is stronger than TypeOK, and what a restart needs.
Past == Keys \X (1..next)
Records == Past \cup {Broken}
Jobs == [pc: JobPcs, todo: SUBSET Keys, tmp: Seq(Past)]
Connections == [pc: ConnPcs, w: Past \cup {NoWrite}]

StoreTyped ==
    /\ next \in Nat /\ next <= MaxWrites
    /\ db \in [Keys -> 0..next] /\ base \in [Keys -> 0..next]
    /\ acked \subseteq Past /\ lost \subseteq Records
ConnTyped ==
    /\ conn \in [Conns -> Connections]
    /\ \A c \in Conns : conn[c].pc # "idle" => conn[c].w \in Past
FileTyped == buf \in Seq(Past) /\ log \in Seq(Records) /\ synced \in 0..Len(log) /\ orphan \in BOOLEAN
JobTyped == rw \in [Rewriters -> Jobs] /\ rewriting \in BOOLEAN
RestTyped ==
    /\ lock \in Conns \cup Rewriters \cup {NoOne}
    /\ dirty \in BOOLEAN /\ size \in Nat /\ lastSize \in Nat
    /\ task \in {"idle", "sync", "last", "ended"}
    /\ phase \in {"running", "draining", "exiting", "exited", "down", "refused"}
    /\ faults \in [errors: 0..MaxErrors, crashes: 0..MaxCrashes]
    /\ incident \in BOOLEAN
Typed == StoreTyped /\ ConnTyped /\ FileTyped /\ JobTyped /\ RestTyped

----------------------------------------------------------------------------
(* Numbers and sequences. *)

LEMMA NumberFacts ==
    ASSUME NEW n \in Nat
    PROVE  /\ \A a \in 0..n : a <= a /\ 0 <= a
           /\ \A a \in 0..n : a <= 0 => a = 0
           /\ \A a, b \in 1..n, c \in 0..n : a >= c /\ ~(a >= b) => b > c
  OBVIOUS

LEMMA NatMin ==
    ASSUME NEW T \in SUBSET Nat, T # {}
    PROVE  \E x \in T : \A y \in T : x <= y
<1>1. PICK x \in T : \A y \in T : ~(<<y, x>> \in OpToRel(<, Nat))
  BY WFMin, NatLessThanWellFounded, Zenon
<1>2. \A y \in T : ~(y < x)
  BY <1>1, Zenon DEF OpToRel
<1> QED BY <1>2

\* Replay takes the last record of a key: there is one.
LEMMA MaxOfSome ==
    ASSUME NEW n \in Nat, NEW I \in SUBSET (1..n), I # {}
    PROVE  Max(I) \in I /\ \A y \in I : Max(I) >= y
<1> DEFINE T == {j \in 0..n : n - j \in I}
<1>1. T \in SUBSET Nat
  OBVIOUS
<1>2. T # {}
  <2>1. PICK i \in I : TRUE
    BY Zenon
  <2>2. n - i \in T
    BY <2>1
  <2> QED BY <2>2, Zenon
<1>3. PICK t \in T : \A y \in T : t <= y
  BY <1>1, <1>2, NatMin, Zenon
<1>4. \A y \in I : n - y \in T
  OBVIOUS
<1>5. n - t \in I /\ \A y \in I : n - t >= y
  BY <1>3, <1>4
<1>6. \E x \in I : \A y \in I : x >= y
  BY <1>5
<1> QED BY <1>6, Zenon DEF Max

LEMMA Joined ==
    ASSUME FileTyped
    PROVE  /\ log \o buf \in Seq(Records)
           /\ Len(log \o buf) = Len(log) + Len(buf)
           /\ Len(log) \in Nat /\ Len(buf) \in Nat
           /\ log \o <<>> = log /\ <<>> \in Seq(Past) /\ Len(<<>>) = 0
<1>1. buf \in Seq(Records)
  BY SeqMonotonic DEF FileTyped, Records
<1>2. log \o buf \in Seq(Records) /\ Len(log \o buf) = Len(log) + Len(buf)
  BY <1>1, ConcatProperties DEF FileTyped
<1>3. Len(log) \in Nat /\ Len(buf) \in Nat
  BY <1>1, LenProperties DEF FileTyped
<1>4. log \o <<>> = log
  BY ConcatEmptySeq DEF FileTyped
<1> QED BY <1>2, <1>3, <1>4, EmptySeq

\* A prefix of the log.
LEMMA Prefix ==
    ASSUME FileTyped, NEW n \in 0..Len(log)
    PROVE  /\ SubSeq(log, 1, n) \in Seq(Records) /\ Len(SubSeq(log, 1, n)) = n
           /\ \A i \in 1..n : SubSeq(log, 1, n)[i] = log[i]
<1>1. Len(log) \in Nat
  BY Joined
<1>2. \A i \in 1..n : log[i] \in Records
  BY <1>1, ElementOfSeq DEF FileTyped
<1>3. /\ SubSeq(log, 1, n) \in Seq(Records)
      /\ Len(SubSeq(log, 1, n)) = IF 1 <= n THEN n - 1 + 1 ELSE 0
      /\ \A i \in 1..(n - 1 + 1) : SubSeq(log, 1, n)[i] = log[1 + i - 1]
  BY <1>1, <1>2, SubSeqProperties
<1> QED BY <1>1, <1>3

----------------------------------------------------------------------------
(* Types. *)

LEMMA ApplyTyped ==
    ASSUME Typed, NEW c \in Conns, NEW k \in Keys, Apply(c, k)
    PROVE  Typed'
<1>1. next \in Nat /\ next + 1 <= MaxWrites /\ next' = next + 1
  BY BoundsAssumption DEF Apply, Typed, StoreTyped
<1>2. Past \subseteq Past' /\ Records \subseteq Records' /\ <<k, next + 1>> \in Past' /\ 0..next \subseteq 0..next'
  BY <1>1 DEF Past, Records
<1>3. StoreTyped'
  <2>1. db' \in [Keys -> 0..next'] /\ base' \in [Keys -> 0..next']
    BY <1>1, <1>2 DEF Apply, history, Typed, StoreTyped
  <2> QED BY <1>1, <1>2, <2>1 DEF Apply, history, Typed, StoreTyped
<1>4. ConnTyped'
  <2> DEFINE q == [pc |-> "append", w |-> <<k, next + 1>>]
  <2>1. q \in Connections' /\ q.w \in Past'
    BY <1>2 DEF Connections, ConnPcs
  <2>2. Connections \subseteq Connections'
    BY <1>2 DEF Connections
  <2>3. conn' = [conn EXCEPT ![c] = q]
    BY DEF Apply
  <2> HIDE DEF q
  <2> QED BY <1>2, <2>1, <2>2, <2>3 DEF Typed, ConnTyped
<1>5. FileTyped'
  <2>1. buf \in Seq(Past') /\ log \in Seq(Records')
    BY <1>2, SeqMonotonic DEF Typed, FileTyped
  <2> QED BY <2>1 DEF Apply, fileVars, Typed, FileTyped
<1>6. JobTyped'
  <2>1. Seq(Past) \subseteq Seq(Past')
    BY <1>2, SeqMonotonic
  <2>2. Jobs \subseteq Jobs'
    BY <2>1 DEF Jobs
  <2> QED BY <2>2 DEF Apply, Typed, JobTyped
<1>7. RestTyped'
  BY DEF Apply, statVars, history, Typed, RestTyped
<1> QED BY <1>3, <1>4, <1>5, <1>6, <1>7 DEF Typed

\* A flush, with or without the sync, of a file that has its name or has lost it.
LEMMA FlushTyped ==
    ASSUME FileTyped, next' = next, Flush, orphan' = orphan, synced' \in {synced, Len(log')}
    PROVE  FileTyped'
<1>1. log' \in Seq(Records) /\ Len(log') \in Nat /\ Len(log') >= Len(log) /\ buf' \in Seq(Past)
  BY Joined DEF Flush, FileTyped
<1>2. synced' \in 0..Len(log')
  BY <1>1, Joined DEF FileTyped
<1>3. Records' = Records /\ Past' = Past
  BY DEF Records, Past
<1> QED BY <1>1, <1>2, <1>3 DEF FileTyped

LEMMA KeptTyped ==
    ASSUME FileTyped, next' = next, UNCHANGED <<buf, log, synced, orphan>>
    PROVE  FileTyped'
  BY DEF FileTyped, Records, Past

LEMMA FaultTyped ==
    ASSUME Typed, NEW f, Fails(f)
    PROVE  faults' \in [errors: 0..MaxErrors, crashes: 0..MaxCrashes]
<1>1. faults.errors \in 0..MaxErrors /\ faults.errors + 1 \in 0..MaxErrors
  BY BoundsAssumption DEF Fails, Typed, RestTyped
<1> QED BY <1>1 DEF Fails, Typed, RestTyped

\* The steps of a connection after the store.
LEMMA ConnStepTyped ==
    ASSUME Typed, NEW c \in Conns, ConnStep(c)
    PROVE  Typed'
<1>1. next' = next /\ Past' = Past /\ Records' = Records /\ Connections' = Connections /\ Jobs' = Jobs
  BY Zenon DEF ConnStep, AppendBuffered, AppendLocked, AppendFsync, AppendFails, AddSize, Past, Records, Connections, Jobs
<1>2. conn[c] \in Connections /\ conn[c].pc \in ConnPcs /\ (conn[c].pc # "idle" => conn[c].w \in Past)
  BY DEF Typed, ConnTyped, Connections
<1>3. ASSUME NEW p \in ConnPcs, conn[c].pc # "idle", conn' = [conn EXCEPT ![c].pc = p] PROVE ConnTyped'
  <2> DEFINE q == [conn[c] EXCEPT !.pc = p]
  <2>1. q \in Connections /\ q.w \in Past
    BY <1>2, <1>3 DEF Connections
  <2>2. conn' = [conn EXCEPT ![c] = q]
    BY <1>3
  <2> HIDE DEF q
  <2> QED BY <1>1, <2>1, <2>2 DEF Typed, ConnTyped
<1>4. ASSUME conn' = [conn EXCEPT ![c] = IdleConn] PROVE ConnTyped'
  <2>1. IdleConn \in Connections /\ IdleConn.pc = "idle"
    BY DEF IdleConn, Connections, ConnPcs
  <2> QED BY <1>1, <1>4, <2>1 DEF Typed, ConnTyped
<1>5. ASSUME conn[c].pc # "idle" PROVE acked \cup {conn[c].w} \subseteq Past
  BY <1>2, <1>5 DEF Typed, StoreTyped
<1>6. ASSUME UNCHANGED <<db, lost, base>>, acked' = acked \/ (conn[c].pc # "idle" /\ acked' = acked \cup {conn[c].w})
      PROVE  StoreTyped'
  BY <1>1, <1>5, <1>6 DEF Typed, StoreTyped
<1>7. ASSUME UNCHANGED <<rw, rewriting>> PROVE JobTyped'
  BY <1>1, <1>7 DEF Typed, JobTyped
<1>8. ASSUME conn[c].pc # "idle" PROVE Append(buf, conn[c].w) \in Seq(Past) /\ <<conn[c].w>> \in Seq(Past)
  BY <1>2, <1>8 DEF Typed, FileTyped
<1>9. CASE AppendBuffered(c)
  <2>1. FileTyped'
    <3>1. log' \in Seq(Records) /\ Len(log') \in Nat /\ Len(log') >= Len(log)
      <4>1. log' = log \/ log' = log \o buf
        BY <1>9 DEF AppendBuffered
      <4>2. FileTyped /\ log \in Seq(Records)
        BY DEF Typed, FileTyped
      <4>3. CASE log' = log
        BY <4>2, <4>3, Joined
      <4>4. CASE log' = log \o buf
        <5>1. log \o buf \in Seq(Records) /\ Len(log \o buf) = Len(log) + Len(buf) /\ Len(log) \in Nat /\ Len(buf) \in Nat
          BY <4>2, Joined
        <5> QED BY <4>4, <5>1
      <4> QED BY <4>1, <4>3, <4>4
    <3>2. buf' \in Seq(Past)
      BY <1>8, <1>9, Zenon DEF AppendBuffered
    <3> QED BY <1>1, <1>9, <3>1, <3>2 DEF AppendBuffered, Typed, FileTyped
  <2>2. RestTyped'
    BY <1>9 DEF AppendBuffered, history, Typed, RestTyped
  <2> QED BY <1>3, <1>6, <1>7, <1>9, <2>1, <2>2 DEF AppendBuffered, history, ConnPcs, Typed
<1>10. CASE AppendLocked(c)
  <2>1. FileTyped'
    BY <1>1, <1>8, <1>10 DEF AppendLocked, Typed, FileTyped
  <2>2. RestTyped'
    BY <1>10 DEF AppendLocked, history, statVars, Typed, RestTyped
  <2> QED BY <1>3, <1>6, <1>7, <1>10, <2>1, <2>2 DEF AppendLocked, history, ConnPcs, Typed
<1>11. CASE AppendFsync(c)
  <2>1. FileTyped'
    BY <1>1, <1>11, FlushTyped DEF AppendFsync, FlushAndSync, Typed
  <2>2. RestTyped'
    BY <1>11 DEF AppendFsync, history, statVars, Typed, RestTyped
  <2> QED BY <1>3, <1>6, <1>7, <1>11, <2>1, <2>2 DEF AppendFsync, history, ConnPcs, Typed
<1>12. CASE AppendFails(c)
  <2>1. FileTyped'
    BY <1>1, <1>12, FlushTyped, KeptTyped DEF AppendFails, Typed
  <2>2. RestTyped'
    BY <1>12, FaultTyped DEF AppendFails, statVars, Typed, RestTyped
  <2> QED BY <1>4, <1>6, <1>7, <1>12, <2>1, <2>2 DEF AppendFails, ConnPcs, Typed
<1>13. CASE AddSize(c)
  <2>1. FileTyped'
    BY <1>1, <1>13, KeptTyped DEF AddSize, fileVars, Typed
  <2>2. RestTyped'
    BY <1>13 DEF AddSize, Typed, RestTyped
  <2> QED BY <1>4, <1>6, <1>7, <1>13, <2>1, <2>2 DEF AddSize, ConnPcs, Typed
<1> QED BY <1>9, <1>10, <1>11, <1>12, <1>13 DEF ConnStep

\* Where a step leaves next alone, the types are the same sets before and after it.
LEMMA SameSets ==
    ASSUME next' = next
    PROVE  Past' = Past /\ Records' = Records /\ Connections' = Connections /\ Jobs' = Jobs
  BY DEF Past, Records, Connections, Jobs

LEMMA JobFacts ==
    ASSUME NEW q \in Jobs, NEW p \in JobPcs
    PROVE  /\ q.pc \in JobPcs /\ q.todo \in SUBSET Keys /\ q.tmp \in Seq(Past)
           /\ [q EXCEPT !.pc = p] \in Jobs /\ [q EXCEPT !.pc = p].pc = p
           /\ [q EXCEPT !.pc = p].tmp = q.tmp /\ [q EXCEPT !.pc = p].todo = q.todo
  BY DEF Jobs

LEMMA IdleJobTyped == IdleJob \in Jobs /\ IdleJob.pc = "idle"
  BY EmptySeq DEF IdleJob, Jobs, JobPcs

\* What a job that won the claim becomes.
LEMMA WalkingJob ==
    /\ [pc |-> "walk", todo |-> Keys, tmp |-> <<>>].pc = "walk"
    /\ [pc |-> "walk", todo |-> Keys, tmp |-> <<>>].todo = Keys
  OBVIOUS

\* What a job that gives up or is done becomes.
Released == [IdleJob EXCEPT !.pc = "release"]
LEMMA ReleasedTyped == Released \in Jobs /\ Released.pc = "release"
  BY IdleJobTyped, JobFacts, Zenon DEF Released, JobPcs

\* One key of the walk.
WalkedTmp(r, k) == IF db[k] = 0 THEN rw[r].tmp ELSE Append(rw[r].tmp, <<k, db[k]>>)
Walked(r, k) == [pc |-> IF rw[r].todo = {k} THEN "lock" ELSE "walk", todo |-> rw[r].todo \ {k}, tmp |-> WalkedTmp(r, k)]

LEMMA WalkStep ==
    ASSUME Typed, NEW r \in Rewriters, NEW k \in Keys, WalkKey(r, k)
    PROVE  /\ rw' = [rw EXCEPT ![r] = Walked(r, k)]
           /\ Walked(r, k) \in Jobs
           /\ WalkedTmp(r, k) \in Seq(Past)
<1>1. rw \in [Rewriters -> Jobs] /\ rw[r] \in Jobs
  BY DEF Typed, JobTyped
<1>3. WalkedTmp(r, k) \in Seq(Past)
  <2>1. db[k] \in 0..next /\ next \in Nat
    BY DEF Typed, StoreTyped
  <2>2. db[k] # 0 => <<k, db[k]>> \in Past
    BY <2>1 DEF Past
  <2> QED BY <1>1, <2>2, JobFacts, AppendProperties DEF WalkedTmp, Jobs
<1>4. Walked(r, k) \in Jobs
  BY <1>1, <1>3, JobFacts, Zenon DEF Walked, Jobs, JobPcs
<1>5. rw' = [rw EXCEPT ![r] = Walked(r, k)]
  BY <1>1 DEF WalkKey, Walked, WalkedTmp
<1> QED BY <1>3, <1>4, <1>5

LEMMA JobStepTyped ==
    ASSUME Typed, NEW r \in Rewriters, JobStep(r) \/ SpawnJob(r)
    PROVE  Typed'
<1>1. rw \in [Rewriters -> Jobs] /\ rw[r] \in Jobs /\ rw[r].pc \in JobPcs /\ rw[r].tmp \in Seq(Past)
  BY JobFacts DEF Typed, JobTyped, Jobs
<1>2. next' = next /\ conn' = conn
  BY Zenon DEF JobStep, SpawnJob, Claim, WalkKey, LockLive, RenameFile, Reopen, Release, WalkFails, LiveFlushFails,
         RenameFails, ReopenFails
<1>3. Past' = Past /\ Records' = Records /\ Connections' = Connections /\ Jobs' = Jobs
  BY <1>2, SameSets
<1>4. ConnTyped'
  BY <1>2, <1>3 DEF Typed, ConnTyped
<1>5. ASSUME NEW p \in JobPcs, rw' = [rw EXCEPT ![r].pc = p], rewriting' = rewriting PROVE JobTyped'
  BY <1>1, <1>3, <1>5, JobFacts DEF Typed, JobTyped
<1>6. ASSUME NEW q \in Jobs, rw' = [rw EXCEPT ![r] = q], rewriting' \in BOOLEAN PROVE JobTyped'
  BY <1>1, <1>3, <1>6 DEF JobTyped
<1>7. ASSUME UNCHANGED <<db, acked, lost, base>> PROVE StoreTyped'
  BY <1>2, <1>3, <1>7 DEF Typed, StoreTyped
<1>8. ASSUME UNCHANGED fileVars PROVE FileTyped'
  BY <1>2, <1>8, KeptTyped DEF fileVars, Typed
<1>9. CASE SpawnJob(r)
  <2>1. RestTyped'
    BY <1>9 DEF SpawnJob, statVars, history, Typed, RestTyped
  <2> QED BY <1>4, <1>5, <1>7, <1>8, <1>9, <2>1 DEF SpawnJob, history, JobPcs, Typed
<1>10. CASE Claim(r)
  <2>1. RestTyped'
    BY <1>10 DEF Claim, statVars, Typed, RestTyped
  <2>2. StoreTyped'
    BY <1>2, <1>3, <1>10 DEF Claim, Typed, StoreTyped
  <2>3. JobTyped'
    <3> DEFINE q == [pc |-> "walk", todo |-> Keys, tmp |-> <<>>]
    <3>1. q \in Jobs
      BY EmptySeq DEF Jobs, JobPcs
    <3> HIDE DEF q
    <3>2. rw' = [rw EXCEPT ![r] = q] \/ rw' = [rw EXCEPT ![r] = IdleJob]
      BY <1>10 DEF Claim, q
    <3>3. rewriting' \in BOOLEAN
      BY <1>10, Zenon DEF Claim, Typed, JobTyped
    <3> QED BY <1>6, <3>1, <3>2, <3>3, IdleJobTyped
  <2> QED BY <1>4, <1>8, <1>10, <2>1, <2>2, <2>3 DEF Claim, Typed
<1>11. ASSUME NEW k \in Keys, WalkKey(r, k) PROVE Typed'
  <2>1. RestTyped'
    BY <1>11 DEF WalkKey, statVars, history, Typed, RestTyped
  <2>2. rewriting' \in BOOLEAN
    BY <1>11 DEF WalkKey, Typed, JobTyped
  <2>3. JobTyped'
    BY <1>6, <1>11, <2>2, WalkStep
  <2> QED BY <1>4, <1>7, <1>8, <1>11, <2>1, <2>3 DEF WalkKey, history, Typed
<1>12. CASE LockLive(r)
  <2>1. RestTyped'
    BY <1>12 DEF LockLive, statVars, history, Typed, RestTyped
  <2>2. FileTyped'
    BY <1>2, <1>12, FlushTyped DEF LockLive, Typed
  <2> QED BY <1>4, <1>5, <1>7, <1>12, <2>1, <2>2 DEF LockLive, history, JobPcs, Typed
<1>13. CASE RenameFile(r)
  <2>1. RestTyped'
    BY <1>13 DEF RenameFile, statVars, Typed, RestTyped
  <2>2. FileTyped'
    <3>1. log' \in Seq(Records) /\ Len(log') \in Nat /\ synced' = Len(log')
      BY <1>1, <1>13, SeqMonotonic, LenProperties DEF RenameFile, Records
    <3> QED BY <1>3, <1>13, <3>1 DEF RenameFile, Typed, FileTyped
  <2>3. StoreTyped'
    <3>1. {log[i] : i \in {j \in 1..Len(log) : ~Covered(log[j], rw[r].tmp)}} \subseteq Records
      BY ElementOfSeq DEF Typed, FileTyped
    <3> QED BY <1>2, <1>3, <1>13, <3>1 DEF RenameFile, Typed, StoreTyped
  <2> QED BY <1>4, <1>5, <1>13, <2>1, <2>2, <2>3 DEF RenameFile, JobPcs, Typed
<1>14. CASE Reopen(r)
  <2>1. RestTyped'
    <3>1. Len(rw[r].tmp) \in Nat
      BY <1>1, LenProperties
    <3> QED BY <1>14, <3>1, Zenon DEF Reopen, history, Typed, RestTyped
  <2>2. FileTyped'
    BY <1>3, <1>14, Zenon DEF Reopen, Typed, FileTyped
  <2>3. JobTyped'
    <3>1. rw' = [rw EXCEPT ![r] = Released] /\ rewriting' \in BOOLEAN
      BY <1>14 DEF Reopen, Released, Typed, JobTyped
    <3> QED BY <1>6, <3>1, ReleasedTyped, Zenon
  <2> QED BY <1>4, <1>7, <1>14, <2>1, <2>2, <2>3 DEF Reopen, history, Typed
<1>15. CASE Release(r)
  <2>1. RestTyped'
    BY <1>15 DEF Release, statVars, Typed, RestTyped
  <2>2. StoreTyped'
    BY <1>2, <1>3, <1>15 DEF Release, Typed, StoreTyped
  <2> QED BY <1>4, <1>6, <1>8, <1>15, <2>1, <2>2, IdleJobTyped, Zenon DEF Release, Typed
<1>16. CASE WalkFails(r) \/ LiveFlushFails(r) \/ RenameFails(r) \/ ReopenFails(r)
  <2>1. RestTyped'
    <3>1. faults' \in [errors: 0..MaxErrors, crashes: 0..MaxCrashes]
      BY <1>16, FaultTyped DEF WalkFails, LiveFlushFails, RenameFails, ReopenFails
    <3> QED BY <1>16, <3>1, Zenon DEF WalkFails, LiveFlushFails, RenameFails, ReopenFails, statVars, history, Typed, RestTyped
  <2>2. JobTyped'
    <3>1. rw' = [rw EXCEPT ![r] = Released] /\ rewriting' \in BOOLEAN
      BY <1>16 DEF WalkFails, LiveFlushFails, RenameFails, ReopenFails, Released, Typed, JobTyped
    <3> QED BY <1>6, <3>1, ReleasedTyped, Zenon
  <2> QED BY <1>4, <1>7, <1>8, <1>16, <2>1, <2>2
          DEF WalkFails, LiveFlushFails, RenameFails, ReopenFails, history, Typed
<1> QED BY <1>9, <1>10, <1>11, <1>12, <1>13, <1>14, <1>15, <1>16 DEF JobStep

\* What is left of the process after an exit or a power loss.
LEMMA GoneTyped ==
    ASSUME Typed, Gone, next' = next
    PROVE  /\ ConnTyped' /\ JobTyped'
           /\ db' \in [Keys -> 0..next'] /\ base' \in [Keys -> 0..next']
           /\ buf' = <<>> /\ buf' \in Seq(Past) /\ orphan' = FALSE
           /\ lock' = NoOne /\ dirty' = FALSE /\ size' = 0 /\ lastSize' = 0 /\ task' = "idle"
<1>1. Past' = Past /\ Records' = Records /\ Connections' = Connections /\ Jobs' = Jobs
  BY SameSets
<1>2. IdleConn \in Connections /\ IdleConn.pc = "idle"
  BY DEF IdleConn, Connections, ConnPcs
<1>3. ConnTyped'
  BY <1>1, <1>2 DEF Gone, ConnTyped
<1>4. JobTyped'
  BY <1>1, IdleJobTyped, Zenon DEF Gone, JobTyped
<1> QED BY <1>3, <1>4, EmptySeq DEF Gone, Typed, StoreTyped

\* Replay finds the versions in the log.
LEMMA ReplayTyped ==
    ASSUME Typed, \A i \in 1..Len(log) : log[i] # Broken
    PROVE  Replay(log) \in [Keys -> 0..next]
<1> SUFFICES ASSUME NEW k \in Keys PROVE Replay(log)[k] \in 0..next
  BY DEF Replay
<1> DEFINE I == {i \in 1..Len(log) : log[i] # Broken /\ log[i][1] = k}
<1>1. Replay(log)[k] = IF I = {} THEN 0 ELSE log[Max(I)][2]
  BY DEF Replay
<1>2. CASE I = {}
  BY <1>1, <1>2 DEF Typed, StoreTyped
<1>3. CASE I # {}
  <2>1. Len(log) \in Nat
    BY Joined DEF Typed
  <2>2. I \in SUBSET (1..Len(log))
    OBVIOUS
  <2> HIDE DEF I
  <2>3. Max(I) \in I
    BY <1>3, <2>1, <2>2, MaxOfSome, Zenon
  <2>4. Max(I) \in 1..Len(log)
    BY <2>2, <2>3, Zenon
  <2>5. log[Max(I)] \in Records /\ log[Max(I)] # Broken
    BY <2>4, ElementOfSeq DEF Typed, FileTyped
  <2>6. log[Max(I)] \in Past
    BY <2>5 DEF Records
  <2>7. next \in Nat
    BY DEF Typed, StoreTyped
  <2> QED BY <1>1, <1>3, <2>6, <2>7 DEF Past
<1> QED BY <1>2, <1>3

\* The steps of the process as a whole.
ProcessStep ==
    \/ EverysecTick \/ EverysecLast \/ EverysecSync \/ SyncFails
    \/ Shutdown \/ FinalSync \/ FinalSyncFails \/ Exit \/ PowerLoss \/ Restart \/ OperatorTruncates

LEMMA ProcessTyped ==
    ASSUME Typed, ProcessStep
    PROVE  Typed'
<1>1. next' = next
  BY DEF ProcessStep, EverysecTick, EverysecLast, EverysecSync, SyncFails, Shutdown, FinalSync, FinalSyncFails, Exit,
         PowerLoss, Restart, OperatorTruncates
<1>2. Past' = Past /\ Records' = Records /\ Connections' = Connections /\ Jobs' = Jobs
  BY <1>1, SameSets
<1>3. ASSUME UNCHANGED <<conn, rw, rewriting>> PROVE ConnTyped' /\ JobTyped'
  BY <1>2, <1>3 DEF Typed, ConnTyped, JobTyped
<1>4. ASSUME UNCHANGED <<db, acked, lost, base>> PROVE StoreTyped'
  BY <1>1, <1>2, <1>4 DEF Typed, StoreTyped
<1>5. CASE EverysecTick \/ EverysecLast \/ Shutdown
  <2>1. RestTyped'
    BY <1>5 DEF EverysecTick, EverysecLast, Shutdown, statVars, history, Typed, RestTyped
  <2>2. FileTyped'
    BY <1>1, <1>5, KeptTyped DEF EverysecTick, EverysecLast, Shutdown, fileVars, Typed
  <2> QED BY <1>3, <1>4, <1>5, <2>1, <2>2 DEF EverysecTick, EverysecLast, Shutdown, history, Typed
<1>6. CASE EverysecSync \/ FinalSync
  <2>1. RestTyped'
    BY <1>6, Zenon DEF EverysecSync, FinalSync, AfterSync, history, Typed, RestTyped
  <2>2. FileTyped'
    BY <1>1, <1>6, FlushTyped DEF EverysecSync, FinalSync, FlushAndSync, Typed
  <2> QED BY <1>3, <1>4, <1>6, <2>1, <2>2 DEF EverysecSync, FinalSync, history, Typed
<1>7. CASE SyncFails \/ FinalSyncFails
  <2>1. RestTyped'
    <3>1. faults' \in [errors: 0..MaxErrors, crashes: 0..MaxCrashes]
      BY <1>7, FaultTyped DEF SyncFails, FinalSyncFails
    <3> QED BY <1>7, <3>1, Zenon DEF SyncFails, FinalSyncFails, AfterSync, statVars, history, Typed, RestTyped
  <2>2. FileTyped'
    BY <1>1, <1>7, FlushTyped, KeptTyped DEF SyncFails, FinalSyncFails, Typed
  <2> QED BY <1>3, <1>4, <1>7, <2>1, <2>2 DEF SyncFails, FinalSyncFails, history, Typed
<1>8. CASE Exit
  <2>1. Gone
    BY <1>8 DEF Exit
  <2>2. RestTyped'
    <3>1. lock' = NoOne /\ dirty' = FALSE /\ size' = 0 /\ lastSize' = 0 /\ task' = "idle"
      BY <1>1, <2>1, GoneTyped
    <3>2. dirty' \in BOOLEAN /\ incident' \in BOOLEAN
      BY <1>8, <3>1, Zenon DEF Exit, Typed, RestTyped
    <3> QED BY <1>8, <3>1, <3>2 DEF Exit, Typed, RestTyped
  <2>3. FileTyped'
    BY <1>1, <1>2, <1>8, <2>1, GoneTyped DEF Exit, Typed, FileTyped
  <2>4. StoreTyped'
    BY <1>1, <1>2, <1>8, <2>1, GoneTyped, Zenon DEF Exit, Typed, StoreTyped
  <2> QED BY <1>1, <2>1, <2>2, <2>3, <2>4, GoneTyped DEF Typed
<1>9. CASE PowerLoss
  <2>1. Gone
    BY <1>9 DEF PowerLoss
  <2>2. RestTyped'
    <3>0. faults.crashes < MaxCrashes /\ faults.crashes \in 0..MaxCrashes
      BY <1>9 DEF PowerLoss, Typed, RestTyped
    <3>1. faults.crashes + 1 \in 0..MaxCrashes
      BY <3>0, BoundsAssumption
    <3>2. faults' \in [errors: 0..MaxErrors, crashes: 0..MaxCrashes]
      BY <1>9, <3>1 DEF PowerLoss, Typed, RestTyped
    <3>3. lock' = NoOne /\ dirty' = FALSE /\ size' = 0 /\ lastSize' = 0 /\ task' = "idle"
      BY <1>1, <2>1, GoneTyped
    <3>4. dirty' \in BOOLEAN /\ incident' \in BOOLEAN
      BY <1>9, <3>3, Zenon DEF PowerLoss, Typed, RestTyped
    <3> QED BY <1>9, <3>2, <3>3, <3>4 DEF PowerLoss, RestTyped
  <2>3. FileTyped'
    <3>1. PICK n \in synced..Len(log), cut \in BOOLEAN :
             log' = SubSeq(log, 1, n) \o (IF cut THEN <<Broken>> ELSE <<>>)
      BY <1>9, Zenon DEF PowerLoss
    <3>2. Len(log) \in Nat /\ synced \in 0..Len(log)
      BY Joined DEF Typed, FileTyped
    <3>3. n \in 0..Len(log)
      BY <3>2
    <3>4. SubSeq(log, 1, n) \in Seq(Records)
      BY <3>3, Prefix DEF Typed
    <3>5. <<Broken>> \in Seq(Records) /\ <<>> \in Seq(Records)
      BY DEF Records
    <3>6. log' \in Seq(Records)
      BY <3>1, <3>4, <3>5, ConcatProperties
    <3>7. Len(log') \in Nat
      BY <3>6, LenProperties
    <3> QED BY <1>1, <1>2, <1>9, <2>1, <3>6, <3>7, GoneTyped DEF PowerLoss, FileTyped
  <2>4. StoreTyped'
    BY <1>1, <1>2, <1>9, <2>1, GoneTyped, Zenon DEF PowerLoss, Typed, StoreTyped
  <2> QED BY <1>1, <2>1, <2>2, <2>3, <2>4, GoneTyped DEF Typed
<1>10. CASE Restart
  <2>1. Len(log) \in Nat
    BY Joined DEF Typed
  <2>2. RestTyped'
    BY <1>10, <2>1 DEF Restart, history, Typed, RestTyped
  <2>3. FileTyped'
    BY <1>2, <1>10, <2>1 DEF Restart, Typed, FileTyped
  <2>4. StoreTyped'
    <3>1. db' = db \/ db' \in [Keys -> 0..next]
      BY <1>10, ReplayTyped DEF Restart
    <3> QED BY <1>1, <1>2, <1>10, <3>1 DEF Restart, history, Typed, StoreTyped
  <2> QED BY <1>3, <1>10, <2>2, <2>3, <2>4 DEF Restart, Typed
<1>11. CASE OperatorTruncates
  <2>1. RestTyped'
    BY <1>11 DEF OperatorTruncates, statVars, history, Typed, RestTyped
  <2>2. FileTyped'
    <3>1. PICK n \in 1..Len(log) : log' = SubSeq(log, 1, n - 1)
      BY <1>11 DEF OperatorTruncates
    <3>2. Len(log) \in Nat
      BY Joined DEF Typed
    <3>3. n - 1 \in 0..Len(log)
      BY <3>2
    <3>4. log' \in Seq(Records) /\ Len(log') = n - 1
      BY <3>1, <3>3, Prefix DEF Typed
    <3> QED BY <1>2, <1>11, <3>2, <3>4 DEF OperatorTruncates, Typed, FileTyped
  <2> QED BY <1>3, <1>4, <1>11, <2>1, <2>2 DEF OperatorTruncates, history, Typed
<1> QED BY <1>5, <1>6, <1>7, <1>8, <1>9, <1>10, <1>11 DEF ProcessStep

LEMMA TypedStep == Typed /\ [Next]_vars => Typed'
<1> SUFFICES ASSUME Typed, [Next]_vars PROVE Typed'
  OBVIOUS
<1>1. CASE UNCHANGED vars
  <2>1. /\ next' = next /\ db' = db /\ base' = base /\ acked' = acked /\ lost' = lost
        /\ conn' = conn /\ UNCHANGED fileVars /\ rw' = rw /\ rewriting' = rewriting
        /\ UNCHANGED <<lock, statVars, task, phase, faults, incident>>
    BY <1>1, Zenon DEF vars, history
  <2>2. Past' = Past /\ Records' = Records /\ Connections' = Connections /\ Jobs' = Jobs
    BY <2>1, SameSets, Zenon
  <2>3. StoreTyped' /\ ConnTyped'
    BY <2>1, <2>2, Zenon DEF Typed, StoreTyped, ConnTyped
  <2>4. FileTyped' /\ JobTyped'
    BY <2>1, <2>2, Zenon DEF fileVars, Typed, FileTyped, JobTyped
  <2>5. RestTyped'
    BY <2>1, Zenon DEF statVars, Typed, RestTyped
  <2> QED BY <2>3, <2>4, <2>5, Zenon DEF Typed
<1>2. CASE Next
  <2>1. CASE ProcessStep
    BY <2>1, ProcessTyped
  <2>2. CASE \E c \in Conns : ConnStep(c) \/ (\E k \in Keys : Apply(c, k))
    BY <2>2, ConnStepTyped, ApplyTyped
  <2>3. CASE \E r \in Rewriters : Bgrewriteaof(r) \/ SupervisorTick(r) \/ JobStep(r)
    BY <2>3, JobStepTyped DEF Bgrewriteaof, SupervisorTick
  <2> QED BY <1>2, <2>1, <2>2, <2>3 DEF Next, ProcessStep
<1> QED BY <1>1, <1>2

LEMMA TypedInit == Init => Typed
<1> SUFFICES ASSUME Init PROVE Typed
  OBVIOUS
<1>1. next = 0 /\ MaxWrites \in Nat
  BY BoundsAssumption DEF Init
<1>2. StoreTyped
  BY <1>1 DEF Init, StoreTyped
<1>3. ConnTyped
  <2>1. IdleConn \in Connections /\ IdleConn.pc = "idle"
    BY DEF IdleConn, Connections, ConnPcs
  <2> QED BY <2>1 DEF Init, ConnTyped
<1>4. FileTyped
  <2>1. orphan \in BOOLEAN
    BY Zenon DEF Init
  <2>2. <<>> \in Seq(Past) /\ <<>> \in Seq(Records) /\ Len(<<>>) = 0
    BY EmptySeq
  <2> QED BY <2>1, <2>2 DEF Init, FileTyped
<1>5. JobTyped
  BY IdleJobTyped, Zenon DEF Init, JobTyped
<1>6. RestTyped
  <2>1. dirty \in BOOLEAN /\ incident \in BOOLEAN
    BY Zenon DEF Init
  <2>2. faults \in [errors: 0..MaxErrors, crashes: 0..MaxCrashes]
    BY BoundsAssumption DEF Init
  <2> QED BY <2>1, <2>2 DEF Init, RestTyped
<1> QED BY <1>2, <1>3, <1>4, <1>5, <1>6 DEF Typed

LEMMA TypedAlways == Spec => []Typed
  BY TypedInit, TypedStep, PTL DEF Spec

\* Every variable stays in its range, through failures, power losses and restarts.
THEOREM TypeCorrect == Spec => []TypeOK
<1>1. Typed => TypeOK
  <2> SUFFICES ASSUME Typed PROVE TypeOK
    OBVIOUS
  <2>1. next \in 0..MaxWrites /\ 0..next \subseteq 0..MaxWrites
    BY BoundsAssumption DEF Typed, StoreTyped
  <2>2. Past \subseteq Writes
    BY <2>1 DEF Past, Writes, Typed, StoreTyped
  <2>3. Seq(Past) \subseteq Seq(Writes) /\ Seq(Records) \subseteq Seq(Writes \cup {Broken})
    BY <2>2, SeqMonotonic DEF Records
  <2>4. Connections \subseteq [pc: {"idle", "append", "fsync", "size"}, w: Writes \cup {NoWrite}]
    BY <2>2 DEF Connections, ConnPcs
  <2>5. Jobs \subseteq [pc: {"idle", "claim", "walk", "lock", "rename", "reopen", "release"},
                        todo: SUBSET Keys, tmp: Seq(Writes)]
    BY <2>3 DEF Jobs, JobPcs
  <2>6. db \in [Keys -> 0..MaxWrites] /\ base \in [Keys -> 0..MaxWrites] /\ acked \subseteq Writes
        /\ lost \subseteq Writes \cup {Broken}
    BY <2>1, <2>2 DEF Typed, StoreTyped, Records
  <2> QED BY <2>1, <2>3, <2>4, <2>5, <2>6, Zenon DEF TypeOK, Typed, ConnTyped, FileTyped, JobTyped, RestTyped
<1> QED BY <1>1, TypedAlways, PTL

----------------------------------------------------------------------------
(* Between two lives of the process. *)

Down == {"exited", "down", "refused"}
Quiet ==
    /\ \A c \in Conns : conn[c].pc = "idle"
    /\ \A r \in Rewriters : rw[r].pc = "idle"
    /\ buf = <<>> /\ ~orphan /\ ~dirty /\ lock = NoOne /\ task = "idle"
    /\ base = [k \in Keys |-> 0]
DownInv == phase \in Down => Quiet

LEMMA GoneQuiet == Gone => Quiet'
  BY IdleJobTyped DEF Gone, Quiet, IdleConn

LEMMA DownStep == DownInv /\ [Next]_vars => DownInv'
<1> SUFFICES ASSUME DownInv, [Next]_vars, phase' \in Down PROVE Quiet'
  BY DEF DownInv
<1>1. CASE Exit \/ PowerLoss
  BY <1>1, GoneQuiet DEF Exit, PowerLoss
<1>2. CASE phase \in Down
  <2>1. Quiet
    BY <1>2 DEF DownInv
  <2>2. ASSUME NEW c \in Conns, ConnStep(c) \/ \E k \in Keys : Apply(c, k) PROVE FALSE
    BY <1>2, <2>1, <2>2, Zenon DEF ConnStep, AppendBuffered, AppendLocked, AppendFsync, AppendFails, AddSize, Apply, Quiet, Down
  <2>3. ASSUME NEW r \in Rewriters, JobStep(r) \/ SpawnJob(r) PROVE FALSE
    BY <1>2, <2>1, <2>3, Zenon DEF JobStep, SpawnJob, Claim, WalkKey, LockLive, RenameFile, Reopen, Release, WalkFails,
                           LiveFlushFails, RenameFails, ReopenFails, Quiet, Down
  <2>4. ~(EverysecTick \/ EverysecLast \/ EverysecSync \/ SyncFails \/ Shutdown \/ FinalSync \/ FinalSyncFails)
    BY <1>2, <2>1, Zenon DEF EverysecTick, EverysecLast, EverysecSync, SyncFails, Shutdown, FinalSync, FinalSyncFails, Quiet, Down
  <2>5. CASE Restart \/ OperatorTruncates \/ UNCHANGED vars
    <3>1. UNCHANGED <<conn, rw, buf, orphan, dirty, lock, task, base>>
      <4>1. CASE Restart
        BY <4>1, Zenon DEF Restart, history
      <4>2. CASE OperatorTruncates
        BY <4>2, Zenon DEF OperatorTruncates, statVars, history
      <4>3. CASE UNCHANGED vars
        BY <4>3, Zenon DEF vars, fileVars, statVars, history
      <4> QED BY <2>5, <4>1, <4>2, <4>3
    <3> QED BY <2>1, <3>1, Zenon DEF Quiet
  <2> QED BY <1>1, <2>2, <2>3, <2>4, <2>5 DEF Next, Bgrewriteaof, SupervisorTick
<1>3. CASE phase \notin Down
  <2>1. phase' # phase
    BY <1>3
  <2>2. ASSUME NEW c \in Conns, ConnStep(c) \/ \E k \in Keys : Apply(c, k) PROVE FALSE
    BY <2>1, <2>2, Zenon DEF ConnStep, AppendBuffered, AppendLocked, AppendFsync, AppendFails, AddSize, Apply
  <2>3. ASSUME NEW r \in Rewriters, JobStep(r) \/ SpawnJob(r) PROVE FALSE
    BY <2>1, <2>3, Zenon DEF JobStep, SpawnJob, Claim, WalkKey, LockLive, RenameFile, Reopen, Release, WalkFails,
                      LiveFlushFails, RenameFails, ReopenFails
  <2>4. ~(EverysecTick \/ EverysecLast \/ EverysecSync \/ SyncFails \/ Shutdown \/ FinalSync \/ FinalSyncFails)
    BY <2>1, Zenon DEF EverysecTick, EverysecLast, EverysecSync, SyncFails, Shutdown, FinalSync, FinalSyncFails, Down
  <2>5. ~(Restart \/ OperatorTruncates \/ UNCHANGED vars)
    BY <1>3, <2>1, Zenon DEF Restart, OperatorTruncates, vars, Down
  <2> QED BY <1>1, <2>2, <2>3, <2>4, <2>5 DEF Next, Bgrewriteaof, SupervisorTick
<1> QED BY <1>2, <1>3

----------------------------------------------------------------------------
(* The lock over the live file. *)

\* Who holds the lock: an append inside its fsync, or a rewrite between its flush of the
\* old file and the reopening of the new one.  Nobody else touches the buffer then.
LockInv ==
    /\ \A c \in Conns : conn[c].pc = "fsync" => lock = c /\ Policy = "always"
    /\ \A r \in Rewriters : rw[r].pc \in {"rename", "reopen"} => lock = r /\ buf = <<>>
    /\ \A r \in Rewriters : rw[r].pc = "reopen" => synced = Len(log) /\ log = rw[r].tmp

LEMMA LockConn ==
    ASSUME Typed, LockInv, NEW c \in Conns, ConnStep(c) \/ \E k \in Keys : Apply(c, k)
    PROVE  LockInv'
<1>1. conn \in [Conns -> Connections] /\ conn[c] \in Connections /\ rw' = rw
  BY Zenon DEF Typed, ConnTyped, ConnStep, AppendBuffered, AppendLocked, AppendFsync, AppendFails, AddSize, Apply
<1>2. \A d \in Conns \ {c} : conn'[d] = conn[d]
  BY <1>1, Zenon DEF ConnStep, AppendBuffered, AppendLocked, AppendFsync, AppendFails, AddSize, Apply
<1>3. CASE (\E k \in Keys : Apply(c, k)) \/ AddSize(c)
  <2>1. conn'[c].pc # "fsync"
    <3>1. CASE AddSize(c)
      BY <1>1, <3>1, Zenon DEF AddSize, IdleConn
    <3>2. ASSUME NEW k \in Keys, Apply(c, k) PROVE conn'[c].pc = "append"
      BY <1>1, <3>2, Zenon DEF Apply
    <3> QED BY <1>3, <3>1, <3>2, Zenon
  <2> QED BY <1>1, <1>2, <1>3, <2>1, Zenon DEF Apply, AddSize, LockInv, fileVars
<1>4. CASE AppendBuffered(c)
  <2>1. conn'[c].pc = "size" /\ lock = NoOne
    BY <1>1, <1>4 DEF AppendBuffered, Connections
  <2>2. \A r \in Rewriters : rw[r].pc \notin {"rename", "reopen"}
    BY <2>1, ThreadsAssumption, Zenon DEF LockInv
  <2> QED BY <1>1, <1>2, <1>4, <2>1, <2>2 DEF AppendBuffered, LockInv
<1>5. CASE AppendLocked(c)
  <2>1. lock = NoOne /\ lock' = c /\ Policy = "always"
    BY <1>5 DEF AppendLocked
  <2>2. \A r \in Rewriters : rw[r].pc \notin {"rename", "reopen"}
    BY <2>1, ThreadsAssumption, Zenon DEF LockInv
  <2>3. \A d \in Conns \ {c} : conn[d].pc # "fsync"
    BY <2>1, ThreadsAssumption, Zenon DEF LockInv
  <2> QED BY <1>1, <1>2, <2>1, <2>2, <2>3, Zenon DEF LockInv
<1>6. CASE AppendFsync(c) \/ AppendFails(c)
  <2>1. lock = c /\ conn'[c].pc # "fsync"
    <3>1. lock = c
      BY <1>6 DEF AppendFsync, AppendFails, LockInv
    <3>2. CASE AppendFsync(c)
      BY <1>1, <3>1, <3>2 DEF AppendFsync, Connections
    <3>3. CASE AppendFails(c)
      BY <1>1, <3>1, <3>3, Zenon DEF AppendFails, IdleConn
    <3> QED BY <1>6, <3>2, <3>3, Zenon
  <2>2. \A r \in Rewriters : rw[r].pc \notin {"rename", "reopen"}
    BY <2>1, ThreadsAssumption, Zenon DEF LockInv
  <2>3. \A d \in Conns \ {c} : conn[d].pc # "fsync"
    BY <2>1, Zenon DEF LockInv
  <2> QED BY <1>1, <1>2, <2>1, <2>2, <2>3, Zenon DEF LockInv
<1> QED BY <1>3, <1>4, <1>5, <1>6 DEF ConnStep

LEMMA LockJob ==
    ASSUME Typed, LockInv, NEW r \in Rewriters, JobStep(r) \/ SpawnJob(r)
    PROVE  LockInv'
<1>1. rw \in [Rewriters -> Jobs] /\ rw[r] \in Jobs /\ conn' = conn
  BY Zenon DEF Typed, JobTyped, JobStep, SpawnJob, Claim, WalkKey, LockLive, RenameFile, Reopen, Release, WalkFails,
         LiveFlushFails, RenameFails, ReopenFails
<1>2. \A s \in Rewriters \ {r} : rw'[s] = rw[s]
  BY <1>1, Zenon DEF JobStep, SpawnJob, Claim, WalkKey, LockLive, RenameFile, Reopen, Release, WalkFails,
         LiveFlushFails, RenameFails, ReopenFails
<1>3. ASSUME UNCHANGED <<lock, buf, log, synced>>, rw'[r].pc \notin {"rename", "reopen"} PROVE LockInv'
  BY <1>1, <1>2, <1>3, Zenon DEF LockInv
<1>4. CASE SpawnJob(r)
  <2>1. rw'[r].pc = "claim"
    BY <1>1, <1>4 DEF SpawnJob, Jobs
  <2> QED BY <1>3, <1>4, <2>1 DEF SpawnJob, fileVars
<1>5. CASE Claim(r) \/ Release(r)
  <2>1. rw'[r].pc \in {"idle", "walk"}
    BY <1>1, <1>5, IdleJobTyped, WalkingJob, Zenon DEF Claim, Release
  <2> QED BY <1>3, <1>5, <2>1, Zenon DEF Claim, Release, fileVars
<1>6. CASE \E k \in Keys : WalkKey(r, k)
  <2>1. rw'[r].pc \in {"lock", "walk"}
    <3>1. PICK k \in Keys : WalkKey(r, k)
      BY <1>6
    <3>2. rw'[r] = Walked(r, k)
      BY <1>1, <3>1, WalkStep, Zenon
    <3>3. Walked(r, k).pc \in {"lock", "walk"}
      BY Zenon DEF Walked
    <3> QED BY <3>2, <3>3, Zenon
  <2> QED BY <1>3, <1>6, <2>1, Zenon DEF WalkKey, fileVars
<1>7. CASE WalkFails(r) \/ LiveFlushFails(r)
  <2>1. rw'[r].pc = "release"
    BY <1>1, <1>7, ReleasedTyped, Zenon DEF WalkFails, LiveFlushFails, Released
  <2> QED BY <1>3, <1>7, <2>1 DEF WalkFails, LiveFlushFails, fileVars
<1>8. CASE LockLive(r)
  <2>1. lock = NoOne /\ lock' = r /\ buf' = <<>> /\ rw'[r].pc = "rename"
    BY <1>1, <1>8, SMTT(30) DEF LockLive, Flush, Jobs
  <2>2. \A s \in Rewriters \ {r} : rw'[s].pc \notin {"rename", "reopen"}
    BY <1>2, <2>1, ThreadsAssumption, Zenon DEF LockInv
  <2>3. \A c \in Conns : conn'[c].pc # "fsync"
    BY <1>1, <2>1, ThreadsAssumption, Zenon DEF LockInv
  <2> QED BY <2>1, <2>2, <2>3, Zenon DEF LockInv
<1>9. CASE RenameFile(r) \/ RenameFails(r) \/ Reopen(r) \/ ReopenFails(r)
  <2>1. rw[r].pc \in {"rename", "reopen"} /\ lock = r /\ buf = <<>>
    BY <1>9 DEF RenameFile, RenameFails, Reopen, ReopenFails, LockInv
  <2>2. \A s \in Rewriters \ {r} : rw'[s].pc \notin {"rename", "reopen"}
    BY <1>2, <2>1, SMTT(30) DEF LockInv
  <2>3. \A c \in Conns : conn'[c].pc # "fsync"
    BY <1>1, <2>1, ThreadsAssumption, Zenon DEF LockInv
  <2>4. CASE RenameFile(r)
    <3>1. rw'[r].pc = "reopen" /\ rw'[r].tmp = rw[r].tmp
      BY <1>1, <2>4 DEF RenameFile, Jobs
    <3>2. lock' = r /\ buf' = <<>> /\ log' = rw[r].tmp /\ synced' = Len(log')
      BY <2>1, <2>4, SMTT(30) DEF RenameFile
    <3> QED BY <2>2, <2>3, <3>1, <3>2, Zenon DEF LockInv
  <2>5. CASE RenameFails(r) \/ Reopen(r) \/ ReopenFails(r)
    <3>1. rw'[r].pc = "release"
      BY <1>1, <2>5, ReleasedTyped, Zenon DEF RenameFails, Reopen, ReopenFails, Released
    <3> QED BY <2>2, <2>3, <3>1, Zenon DEF LockInv
  <2> QED BY <1>9, <2>4, <2>5
<1> QED BY <1>4, <1>5, <1>6, <1>7, <1>8, <1>9, Zenon DEF JobStep

LEMMA LockProcess ==
    ASSUME Typed, DownInv, LockInv, ProcessStep
    PROVE  LockInv'
<1>1. CASE EverysecTick \/ EverysecLast \/ Shutdown
  BY <1>1, Zenon DEF EverysecTick, EverysecLast, Shutdown, fileVars, LockInv
<1>2. CASE EverysecSync \/ SyncFails \/ FinalSync \/ FinalSyncFails
  <2>1. lock = NoOne /\ UNCHANGED <<conn, rw>>
    BY <1>2, Zenon DEF EverysecSync, SyncFails, FinalSync, FinalSyncFails
  <2>2. /\ \A r \in Rewriters : rw[r].pc \notin {"rename", "reopen"}
        /\ \A c \in Conns : conn[c].pc # "fsync"
    BY <2>1, ThreadsAssumption, Zenon DEF LockInv
  <2> QED BY <2>1, <2>2, Zenon DEF LockInv
<1>3. CASE Exit \/ PowerLoss
  <2>1. \A c \in Conns : conn'[c].pc = "idle"
    BY <1>3 DEF Exit, PowerLoss, Gone, IdleConn
  <2>2. \A r \in Rewriters : rw'[r].pc = "idle"
    BY <1>3, IdleJobTyped DEF Exit, PowerLoss, Gone
  <2> QED BY <2>1, <2>2, Zenon DEF LockInv
<1>4. CASE Restart \/ OperatorTruncates
  <2>1. Quiet /\ UNCHANGED <<conn, rw>>
    BY <1>4 DEF Restart, OperatorTruncates, DownInv, Down
  <2> QED BY <2>1, Zenon DEF Quiet, LockInv
<1> QED BY <1>1, <1>2, <1>3, <1>4, SMTT(30) DEF ProcessStep

LEMMA LockStep == Typed /\ DownInv /\ LockInv /\ [Next]_vars => LockInv'
<1> SUFFICES ASSUME Typed, DownInv, LockInv, [Next]_vars PROVE LockInv'
  OBVIOUS
<1>1. CASE UNCHANGED vars
  BY <1>1, Zenon DEF vars, fileVars, LockInv
<1>2. ASSUME NEW c \in Conns, ConnStep(c) \/ \E k \in Keys : Apply(c, k) PROVE LockInv'
  BY <1>2, LockConn
<1>3. ASSUME NEW r \in Rewriters, JobStep(r) \/ SpawnJob(r) PROVE LockInv'
  BY <1>3, LockJob
<1>4. CASE ProcessStep
  BY <1>4, LockProcess
<1> QED BY <1>1, <1>2, <1>3, <1>4 DEF Next, ProcessStep, Bgrewriteaof, SupervisorTick

LEMMA LockAlways == Spec => [](Typed /\ DownInv /\ LockInv)
<1>1. Init => DownInv
  BY Zenon DEF Init, DownInv, Down
<1>2. Init => LockInv
  <2>1. IdleConn.pc = "idle"
    BY DEF IdleConn
  <2> QED BY <2>1, IdleJobTyped, Zenon DEF Init, LockInv
<1> QED BY <1>1, <1>2, TypedAlways, DownStep, LockStep, PTL DEF Spec

----------------------------------------------------------------------------
(* A file that has lost its name. *)

\* It is the business of the rewrite that is about to reopen the path, or of a reopen that
\* failed; the file at the path does not change meanwhile.
OrphanInv ==
    orphan => /\ synced = Len(log)
              /\ incident \/ \E r \in Rewriters : rw[r].pc = "reopen"

LEMMA OrphanStep == Typed /\ DownInv /\ LockInv /\ OrphanInv /\ [Next]_vars => OrphanInv'
<1> SUFFICES ASSUME Typed, DownInv, LockInv, OrphanInv, [Next]_vars, orphan'
             PROVE  synced' = Len(log') /\ (incident' \/ \E r \in Rewriters : rw'[r].pc = "reopen")
  BY DEF OrphanInv
<1>1. ASSUME orphan, log' = log, synced' = synced, incident \/ rw' = rw, incident => incident'
      PROVE  synced' = Len(log') /\ (incident' \/ \E r \in Rewriters : rw'[r].pc = "reopen")
  BY <1>1 DEF OrphanInv
<1>2. CASE UNCHANGED vars
  BY <1>1, <1>2, Zenon DEF vars, fileVars, history
<1>3. ASSUME NEW c \in Conns, ConnStep(c) \/ \E k \in Keys : Apply(c, k) PROVE OrphanInv'
  <2>1. orphan' = orphan /\ rw' = rw
    BY <1>3, Zenon DEF ConnStep, AppendBuffered, AppendLocked, AppendFsync, AppendFails, AddSize, Apply, fileVars
  <2>2. log' = log /\ synced' = synced
    BY <1>3, <2>1, Zenon DEF ConnStep, AppendBuffered, AppendLocked, AppendFsync, AppendFails, AddSize, Apply, Flush,
                      FlushAndSync, fileVars
  <2>3. incident' = incident \/ incident' = TRUE
    BY <1>3, Zenon DEF ConnStep, AppendBuffered, AppendLocked, AppendFsync, AppendFails, AddSize, Apply, history
  <2> QED BY <1>1, <2>1, <2>2, <2>3, Zenon DEF OrphanInv
<1>4. ASSUME NEW r \in Rewriters, JobStep(r) \/ SpawnJob(r) PROVE OrphanInv'
  <2>1. rw \in [Rewriters -> Jobs] /\ rw[r] \in Jobs
    BY DEF Typed, JobTyped
  <2>2. CASE RenameFile(r)
    <3>1. rw'[r].pc = "reopen"
      BY <2>1, <2>2 DEF RenameFile, Jobs
    <3> QED BY <2>2, <3>1 DEF RenameFile, OrphanInv
  <2>3. CASE ReopenFails(r)
    <3>1. synced = Len(log) /\ UNCHANGED <<log, synced>> /\ incident'
      BY <2>3 DEF ReopenFails, LockInv, fileVars
    <3> QED BY <3>1, Zenon DEF OrphanInv
  <2>4. CASE ~RenameFile(r) /\ ~ReopenFails(r)
    <3>1. /\ orphan /\ log' = log /\ synced' = synced /\ incident' = incident
      BY <1>4, <2>4, Zenon DEF JobStep, SpawnJob, Claim, WalkKey, LockLive, Reopen, Release, WalkFails, LiveFlushFails,
                        RenameFails, Flush, fileVars, history
    <3>2. rw[r].pc # "reopen" /\ \A s \in Rewriters \ {r} : rw'[s] = rw[s]
      BY <1>4, <2>1, <2>4, <3>1, Zenon DEF JobStep, SpawnJob, Claim, WalkKey, LockLive, Reopen, Release, WalkFails, LiveFlushFails,
                        RenameFails
    <3> QED BY <3>1, <3>2 DEF OrphanInv
  <2> QED BY <2>2, <2>3, <2>4
<1>5. CASE EverysecTick \/ EverysecLast \/ EverysecSync \/ SyncFails \/ Shutdown \/ FinalSync \/ FinalSyncFails
  <2>1. orphan' = orphan /\ rw' = rw
    BY <1>5, Zenon DEF EverysecTick, EverysecLast, EverysecSync, SyncFails, Shutdown, FinalSync, FinalSyncFails, fileVars
  <2>2. log' = log /\ synced' = synced
    BY <1>5, <2>1, Zenon DEF EverysecTick, EverysecLast, EverysecSync, SyncFails, Shutdown, FinalSync, FinalSyncFails, Flush,
                      FlushAndSync, fileVars
  <2>3. incident' = incident \/ incident' = TRUE
    BY <1>5, Zenon DEF EverysecTick, EverysecLast, EverysecSync, SyncFails, Shutdown, FinalSync, FinalSyncFails, history
  <2> QED BY <1>1, <2>1, <2>2, <2>3
<1>6. CASE Exit \/ PowerLoss
  BY <1>6 DEF Exit, PowerLoss, Gone
<1>7. CASE Restart \/ OperatorTruncates
  BY <1>7, Zenon DEF Restart, OperatorTruncates, DownInv, Down, Quiet
<1> QED BY <1>2, <1>3, <1>4, <1>5, <1>6, <1>7, Zenon DEF Next, Bgrewriteaof, SupervisorTick, OrphanInv

LEMMA OrphanAlways == Spec => [](Typed /\ DownInv /\ LockInv /\ OrphanInv)
<1>1. Init => OrphanInv
  BY DEF Init, OrphanInv
<1> QED BY <1>1, LockAlways, OrphanStep, PTL DEF Spec

----------------------------------------------------------------------------
(* A clean log is on the disk. *)

LEMMA CleanStep == Typed /\ DownInv /\ LockInv /\ OrphanInv /\ CleanMeansSynced /\ [Next]_vars => CleanMeansSynced'
<1> SUFFICES ASSUME Typed, DownInv, LockInv, OrphanInv, CleanMeansSynced, [Next]_vars, Running', Policy = "everysec",
                    ~dirty'
             PROVE  buf' = <<>> /\ synced' = Len(log')
  BY DEF CleanMeansSynced
<1>1. ASSUME Running, dirty' = dirty PROVE buf = <<>> /\ synced = Len(log)
  BY <1>1 DEF CleanMeansSynced
<1>2. ASSUME Running, UNCHANGED <<dirty, buf, log, synced>> PROVE buf' = <<>> /\ synced' = Len(log')
  BY <1>1, <1>2
<1>3. ASSUME Running, Flush, dirty' = dirty, synced' = synced PROVE buf' = <<>> /\ synced' = Len(log')
  <2>1. buf = <<>> /\ synced = Len(log) /\ log \o <<>> = log
    BY <1>1, <1>3, Joined DEF Typed
  <2>2. log' = log /\ buf' = <<>>
    BY <1>3, <2>1 DEF Flush
  <2> QED BY <1>3, <2>1, <2>2
<1>4. ASSUME FlushAndSync PROVE buf' = <<>> /\ synced' = Len(log')
  BY <1>4, Zenon DEF FlushAndSync, Flush, OrphanInv
<1>5. ASSUME NEW c \in Conns, ConnStep(c) \/ \E k \in Keys : Apply(c, k) PROVE buf' = <<>> /\ synced' = Len(log')
  <2>1. conn[c].pc # "fsync"
    BY Zenon DEF LockInv
  <2>2. phase' = phase
    BY <1>5, Zenon DEF ConnStep, AppendBuffered, AppendLocked, AppendFsync, AppendFails, AddSize, Apply
  <2>3. UNCHANGED <<dirty, buf, log, synced>>
    BY <1>5, <2>1, Zenon DEF ConnStep, AppendBuffered, AppendLocked, AppendFsync, AppendFails, AddSize, Apply, fileVars, statVars
  <2> QED BY <1>2, <2>2, <2>3 DEF Running
<1>6. ASSUME NEW r \in Rewriters, JobStep(r) \/ SpawnJob(r) PROVE buf' = <<>> /\ synced' = Len(log')
  <2>0. Running
    BY <1>6, Zenon DEF JobStep, SpawnJob, Claim, WalkKey, LockLive, RenameFile, Reopen, Release, WalkFails, LiveFlushFails,
                RenameFails, ReopenFails, Running
  <2>1. CASE LockLive(r)
    BY <1>3, <2>0, <2>1 DEF LockLive, statVars
  <2>2. CASE RenameFile(r)
    BY <2>2 DEF RenameFile, LockInv
  <2>3. CASE Reopen(r)
    BY <2>3 DEF Reopen, LockInv
  <2>4. CASE ~LockLive(r) /\ ~RenameFile(r) /\ ~Reopen(r)
    <3>1. UNCHANGED <<dirty, buf, log, synced>>
      BY <1>6, <2>4, Zenon DEF JobStep, SpawnJob, Claim, WalkKey, Release, WalkFails, LiveFlushFails, RenameFails, ReopenFails,
                        fileVars, statVars
    <3> QED BY <1>2, <2>0, <3>1
  <2> QED BY <2>1, <2>2, <2>3, <2>4
<1>7. CASE EverysecTick \/ EverysecLast \/ Shutdown \/ UNCHANGED vars
  BY <1>2, <1>7, Zenon DEF EverysecTick, EverysecLast, Shutdown, vars, fileVars, statVars, Running
<1>8. CASE EverysecSync \/ FinalSync
  BY <1>4, <1>8, Zenon DEF EverysecSync, FinalSync
<1>9. CASE SyncFails \/ FinalSyncFails
  <2>1. Running /\ dirty' = dirty /\ synced' = synced /\ (Flush \/ UNCHANGED <<buf, log>>)
    BY <1>9, Zenon DEF SyncFails, FinalSyncFails, statVars, Running
  <2> QED BY <1>2, <1>3, <2>1
<1>10. CASE PowerLoss \/ Exit \/ OperatorTruncates
  BY <1>10 DEF PowerLoss, Exit, OperatorTruncates, Running
<1>11. CASE Restart
  <2>1. Quiet
    BY <1>11, Zenon DEF Restart, DownInv, Down
  <2> QED BY <1>11, <2>1, Zenon DEF Restart, Quiet, Running
<1> QED BY <1>5, <1>6, <1>7, <1>8, <1>9, <1>10, <1>11, SMTT(30) DEF Next, Bgrewriteaof, SupervisorTick

\* Under everysec, what is in the buffer or not yet on the disk is always known to the
\* dirty flag, whatever fails and whenever a rewrite swaps the file.
THEOREM CleanIsSynced == Spec => []CleanMeansSynced
<1>1. Init => CleanMeansSynced
  BY DEF Init, CleanMeansSynced
<1> QED BY <1>1, OrphanAlways, CleanStep, PTL DEF Spec

----------------------------------------------------------------------------
(* One rewrite at a time. *)

Claimed == {"walk", "lock", "rename", "reopen", "release"}
Busy(r) == rw[r].pc \in Claimed

\* The flag is set as long as a job is past its claim, and there is one such job.
RewriteInv ==
    /\ \A r \in Rewriters : Busy(r) => rewriting
    /\ \A q, r \in Rewriters : Busy(q) /\ Busy(r) => q = r

LEMMA JobMoves ==
    ASSUME Typed, NEW r \in Rewriters, JobStep(r) \/ SpawnJob(r)
    PROVE  /\ \A s \in Rewriters \ {r} : rw'[s] = rw[s]
           /\ ~Claim(r) /\ ~Release(r) => rewriting' = rewriting /\ (Busy(r)' => Busy(r))
           /\ Claim(r) => (Busy(r)' => ~rewriting /\ rewriting')
           /\ Claim(r) => (~Busy(r)' => rewriting' = rewriting)
           /\ Release(r) => Busy(r) /\ ~Busy(r)'
<1>1. rw \in [Rewriters -> Jobs] /\ rw[r] \in Jobs
  BY DEF Typed, JobTyped
<1>2. \A s \in Rewriters \ {r} : rw'[s] = rw[s]
  BY <1>1, Zenon DEF JobStep, SpawnJob, Claim, WalkKey, LockLive, RenameFile, Reopen, Release, WalkFails, LiveFlushFails,
              RenameFails, ReopenFails
<1>3. CASE SpawnJob(r)
  <2>1. rw'[r].pc = "claim" /\ rw[r].pc = "idle" /\ rewriting' = rewriting
    BY <1>1, <1>3 DEF SpawnJob, Jobs
  <2> QED BY <1>2, <2>1, Zenon DEF Busy, Claimed, Claim, Release
<1>4. CASE Claim(r)
  <2>1. rw[r].pc = "claim" /\ (rewriting => rw'[r] = IdleJob /\ rewriting' = rewriting) /\ (~rewriting => rewriting')
    BY <1>1, <1>4, Zenon DEF Claim
  <2>2. ~rewriting => rw'[r].pc = "walk"
    BY <1>1, <1>4, WalkingJob, Zenon DEF Claim
  <2> QED BY <1>2, <1>4, <2>1, <2>2, IdleJobTyped, Zenon DEF Busy, Claimed, Release
<1>5. CASE Release(r)
  <2>1. rw[r].pc = "release" /\ rw'[r].pc = "idle"
    BY <1>1, <1>5, IdleJobTyped, Zenon DEF Release
  <2> QED BY <1>2, <1>5, <2>1, Zenon DEF Busy, Claimed, Claim
<1>6. CASE ~SpawnJob(r) /\ ~Claim(r) /\ ~Release(r)
  <2>1. Busy(r) /\ rewriting' = rewriting
    BY <1>6, Zenon DEF JobStep, WalkKey, LockLive, RenameFile, Reopen, WalkFails, LiveFlushFails, RenameFails, ReopenFails,
                Busy, Claimed
  <2> QED BY <1>2, <1>6, <2>1, Zenon
<1> QED BY <1>3, <1>4, <1>5, <1>6, Zenon

LEMMA RewriteStep == Typed /\ RewriteInv /\ [Next]_vars => RewriteInv'
<1> SUFFICES ASSUME Typed, RewriteInv, [Next]_vars PROVE RewriteInv'
  OBVIOUS
<1>1. CASE UNCHANGED <<rw, rewriting>>
  BY <1>1 DEF RewriteInv, Busy
<1>2. CASE Exit \/ PowerLoss
  <2>1. \A r \in Rewriters : ~Busy(r)'
    BY <1>2, IdleJobTyped DEF Exit, PowerLoss, Gone, Busy, Claimed
  <2> QED BY <2>1 DEF RewriteInv
<1>3. ASSUME NEW r \in Rewriters, JobStep(r) \/ SpawnJob(r) PROVE RewriteInv'
  <2>1. \A s \in Rewriters \ {r} : Busy(s)' <=> Busy(s)
    BY <1>3, JobMoves, Zenon DEF Busy
  <2>2. CASE ~Claim(r) /\ ~Release(r)
    <3>1. rewriting' = rewriting /\ (Busy(r)' => Busy(r))
      BY <1>3, <2>2, JobMoves, Zenon
    <3> QED BY <2>1, <3>1, SMTT(30) DEF RewriteInv
  <2>3. CASE Claim(r) /\ Busy(r)'
    <3>1. ~rewriting /\ rewriting'
      BY <1>3, <2>3, JobMoves, Zenon
    <3> QED BY <2>1, <3>1 DEF RewriteInv
  <2>4. CASE Claim(r) /\ ~Busy(r)'
    <3>1. rewriting' = rewriting
      BY <1>3, <2>4, JobMoves, Zenon
    <3> QED BY <2>1, <2>4, <3>1 DEF RewriteInv
  <2>5. CASE Release(r)
    <3>1. Busy(r) /\ ~Busy(r)'
      BY <1>3, <2>5, JobMoves, Zenon
    <3> QED BY <2>1, <3>1 DEF RewriteInv
  <2> QED BY <2>2, <2>3, <2>4, <2>5
<1>4. ASSUME NEW c \in Conns, ConnStep(c) \/ \E k \in Keys : Apply(c, k) PROVE UNCHANGED <<rw, rewriting>>
  BY <1>4, Zenon DEF ConnStep, AppendBuffered, AppendLocked, AppendFsync, AppendFails, AddSize, Apply
<1>5. CASE EverysecTick \/ EverysecLast \/ EverysecSync \/ SyncFails \/ Shutdown \/ FinalSync \/ FinalSyncFails
           \/ Restart \/ OperatorTruncates \/ UNCHANGED vars
  BY <1>1, <1>5, Zenon DEF EverysecTick, EverysecLast, EverysecSync, SyncFails, Shutdown, FinalSync, FinalSyncFails, Restart,
                    OperatorTruncates, vars
<1> QED BY <1>1, <1>2, <1>3, <1>4, <1>5 DEF Next, Bgrewriteaof, SupervisorTick

LEMMA RewriteAlways == Spec => []RewriteInv
<1>1. Init => RewriteInv
  BY IdleJobTyped, Zenon DEF Init, RewriteInv, Busy, Claimed
<1> QED BY <1>1, TypedAlways, RewriteStep, PTL DEF Spec

\* The flag lets one rewrite in, however many BGREWRITEAOFs and supervisor ticks race.
THEOREM OneRewriteAtATime == Spec => []OneRewrite
<1>1. Typed /\ RewriteInv => OneRewrite
  <2> SUFFICES ASSUME Typed, RewriteInv PROVE OneRewrite
    OBVIOUS
  <2>1. \A r \in Rewriters : rw[r].pc \in JobPcs
    BY JobFacts DEF Typed, JobTyped, Jobs
  <2> QED BY <2>1, Zenon DEF OneRewrite, RewriteInv, Busy, Claimed, JobPcs
<1> QED BY <1>1, TypedAlways, RewriteAlways, PTL

----------------------------------------------------------------------------
(* What a rewrite may drop. *)

LEMMA NotBroken ==
    ASSUME NEW w \in Past
    PROVE  w # Broken /\ w = <<w[1], w[2]>> /\ w[1] \in Keys /\ w[2] \in 1..next
<1>1. PICK k \in Keys, n \in 1..next : w = <<k, n>>
  BY DEF Past
<1>2. Len(<<k, n>>) = 2 /\ Len(<<>>) = 0
  OBVIOUS
<1> QED BY <1>1, <1>2 DEF Broken

LEMMA CoveredLonger ==
    ASSUME NEW S, NEW s \in Seq(S), NEW e \in S, NEW w, Covered(w, s)
    PROVE  Covered(w, Append(s, e))
<1>1. PICK i \in 1..Len(s) : s[i] # Broken /\ s[i][1] = w[1] /\ s[i][2] >= w[2]
  BY Zenon DEF Covered
<1>2. Len(Append(s, e)) = Len(s) + 1 /\ Append(s, e)[i] = s[i] /\ Len(s) \in Nat
  BY AppendProperties, LenProperties
<1>3. i \in 1..Len(Append(s, e))
  BY <1>2
<1> QED BY <1>1, <1>2, <1>3, Zenon DEF Covered

LEMMA CoveredByLast ==
    ASSUME NEW S, NEW s \in Seq(S), NEW e \in S, NEW w, e # Broken, e[1] = w[1], e[2] >= w[2]
    PROVE  Covered(w, Append(s, e))
<1>0. Len(s) \in Nat
  BY LenProperties
<1>1. Len(Append(s, e)) = Len(s) + 1 /\ Append(s, e)[Len(s) + 1] = e
  BY AppendProperties, Zenon
<1>2. Len(s) + 1 \in 1..Len(Append(s, e))
  BY <1>0, <1>1
<1> QED BY <1>1, <1>2, Zenon DEF Covered

\* The store only grows while a rewrite runs; of the keys it has read, the temporary file
\* has the version they had at the beginning or a later one.
CarryInv ==
    /\ \A k \in Keys : base[k] <= db[k]
    /\ \A r \in Rewriters : rw[r].pc \in {"walk", "lock", "rename"} =>
         \A k \in Keys \ rw[r].todo : base[k] = 0 \/ Covered(<<k, base[k]>>, rw[r].tmp)
    /\ \A r \in Rewriters : rw[r].pc \in {"lock", "rename"} => rw[r].todo = {}

LEMMA CarryWalk ==
    ASSUME Typed, CarryInv, NEW r \in Rewriters, NEW k \in Keys, WalkKey(r, k)
    PROVE  CarryInv'
<1>1. rw \in [Rewriters -> Jobs] /\ rw[r] \in Jobs /\ rw[r].pc = "walk" /\ UNCHANGED <<base, db>>
  BY Zenon DEF Typed, JobTyped, WalkKey, history
<1>2. rw' = [rw EXCEPT ![r] = Walked(r, k)] /\ rw[r].tmp \in Seq(Past)
  BY <1>1, WalkStep, JobFacts DEF Jobs
<1>3. /\ rw'[r].pc = IF rw[r].todo = {k} THEN "lock" ELSE "walk"
      /\ rw'[r].todo = rw[r].todo \ {k} /\ rw'[r].tmp = WalkedTmp(r, k)
      /\ \A s \in Rewriters \ {r} : rw'[s] = rw[s]
  BY <1>1, <1>2, Zenon DEF Walked
<1>4. base[k] \in 0..next /\ db[k] \in 0..next /\ next \in Nat /\ base[k] <= db[k]
  BY Zenon DEF Typed, StoreTyped, CarryInv
<1>5. db[k] # 0 => <<k, db[k]>> \in Past
  BY <1>4, SMTT(30) DEF Past
<1>6. ASSUME NEW j \in Keys \ (rw[r].todo \ {k}) PROVE base[j] = 0 \/ Covered(<<j, base[j]>>, WalkedTmp(r, k))
  <2>1. CASE j = k
    <3>1. CASE db[k] = 0
      <4>1. base[k] = 0
        BY <1>4, <3>1, NumberFacts, Zenon
      <4> QED BY <2>1, <4>1, Zenon
    <3>2. CASE db[k] # 0
      <4>1. <<k, db[k]>> # Broken /\ <<k, db[k]>>[1] = <<k, base[k]>>[1] /\ <<k, db[k]>>[2] >= <<k, base[k]>>[2]
        BY <1>4, <1>5, <3>2, NotBroken
      <4>2. Covered(<<k, base[k]>>, Append(rw[r].tmp, <<k, db[k]>>))
        BY <1>2, <1>5, <3>2, <4>1, CoveredByLast, Zenon
      <4> QED BY <2>1, <3>2, <4>2, Zenon DEF WalkedTmp
    <3> QED BY <3>1, <3>2, Zenon
  <2>2. CASE j # k
    <3>1. base[j] = 0 \/ Covered(<<j, base[j]>>, rw[r].tmp)
      BY <1>1, <1>6, <2>2, Zenon DEF CarryInv
    <3>2. CASE db[k] = 0
      BY <3>1, <3>2, Zenon DEF WalkedTmp
    <3>3. CASE db[k] # 0
      BY <1>2, <1>5, <3>1, <3>3, CoveredLonger, Zenon DEF WalkedTmp
    <3> QED BY <3>2, <3>3, Zenon
  <2> QED BY <2>1, <2>2, Zenon
<1>7. rw'[r].pc \in {"lock", "rename"} => rw'[r].todo = {}
  BY <1>3, Zenon
<1> QED BY <1>1, <1>3, <1>6, <1>7, Zenon DEF CarryInv

LEMMA CarryStep == Typed /\ DownInv /\ RewriteInv /\ CarryInv /\ [Next]_vars => CarryInv'
<1> SUFFICES ASSUME Typed, DownInv, RewriteInv, CarryInv, [Next]_vars PROVE CarryInv'
  OBVIOUS
<1>1. rw \in [Rewriters -> Jobs] /\ next \in Nat /\ base \in [Keys -> 0..next] /\ db \in [Keys -> 0..next]
  BY SMTT(30) DEF Typed, JobTyped, StoreTyped
<1>2. CASE UNCHANGED <<rw, base, db>>
  BY <1>2, Zenon DEF CarryInv
<1>3. ASSUME NEW c \in Conns, NEW k \in Keys, Apply(c, k) PROVE CarryInv'
  <2>1. UNCHANGED <<rw, base>> /\ db' = [db EXCEPT ![k] = next + 1]
    BY <1>3, Zenon DEF Apply, history
  <2>2. ASSUME NEW j \in Keys PROVE base[j] <= db'[j]
    <3>1. base[j] <= db[j] /\ base[j] \in 0..next
      BY <1>1, Zenon DEF CarryInv
    <3>2. db'[j] = IF j = k THEN next + 1 ELSE db[j]
      BY <1>1, <2>1, Zenon
    <3> QED BY <1>1, <3>1, <3>2
  <2> QED BY <2>1, <2>2, Zenon DEF CarryInv
<1>4. ASSUME NEW r \in Rewriters, JobStep(r) \/ SpawnJob(r) PROVE CarryInv'
  <2>1. rw[r] \in Jobs /\ db' = db /\ \A s \in Rewriters \ {r} : rw'[s] = rw[s]
    BY <1>1, <1>4, Zenon DEF JobStep, SpawnJob, Claim, WalkKey, LockLive, RenameFile, Reopen, Release, WalkFails,
         LiveFlushFails, RenameFails, ReopenFails
  <2>2. CASE \E k \in Keys : WalkKey(r, k)
    BY <2>2, CarryWalk, Zenon
  <2>3. CASE Claim(r) /\ rewriting
    <3>1. rw'[r].pc = "idle" /\ base' = base
      BY <1>1, <2>3, IdleJobTyped, Zenon DEF Claim
    <3> QED BY <2>1, <3>1, Zenon DEF CarryInv
  <2>4. CASE Claim(r) /\ ~rewriting
    <3>1. rw'[r].pc = "walk" /\ rw'[r].todo = Keys /\ base' = db
      BY <1>1, <2>4, WalkingJob, Zenon DEF Claim
    <3>2. \A s \in Rewriters \ {r} : rw'[s].pc \notin {"walk", "lock", "rename"}
      BY <2>1, <2>4, Zenon DEF RewriteInv, Busy, Claimed
    <3>3. \A k \in Keys : base'[k] <= db'[k]
      <4>1. ASSUME NEW k \in Keys PROVE db[k] \in 0..next /\ base'[k] = db[k] /\ db'[k] = db[k]
        BY <1>1, <2>1, <3>1, Zenon
      <4> QED BY <1>1, <4>1, NumberFacts, Zenon
    <3> QED BY <3>1, <3>2, <3>3, Zenon DEF CarryInv
  <2>5. CASE Release(r)
    <3>1. rw'[r].pc = "idle" /\ base' = [k \in Keys |-> 0]
      BY <1>1, <2>5, IdleJobTyped, Zenon DEF Release
    <3>2. \A k \in Keys : base'[k] = 0 /\ base'[k] <= db'[k]
      <4>1. ASSUME NEW k \in Keys PROVE db'[k] \in 0..next /\ base'[k] = 0
        BY <1>1, <2>1, <3>1, Zenon
      <4> QED BY <1>1, <4>1, NumberFacts, Zenon
    <3> QED BY <2>1, <3>1, <3>2, Zenon DEF CarryInv
  <2>6. CASE SpawnJob(r) \/ RenameFile(r)
    <3>1. rw'[r].pc \in {"claim", "reopen"} /\ base' = base
      BY <1>1, <2>1, <2>6 DEF SpawnJob, RenameFile, history, Jobs
    <3> QED BY <2>1, <3>1, Zenon DEF CarryInv
  <2>7. CASE LockLive(r)
    <3>1. rw[r].pc = "lock" /\ rw'[r].pc = "rename" /\ rw'[r].todo = rw[r].todo /\ rw'[r].tmp = rw[r].tmp /\ base' = base
      BY <1>1, <2>1, <2>7, SMTT(30) DEF LockLive, history, Jobs
    <3> QED BY <2>1, <3>1, Zenon DEF CarryInv
  <2>8. CASE Reopen(r) \/ WalkFails(r) \/ LiveFlushFails(r) \/ RenameFails(r) \/ ReopenFails(r)
    <3>1. rw'[r].pc = "release" /\ base' = base
      BY <1>1, <2>8, ReleasedTyped, Zenon DEF Reopen, WalkFails, LiveFlushFails, RenameFails, ReopenFails, Released, history
    <3> QED BY <2>1, <3>1, Zenon DEF CarryInv
  <2> QED BY <1>4, <2>2, <2>3, <2>4, <2>5, <2>6, <2>7, <2>8 DEF JobStep
<1>5. ASSUME NEW c \in Conns, ConnStep(c) PROVE UNCHANGED <<rw, base, db>>
  BY <1>5 DEF ConnStep, AppendBuffered, AppendLocked, AppendFsync, AppendFails, AddSize, history
<1>6. CASE EverysecTick \/ EverysecLast \/ EverysecSync \/ SyncFails \/ Shutdown \/ FinalSync \/ FinalSyncFails
           \/ OperatorTruncates \/ UNCHANGED vars
  BY <1>2, <1>6, Zenon DEF EverysecTick, EverysecLast, EverysecSync, SyncFails, Shutdown, FinalSync, FinalSyncFails,
                    OperatorTruncates, vars, history
<1>7. CASE Exit \/ PowerLoss
  <2>1. /\ \A r \in Rewriters : rw'[r].pc = "idle"
        /\ \A k \in Keys : base'[k] = 0 /\ db'[k] = 0
    BY <1>7, IdleJobTyped DEF Exit, PowerLoss, Gone
  <2>2. \A k \in Keys : base'[k] <= db'[k]
    BY <2>1
  <2>3. \A r \in Rewriters : rw'[r].pc \notin {"walk", "lock", "rename"} /\ rw'[r].pc \notin {"lock", "rename"}
    BY <2>1, Zenon
  <2> QED BY <2>2, <2>3, Zenon DEF CarryInv
<1>8. CASE Restart
  <2>1. Quiet /\ UNCHANGED <<rw, base>>
    BY <1>8 DEF Restart, history, DownInv, Down
  <2>2. db' \in [Keys -> 0..next]
    BY <1>1, <1>8, ReplayTyped, Zenon DEF Restart
  <2>3. \A k \in Keys : base'[k] <= db'[k]
    <3>1. ASSUME NEW k \in Keys PROVE base'[k] <= db'[k]
      <4>1. base'[k] = 0 /\ db'[k] \in 0..next
        BY <2>1, <2>2, Zenon DEF Quiet
      <4> QED BY <1>1, <4>1, NumberFacts, Zenon
    <3> QED BY <3>1, Zenon
  <2> QED BY <2>1, <2>3, Zenon DEF Quiet, CarryInv
<1> QED BY <1>2, <1>3, <1>4, <1>5, <1>6, <1>7, <1>8 DEF Next, Bgrewriteaof, SupervisorTick

LEMMA CarryAlways == Spec => [](Typed /\ DownInv /\ LockInv /\ OrphanInv /\ RewriteInv /\ CarryInv)
<1>1. Init => CarryInv
  <2> SUFFICES ASSUME Init PROVE CarryInv
    OBVIOUS
  <2>1. /\ \A k \in Keys : base[k] = 0 /\ db[k] = 0
        /\ \A r \in Rewriters : rw[r].pc = "idle"
    BY IdleJobTyped, Zenon DEF Init
  <2>2. 0 <= 0
    OBVIOUS
  <2>3. \A k \in Keys : base[k] <= db[k]
    BY <2>1, <2>2, Zenon
  <2> QED BY <2>1, <2>3, Zenon DEF CarryInv
<1> QED BY <1>1, OrphanAlways, RewriteAlways, CarryStep, PTL DEF Spec

\* A server that runs has a log without a record that was cut short: it refuses to start
\* on one, and only a power loss cuts.
Whole(s) == \A i \in 1..Len(s) : s[i] # Broken
WholeInv == Running => Whole(log)

LEMMA WholeJoined ==
    ASSUME FileTyped, Whole(log)
    PROVE  Whole(log \o buf)
<1> SUFFICES ASSUME NEW i \in 1..Len(log \o buf) PROVE (log \o buf)[i] # Broken
  BY DEF Whole
<1>1. Len(log \o buf) = Len(log) + Len(buf) /\ Len(log) \in Nat /\ Len(buf) \in Nat
  BY Joined
<1>2. buf \in Seq(Records)
  BY SeqMonotonic DEF FileTyped, Records
<1>3. (log \o buf)[i] = IF i <= Len(log) THEN log[i] ELSE buf[i - Len(log)]
  BY <1>1, <1>2, ConcatProperties DEF FileTyped
<1>4. CASE i <= Len(log)
  BY <1>1, <1>3, <1>4 DEF Whole
<1>5. CASE ~(i <= Len(log))
  <2>1. i - Len(log) \in 1..Len(buf)
    BY <1>1, <1>5
  <2>2. buf[i - Len(log)] \in Past
    BY <2>1, ElementOfSeq DEF FileTyped
  <2>3. (log \o buf)[i] = buf[i - Len(log)]
    BY <1>3, <1>5, Zenon
  <2> QED BY <2>2, <2>3, NotBroken, Zenon
<1> QED BY <1>4, <1>5

LEMMA WholeStep == Typed /\ DownInv /\ WholeInv /\ [Next]_vars => WholeInv'
<1> SUFFICES ASSUME Typed, DownInv, WholeInv, [Next]_vars, Running' PROVE Whole(log')
  BY Zenon DEF WholeInv, Whole
<1>1. ASSUME Running, log' \in {log, log \o buf} PROVE Whole(log')
  BY <1>1, WholeJoined, Zenon DEF WholeInv, Typed
<1>2. ASSUME NEW c \in Conns, ConnStep(c) \/ \E k \in Keys : Apply(c, k) PROVE Whole(log')
  <2>1. phase' = phase /\ log' \in {log, log \o buf}
    BY <1>2, Zenon DEF ConnStep, AppendBuffered, AppendLocked, AppendFsync, AppendFails, AddSize, Apply, Flush, FlushAndSync, fileVars
  <2> QED BY <1>1, <2>1 DEF Running
<1>3. ASSUME NEW r \in Rewriters, JobStep(r) \/ SpawnJob(r) PROVE Whole(log')
  <2>1. CASE RenameFile(r)
    <3>1. rw[r].tmp \in Seq(Past) /\ log' = rw[r].tmp
      BY <2>1, JobFacts, SMTT(30) DEF RenameFile, Typed, JobTyped, Jobs
    <3> QED BY <3>1, ElementOfSeq, NotBroken DEF Whole
  <2>2. CASE ~RenameFile(r)
    <3>1. phase' = phase /\ log' \in {log, log \o buf}
      BY <1>3, <2>2, Zenon DEF JobStep, SpawnJob, Claim, WalkKey, LockLive, Reopen, Release, WalkFails, LiveFlushFails,
                        RenameFails, ReopenFails, Flush, fileVars
    <3> QED BY <1>1, <3>1 DEF Running
  <2> QED BY <2>1, <2>2
<1>4. CASE EverysecTick \/ EverysecLast \/ EverysecSync \/ SyncFails \/ Shutdown \/ FinalSync \/ FinalSyncFails
           \/ UNCHANGED vars
  <2>1. log' \in {log, log \o buf}
    BY <1>4, Zenon DEF EverysecTick, EverysecLast, EverysecSync, SyncFails, Shutdown, FinalSync, FinalSyncFails, Flush,
                FlushAndSync, vars, fileVars
  <2>2. Running
    BY <1>4, Zenon DEF EverysecTick, EverysecLast, EverysecSync, SyncFails, Shutdown, FinalSync, FinalSyncFails, vars, Running
  <2> QED BY <1>1, <2>1, <2>2
<1>5. CASE Exit \/ PowerLoss \/ OperatorTruncates
  BY <1>5 DEF Exit, PowerLoss, OperatorTruncates, Running
<1>6. CASE Restart
  BY <1>6, Zenon DEF Restart, Running, Whole
<1> QED BY <1>2, <1>3, <1>4, <1>5, <1>6, Zenon DEF Next, Bgrewriteaof, SupervisorTick

LEMMA WholeAlways == Spec => []WholeInv
<1>1. Init => WholeInv
  BY EmptySeq DEF Init, WholeInv, Whole
<1> QED BY <1>1, LockAlways, WholeStep, PTL DEF Spec

LEMMA LossStep ==
    ASSUME Typed, DownInv, CarryInv, WholeInv, NEW r \in Rewriters, RenameFile(r), NEW w \in lost' \ lost
    PROVE  w # Broken /\ w[2] > base[w[1]]
<1>1. rw[r].pc = "rename" /\ lost' = lost \cup {log[i] : i \in {j \in 1..Len(log) : ~Covered(log[j], rw[r].tmp)}}
  BY DEF RenameFile
<1>2. PICK j \in 1..Len(log) : w = log[j] /\ ~Covered(log[j], rw[r].tmp)
  BY <1>1, Zenon
<1>3. Running
  BY <1>1, Zenon DEF DownInv, Down, Quiet, Running, Typed, RestTyped
<1>4. w # Broken /\ w \in Records
  BY <1>2, <1>3, ElementOfSeq DEF WholeInv, Whole, Typed, FileTyped
<1>5. w \in Past
  BY <1>4 DEF Records
<1>6. w[1] \in Keys /\ w[2] \in 1..next
  BY <1>5, NotBroken
<1>7. next \in Nat /\ base[w[1]] \in 0..next
  BY <1>6, SMTT(30) DEF Typed, StoreTyped
<1>8. base[w[1]] = 0 \/ Covered(<<w[1], base[w[1]]>>, rw[r].tmp)
  BY <1>1, <1>6, Zenon DEF CarryInv
<1>9. CASE base[w[1]] = 0
  BY <1>4, <1>6, <1>7, <1>9
<1>10. CASE Covered(<<w[1], base[w[1]]>>, rw[r].tmp)
  <2>1. PICK i \in 1..Len(rw[r].tmp) : rw[r].tmp[i] # Broken /\ rw[r].tmp[i][1] = w[1] /\ rw[r].tmp[i][2] >= base[w[1]]
    BY <1>10, Zenon DEF Covered
  <2>2. rw[r].tmp \in Seq(Past)
    BY JobFacts DEF Typed, JobTyped, Jobs
  <2>3. rw[r].tmp[i] \in Past
    BY <2>2, ElementOfSeq
  <2>4. rw[r].tmp[i][2] \in 1..next
    BY <2>3, NotBroken, SMTT(30)
  <2>5. ~(rw[r].tmp[i][2] >= w[2])
    BY <1>2, <2>1, Zenon DEF Covered
  <2> QED BY <1>4, <1>6, <1>7, <2>1, <2>4, <2>5, NumberFacts, Zenon
<1> QED BY <1>8, <1>9, <1>10

\* What a rewrite does not carry over was written after it had begun, however the writers,
\* the walk and the swap interleave.
THEOREM LossIsConfined == Spec => LossConfined
<1> DEFINE A == \A w \in lost' \ lost : w # Broken /\ w[2] > base[w[1]]
<1>1. Typed /\ DownInv /\ CarryInv /\ WholeInv /\ [Next]_vars => A
  <2> SUFFICES ASSUME Typed, DownInv, CarryInv, WholeInv, [Next]_vars, lost' # lost PROVE A
    OBVIOUS
  <2>1. PICK r \in Rewriters : RenameFile(r)
    BY Zenon DEF Next, ConnStep, AppendBuffered, AppendLocked, AppendFsync, AppendFails, AddSize, Apply, EverysecTick,
           EverysecLast, EverysecSync, SyncFails, Bgrewriteaof, SupervisorTick, JobStep, SpawnJob, Claim, WalkKey,
           LockLive, Reopen, Release, WalkFails, LiveFlushFails, RenameFails, ReopenFails, Shutdown, FinalSync,
           FinalSyncFails, Exit, PowerLoss, Restart, OperatorTruncates, vars, history
  <2> QED BY <2>1, LossStep
<1>2. Typed /\ DownInv /\ CarryInv /\ WholeInv /\ [Next]_vars => [A]_vars
  BY <1>1
<1> QED BY <1>2, CarryAlways, WholeAlways, PTL DEF Spec, LossConfined

----------------------------------------------------------------------------
(* The size counter. *)

\* The appends that are in the file or the buffer and not yet counted.
Late == {c \in Conns : conn[c].pc \in {"fsync", "size"}}
Sound == ~incident /\ \A r \in Rewriters : rw[r].pc # "reopen"
SizeInv == Running /\ Sound => size + Cardinality(Late) >= Len(log) + Len(buf)

LEMMA LateCount ==
    /\ IsFiniteSet(Late) /\ Cardinality(Late) \in Nat
    /\ \A c \in Conns \ Late : Cardinality(Late \cup {c}) = Cardinality(Late) + 1
    /\ \A c \in Late : Cardinality(Late \ {c}) = Cardinality(Late) - 1
<1>1. IsFiniteSet(Late)
  BY ThreadsAssumption, FS_Subset, Zenon DEF Late
<1>2. Cardinality(Late) \in Nat
  BY <1>1, FS_CardinalityType
<1>3. \A c \in Conns \ Late : Cardinality(Late \cup {c}) = Cardinality(Late) + 1
  BY <1>1, FS_AddElement
<1>4. \A c \in Late : Cardinality(Late \ {c}) = Cardinality(Late) - 1
  BY <1>1, FS_RemoveElement
<1> QED BY <1>1, <1>2, <1>3, <1>4

LEMMA LateAfter ==
    ASSUME Typed, NEW c \in Conns, NEW q, conn' = [conn EXCEPT ![c] = q]
    PROVE  Late' = IF q.pc \in {"fsync", "size"} THEN Late \cup {c} ELSE Late \ {c}
<1>1. conn'[c] = q /\ \A d \in Conns \ {c} : conn'[d] = conn[d]
  BY DEF Typed, ConnTyped
<1> QED BY <1>1 DEF Late

\* A flush of a file that has its name moves records and makes none.
LEMMA FlushKeeps ==
    ASSUME Typed, OrphanInv, Sound, Flush
    PROVE  Len(log') + Len(buf') = Len(log) + Len(buf)
<1>1. ~orphan
  BY DEF OrphanInv, Sound
<1>2. log' = log \o buf /\ buf' = <<>>
  BY <1>1 DEF Flush
<1>3. Len(log \o buf) = Len(log) + Len(buf) /\ Len(log) \in Nat /\ Len(buf) \in Nat /\ Len(<<>>) = 0
  BY Joined DEF Typed
<1> QED BY <1>2, <1>3

LEMMA SizeConn ==
    ASSUME Typed, OrphanInv, SizeInv, NEW c \in Conns, ConnStep(c) \/ \E k \in Keys : Apply(c, k)
    PROVE  SizeInv'
<1> SUFFICES ASSUME Running', Sound' PROVE size' + Cardinality(Late') >= Len(log') + Len(buf')
  BY DEF SizeInv
<1>1. phase' = phase /\ rw' = rw /\ ~AppendFails(c) /\ incident' = incident
  <2>1. phase' = phase /\ rw' = rw /\ ~AppendFails(c)
    BY Zenon DEF ConnStep, AppendBuffered, AppendLocked, AppendFsync, AppendFails, AddSize, Apply, Sound
  <2> QED BY <2>1, Zenon DEF ConnStep, AppendBuffered, AppendLocked, AppendFsync, AddSize, Apply, history
<1>2. Sound /\ size + Cardinality(Late) >= Len(log) + Len(buf)
  BY <1>1, Zenon DEF SizeInv, Sound, Running
<1>3. /\ Len(log) \in Nat /\ Len(buf) \in Nat /\ size \in Nat /\ Cardinality(Late) \in Nat
      /\ conn \in [Conns -> Connections] /\ conn[c] \in Connections /\ ~orphan
  BY <1>2, Joined, LateCount, Zenon DEF Typed, RestTyped, ConnTyped, OrphanInv, Sound
<1>4. ASSUME NEW k \in Keys, Apply(c, k) PROVE size' + Cardinality(Late') >= Len(log') + Len(buf')
  <2> DEFINE q == [pc |-> "append", w |-> <<k, next + 1>>]
  <2>1. conn' = [conn EXCEPT ![c] = q] /\ q.pc = "append" /\ c \notin Late
    BY <1>4, Zenon DEF Apply, Late
  <2> HIDE DEF q
  <2>2. Late' = Late
    BY <2>1, LateAfter, Zenon
  <2> QED BY <1>2, <1>4, <2>2, Zenon DEF Apply, fileVars, statVars
<1>5. ASSUME NEW p \in ConnPcs, conn' = [conn EXCEPT ![c].pc = p]
      PROVE  Late' = IF p \in {"fsync", "size"} THEN Late \cup {c} ELSE Late \ {c}
  <2> DEFINE q == [conn[c] EXCEPT !.pc = p]
  <2>1. conn' = [conn EXCEPT ![c] = q] /\ q.pc = p
    BY <1>3, <1>5 DEF Connections
  <2> HIDE DEF q
  <2> QED BY <2>1, LateAfter, Zenon
<1>6. ASSUME conn[c].pc = "append", conn' = [conn EXCEPT ![c].pc = "size"] \/ conn' = [conn EXCEPT ![c].pc = "fsync"]
      PROVE  Cardinality(Late') = Cardinality(Late) + 1
  <2>1. c \in Conns \ Late
    BY <1>6 DEF Late
  <2>2. Late' = Late \cup {c}
    BY <1>5, <1>6 DEF ConnPcs
  <2> QED BY <2>1, <2>2, LateCount, Zenon
<1>7. ASSUME conn[c].pc # "idle" PROVE Len(Append(buf, conn[c].w)) = Len(buf) + 1 /\ Len(<<conn[c].w>>) = 1
  <2>1. conn[c].w \in Past /\ buf \in Seq(Past)
    BY <1>7 DEF Typed, ConnTyped, FileTyped
  <2> QED BY <2>1, AppendProperties, Zenon
<1>8. CASE AppendBuffered(c)
  <2>1. conn[c].pc = "append" /\ conn' = [conn EXCEPT ![c].pc = "size"] /\ size' = size
    BY <1>8 DEF AppendBuffered
  <2>2. Len(log') + Len(buf') = Len(log) + Len(buf) + 1
    <3>1. CASE log' = log /\ buf' = Append(buf, conn[c].w)
      BY <1>3, <1>7, <2>1, <3>1
    <3>2. CASE log' = log \o buf /\ buf' = <<conn[c].w>>
      <4>1. Len(log \o buf) = Len(log) + Len(buf)
        BY Joined DEF Typed
      <4> QED BY <1>3, <1>7, <2>1, <3>2, <4>1, SMTT(30)
    <3> QED BY <1>3, <1>8, <3>1, <3>2, SMTT(30) DEF AppendBuffered
  <2>3. Cardinality(Late') = Cardinality(Late) + 1
    BY <1>6, <2>1
  <2> QED BY <1>2, <1>3, <2>1, <2>2, <2>3
<1>9. CASE AppendLocked(c)
  <2>1. conn[c].pc = "append" /\ conn' = [conn EXCEPT ![c].pc = "fsync"] /\ size' = size /\ log' = log
        /\ buf' = Append(buf, conn[c].w)
    BY <1>9 DEF AppendLocked, statVars
  <2>2. Cardinality(Late') = Cardinality(Late) + 1
    BY <1>6, <2>1
  <2>3. Len(buf') = Len(buf) + 1
    BY <1>7, <2>1
  <2> QED BY <1>2, <1>3, <2>1, <2>2, <2>3
<1>10. CASE AppendFsync(c)
  <2>1. c \in Late /\ conn' = [conn EXCEPT ![c].pc = "size"] /\ size' = size /\ Flush
    BY <1>10 DEF AppendFsync, FlushAndSync, statVars, Late
  <2>2. Late' = Late
    BY <1>5, <2>1 DEF ConnPcs
  <2>3. Len(log') + Len(buf') = Len(log) + Len(buf)
    BY <1>2, <2>1, FlushKeeps
  <2> QED BY <1>2, <2>1, <2>2, <2>3
<1>11. CASE AddSize(c)
  <2>1. c \in Late /\ conn' = [conn EXCEPT ![c] = IdleConn] /\ size' = size + 1 /\ log' = log /\ buf' = buf
    BY <1>11, Zenon DEF AddSize, fileVars, Late
  <2>2. IdleConn.pc = "idle"
    BY DEF IdleConn
  <2>3. Late' = Late \ {c}
    BY <2>1, <2>2, LateAfter, Zenon
  <2>4. Cardinality(Late') = Cardinality(Late) - 1
    BY <2>1, <2>3, LateCount, Zenon
  <2>5. size' = size + 1 /\ Len(log') = Len(log) /\ Len(buf') = Len(buf)
    BY <2>1, Zenon
  <2>6. Len(log) \in Nat /\ Len(buf) \in Nat /\ size \in Nat /\ Cardinality(Late) \in Nat
    BY <1>3, Zenon
  <2> QED BY <1>2, <2>4, <2>5, <2>6
<1> QED BY <1>1, <1>4, <1>8, <1>9, <1>10, <1>11, Zenon DEF ConnStep

LEMMA SizeJob ==
    ASSUME Typed, LockInv, OrphanInv, SizeInv, NEW r \in Rewriters, JobStep(r) \/ SpawnJob(r)
    PROVE  SizeInv'
<1> SUFFICES ASSUME Running', Sound' PROVE size' + Cardinality(Late') >= Len(log') + Len(buf')
  BY DEF SizeInv
<1>1. rw \in [Rewriters -> Jobs] /\ rw[r] \in Jobs /\ \A s \in Rewriters \ {r} : rw'[s] = rw[s]
  BY JobMoves, Zenon DEF Typed, JobTyped
<1>2. phase' = phase /\ conn' = conn /\ ~ReopenFails(r) /\ ~RenameFile(r)
  <2>1. phase' = phase /\ conn' = conn
    BY Zenon DEF JobStep, SpawnJob, Claim, WalkKey, LockLive, RenameFile, Reopen, Release, WalkFails, LiveFlushFails,
           RenameFails, ReopenFails
  <2>2. ~ReopenFails(r)
    BY DEF ReopenFails, Sound
  <2>3. ~RenameFile(r)
    BY <1>1 DEF RenameFile, Sound, Jobs
  <2> QED BY <2>1, <2>2, <2>3
<1>3. Late' = Late /\ Cardinality(Late) \in Nat /\ Len(log) \in Nat /\ size \in Nat
  BY <1>2, LateCount, Joined, Zenon DEF Late, Typed, RestTyped
<1>4. CASE Reopen(r)
  <2>1. log' = rw[r].tmp /\ size' = Len(log') /\ buf' = <<>> /\ log' = log
    BY <1>4 DEF Reopen, LockInv
  <2>2. Len(<<>>) = 0
    OBVIOUS
  <2> QED BY <1>3, <2>1, <2>2
<1>5. CASE ~Reopen(r)
  <2>1. rw[r].pc # "reopen" /\ incident' = incident /\ size' = size
    BY <1>2, <1>5, Zenon DEF JobStep, SpawnJob, Claim, WalkKey, LockLive, Release, WalkFails, LiveFlushFails, RenameFails,
                      statVars, history
  <2>2. Sound /\ size + Cardinality(Late) >= Len(log) + Len(buf)
    BY <1>1, <1>2, <2>1, Zenon DEF SizeInv, Sound, Running
  <2>3. CASE LockLive(r)
    BY <1>3, <2>1, <2>2, <2>3, FlushKeeps DEF LockLive
  <2>4. CASE ~LockLive(r)
    <3>1. log' = log /\ buf' = buf
      BY <1>2, <1>5, <2>4, Zenon DEF JobStep, SpawnJob, Claim, WalkKey, Release, WalkFails, LiveFlushFails, RenameFails, fileVars
    <3> QED BY <1>3, <2>1, <2>2, <3>1, Zenon
  <2> QED BY <2>3, <2>4
<1> QED BY <1>4, <1>5

LEMMA SizeStep == Typed /\ DownInv /\ LockInv /\ OrphanInv /\ SizeInv /\ [Next]_vars => SizeInv'
<1> SUFFICES ASSUME Typed, DownInv, LockInv, OrphanInv, SizeInv, [Next]_vars PROVE SizeInv'
  OBVIOUS
<1>1. ASSUME NEW c \in Conns, ConnStep(c) \/ \E k \in Keys : Apply(c, k) PROVE SizeInv'
  BY <1>1, SizeConn
<1>2. ASSUME NEW r \in Rewriters, JobStep(r) \/ SpawnJob(r) PROVE SizeInv'
  BY <1>2, SizeJob
<1>3. CASE EverysecTick \/ EverysecLast \/ Shutdown \/ UNCHANGED vars
  <2>1. UNCHANGED <<conn, rw, size, log, buf, incident>> /\ (Running' => Running)
    BY <1>3, Zenon DEF EverysecTick, EverysecLast, Shutdown, vars, fileVars, statVars, history, Running
  <2> QED BY <2>1, Zenon DEF SizeInv, Sound, Late
<1>4. CASE EverysecSync \/ SyncFails \/ FinalSync
  <2>1. UNCHANGED <<conn, rw, size, incident>> /\ (Running' => Running) /\ (Flush \/ UNCHANGED <<buf, log>>)
    BY <1>4, Zenon DEF EverysecSync, SyncFails, FinalSync, FlushAndSync, statVars, history, Running
  <2>2. Late' = Late /\ (Sound' <=> Sound)
    BY <2>1, Zenon DEF Late, Sound
  <2> QED BY <2>1, <2>2, FlushKeeps DEF SizeInv
<1>5. CASE FinalSyncFails
  BY <1>5, Zenon DEF FinalSyncFails, SizeInv, Sound
<1>6. CASE Exit \/ PowerLoss \/ OperatorTruncates
  BY <1>6 DEF Exit, PowerLoss, OperatorTruncates, Running, SizeInv
<1>7. CASE Restart
  <2>1. Quiet
    BY <1>7 DEF Restart, DownInv, Down
  <2>2. Late' = Late /\ Cardinality(Late) \in Nat /\ Len(log) \in Nat /\ Len(<<>>) = 0
    BY <1>7, LateCount, Joined, Zenon DEF Restart, Late, Typed
  <2>3. Running' => size' = Len(log') /\ buf' = <<>> /\ log' = log
    BY <1>7, <2>1, Zenon DEF Restart, Running, Quiet
  <2> QED BY <2>2, <2>3 DEF SizeInv
<1> QED BY <1>1, <1>2, <1>3, <1>4, <1>5, <1>6, <1>7, Zenon DEF Next, Bgrewriteaof, SupervisorTick

\* size_bytes and the appends that have not counted themselves yet are never less than
\* the file, also after a rewrite has set the counter.
THEOREM SizeCoversFile == Spec => []SizeCovers
<1>1. Init => SizeInv
  <2> SUFFICES ASSUME Init PROVE size + Cardinality(Late) >= Len(log) + Len(buf)
    BY DEF SizeInv
  <2>1. size = 0 /\ log = <<>> /\ buf = <<>>
    BY Zenon DEF Init
  <2>2. Len(<<>>) = 0
    OBVIOUS
  <2>3. Len(log) = 0 /\ Len(buf) = 0 /\ Cardinality(Late) \in Nat
    BY <2>1, <2>2, LateCount, Zenon
  <2> QED BY <2>1, <2>3
<1>2. LockInv /\ SizeInv => SizeCovers
  <2> SUFFICES ASSUME LockInv, SizeInv, Running, ~incident, lock \notin Rewriters
               PROVE  size + Cardinality(Late) >= Len(log) + Len(buf)
    BY DEF SizeCovers, Late
  <2>1. Sound
    BY DEF Sound, LockInv
  <2> QED BY <2>1 DEF SizeInv
<1> QED BY <1>1, <1>2, OrphanAlways, SizeStep, PTL DEF Spec

----------------------------------------------------------------------------
(* What was answered is on the disk, and a restart restores it. *)

\* Each key has one writing connection.
OneWriter == \A c, d \in Conns, k \in Keys : <<c, k>> \in Owns /\ <<d, k>> \in Owns => c = d

\* The records of a file, and a file in which the versions of a key never go back.
Recs(s) == {s[i] : i \in 1..Len(s)}
Ordered(s) ==
    \A i, j \in 1..Len(s) :
        i <= j /\ s[i] # Broken /\ s[j] # Broken /\ s[i][1] = s[j][1] => s[i][2] <= s[j][2]

\* A rewrite between its claim and its swap.
Mid == {"walk", "lock", "rename"}

\* Nothing in the files is newer than the store.  The write of a connection that is not
\* done with it is the newest of its key.
FilesOld == \A x \in Recs(log \o buf) : x # Broken => x[2] <= db[x[1]]
PendingNewest ==
    \A c \in Conns : conn[c].pc # "idle" => conn[c].w[2] = db[conn[c].w[1]] /\ <<c, conn[c].w[1]>> \in Owns
TmpOld ==
    \A r \in Rewriters : rw[r].pc \in Mid => Ordered(rw[r].tmp) /\ \A x \in Recs(rw[r].tmp) : x[2] <= db[x[1]]
OldInv == Running => FilesOld /\ PendingNewest /\ TmpOld

\* The log grows in the order of the writes of a key; only its last record is ever cut short.
OrderInv == Ordered(log \o buf)
TailInv == \A i \in 1..Len(log) : log[i] = Broken => i = Len(log)

\* What is about to be synced is in the buffer; nothing is after the final sync.
PendInv == \A c \in Conns : conn[c].pc = "fsync" => conn[c].w \in Recs(buf)
LastInv == phase = "exiting" => (\A c \in Conns : conn[c].pc = "idle") /\ (incident \/ buf = <<>>)

\* The part of the file that counts under the policy has the write itself, or a later one
\* of its key that the running rewrite, if there is one, began with.
Based(x) == \A r \in Rewriters : rw[r].pc \in Mid => x[2] <= base[x[1]]
Held(w, s) == \E x \in Recs(s) : x # Broken /\ x[1] = w[1] /\ x[2] >= w[2] /\ (x = w \/ Based(x))
Stored == IF Policy = "always" THEN SubSeq(log, 1, synced) ELSE log \o buf
Answered == acked \cup {conn[c].w : c \in {d \in Conns : conn[d].pc = "size"}}
HeldInv == ~incident => \A w \in Answered : w \in lost \/ Held(w, Stored)

----------------------------------------------------------------------------
(* Records of sequences. *)

LEMMA RecsJoined ==
    ASSUME NEW S, NEW s \in Seq(S), NEW t \in Seq(S)
    PROVE  Recs(s \o t) = Recs(s) \cup Recs(t)
<1>1. /\ Len(s) \in Nat /\ Len(t) \in Nat /\ Len(s \o t) = Len(s) + Len(t)
      /\ \A i \in 1..(Len(s) + Len(t)) : (s \o t)[i] = IF i <= Len(s) THEN s[i] ELSE t[i - Len(s)]
  BY ConcatProperties, LenProperties
<1>2. ASSUME NEW x \in Recs(s \o t) PROVE x \in Recs(s) \cup Recs(t)
  <2>1. PICK i \in 1..(Len(s) + Len(t)) : x = (s \o t)[i]
    BY <1>1, <1>2 DEF Recs
  <2>2. CASE i <= Len(s)
    BY <1>1, <2>1, <2>2 DEF Recs
  <2>3. CASE ~(i <= Len(s))
    <3>1. i - Len(s) \in 1..Len(t) /\ x = t[i - Len(s)]
      BY <1>1, <2>1, <2>3
    <3> QED BY <3>1, Zenon DEF Recs
  <2> QED BY <2>2, <2>3
<1>3. ASSUME NEW i \in 1..Len(s) PROVE s[i] \in Recs(s \o t)
  <2>1. i \in 1..Len(s \o t) /\ (s \o t)[i] = s[i]
    BY <1>1
  <2> QED BY <2>1, Zenon DEF Recs
<1>4. ASSUME NEW i \in 1..Len(t) PROVE t[i] \in Recs(s \o t)
  <2>1. Len(s) + i \in 1..Len(s \o t) /\ ~(Len(s) + i <= Len(s)) /\ (Len(s) + i) - Len(s) = i
    BY <1>1
  <2>2. (s \o t)[Len(s) + i] = t[i]
    BY <1>1, <2>1
  <2> QED BY <2>1, <2>2, Zenon DEF Recs
<1> QED BY <1>2, <1>3, <1>4, Zenon DEF Recs

LEMMA RecsAppend ==
    ASSUME NEW S, NEW s \in Seq(S), NEW e \in S
    PROVE  Recs(Append(s, e)) = Recs(s) \cup {e}
<1>1. /\ Len(s) \in Nat /\ Len(Append(s, e)) = Len(s) + 1
      /\ \A i \in 1..Len(s) : Append(s, e)[i] = s[i]
      /\ Append(s, e)[Len(s) + 1] = e
  BY AppendProperties, LenProperties
<1>2. 1..(Len(s) + 1) = (1..Len(s)) \cup {Len(s) + 1}
  BY <1>1
<1> QED BY <1>1, <1>2, Zenon DEF Recs

LEMMA RecsEmpty == Recs(<<>>) = {}
<1>1. Len(<<>>) = 0 /\ 1..0 = {}
  OBVIOUS
<1> QED BY <1>1, Zenon DEF Recs

LEMMA RecsTyped ==
    ASSUME NEW S, NEW s \in Seq(S)
    PROVE  Recs(s) \subseteq S
  BY ElementOfSeq DEF Recs

\* Versions that never go back, in a longer file and in a prefix.
LEMMA OrderedAppend ==
    ASSUME NEW S, NEW s \in Seq(S), NEW e \in S, Ordered(s), e # Broken => e[2] <= e[2],
           \A x \in Recs(s) : x # Broken /\ e # Broken /\ x[1] = e[1] => x[2] <= e[2]
    PROVE  Ordered(Append(s, e))
<1> DEFINE t == Append(s, e)
<1>1. /\ Len(s) \in Nat /\ Len(t) = Len(s) + 1
      /\ \A i \in 1..Len(s) : t[i] = s[i]
      /\ t[Len(s) + 1] = e
  BY AppendProperties, LenProperties
<1> HIDE DEF t
<1> SUFFICES ASSUME NEW i \in 1..Len(t), NEW j \in 1..Len(t), i <= j, t[i] # Broken, t[j] # Broken, t[i][1] = t[j][1]
             PROVE  t[i][2] <= t[j][2]
  BY DEF Ordered, t
<1>2. CASE j \in 1..Len(s)
  <2>1. i \in 1..Len(s)
    BY <1>1, <1>2, SMTT(30)
  <2> QED BY <1>1, <1>2, <2>1, Zenon DEF Ordered
<1>3. CASE j \notin 1..Len(s)
  <2>1. j = Len(s) + 1 /\ (i \in 1..Len(s) \/ i = Len(s) + 1)
    BY <1>1, <1>3
  <2>2. CASE i \in 1..Len(s)
    BY <1>1, <2>1, <2>2, Zenon DEF Recs
  <2>3. CASE i = Len(s) + 1
    BY <1>1, <2>1, <2>3, Zenon
  <2> QED BY <2>1, <2>2, <2>3
<1> QED BY <1>2, <1>3

LEMMA OrderedShorter ==
    ASSUME NEW s, NEW t, Len(s) \in Nat, Len(t) \in Nat, Len(t) <= Len(s), \A i \in 1..Len(t) : t[i] = s[i], Ordered(s)
    PROVE  Ordered(t)
<1>1. \A i \in 1..Len(t) : i \in 1..Len(s)
  OBVIOUS
<1> QED BY <1>1, Zenon DEF Ordered

----------------------------------------------------------------------------
(* What a step does to the file and the buffer in front of it. *)

LEMMA FileFacts ==
    ASSUME FileTyped
    PROVE  /\ log \in Seq(Records) /\ buf \in Seq(Records) /\ log \o buf \in Seq(Records)
           /\ Recs(log \o buf) = Recs(log) \cup Recs(buf)
           /\ Ordered(log \o buf) => Ordered(log)
<1>1. log \in Seq(Records) /\ buf \in Seq(Records)
  BY SeqMonotonic DEF FileTyped, Records
<1>2. /\ log \o buf \in Seq(Records) /\ Len(log \o buf) = Len(log) + Len(buf) /\ Len(log) \in Nat /\ Len(buf) \in Nat
      /\ \A i \in 1..(Len(log) + Len(buf)) : (log \o buf)[i] = IF i <= Len(log) THEN log[i] ELSE buf[i - Len(log)]
  BY <1>1, ConcatProperties, LenProperties
<1>3. \A i \in 1..Len(log) : log[i] = (log \o buf)[i]
  BY <1>2
<1>4. Len(log \o buf) \in Nat /\ Len(log) <= Len(log \o buf)
  BY <1>2
<1>5. Ordered(log \o buf) => Ordered(log)
  BY <1>2, <1>3, <1>4, OrderedShorter, Zenon
<1>6. Recs(log \o buf) = Recs(log) \cup Recs(buf)
  BY <1>1, RecsJoined
<1> QED BY <1>1, <1>2, <1>5, <1>6, Zenon

LEMMA FlushFile ==
    ASSUME FileTyped, Flush
    PROVE  log' \o buf' = IF orphan THEN log ELSE log \o buf
<1>1. log \o <<>> = log /\ (log \o buf) \o <<>> = log \o buf
  BY FileFacts, ConcatEmptySeq, Zenon
<1> QED BY <1>1, Zenon DEF Flush

LEMMA AppendFile ==
    ASSUME FileTyped, NEW w \in Past
    PROVE  log \o Append(buf, w) = Append(log \o buf, w) /\ log \o <<w>> = Append(log, w)
           /\ (log \o buf) \o <<w>> = Append(log \o buf, w)
<1>1. log \in Seq(Records) /\ buf \in Seq(Records) /\ <<w>> \in Seq(Records) /\ w \in Records /\ log \o buf \in Seq(Records)
  <2>1. w \in Records
    BY DEF Records
  <2>2. <<w>> \in Seq(Records)
    BY <2>1
  <2> QED BY <2>1, <2>2, FileFacts, Zenon
<1>2. \A s \in Seq(Records) : s \o <<w>> = Append(s, w)
  BY <1>1, AppendIsConcat, Zenon
<1>3. (log \o buf) \o <<w>> = log \o (buf \o <<w>>)
  BY <1>1, ConcatAssociative, SMTT(30)
<1> QED BY <1>1, <1>2, <1>3, Zenon

LEMMA FileMoves ==
    ASSUME Typed, LockInv, [Next]_vars
    PROVE  \/ log' \o buf' \in {log \o buf, log}
           \/ \E c \in Conns : /\ conn[c].pc = "append"
                               /\ log' \o buf' \in {Append(log \o buf, conn[c].w), Append(log, conn[c].w)}
           \/ \E r \in Rewriters : RenameFile(r) /\ log' \o buf' = rw[r].tmp
           \/ PowerLoss \/ OperatorTruncates
<1>1. FileTyped
  BY DEF Typed
<1>2. ASSUME Flush PROVE log' \o buf' \in {log \o buf, log}
  BY <1>1, <1>2, FlushFile, Zenon
<1>3. ASSUME UNCHANGED <<log, buf>> PROVE log' \o buf' \in {log \o buf, log}
  BY <1>3, Zenon
<1>4. ASSUME NEW c \in Conns, AppendBuffered(c) \/ AppendLocked(c)
      PROVE  conn[c].pc = "append" /\ log' \o buf' \in {Append(log \o buf, conn[c].w), Append(log, conn[c].w)}
  <2>1. conn[c].pc = "append"
    BY <1>4, Zenon DEF AppendBuffered, AppendLocked
  <2>2. conn[c].w \in Past
    BY <2>1, Zenon DEF Typed, ConnTyped
  <2>3. \/ log' = log /\ buf' = Append(buf, conn[c].w)
        \/ log' \in {log, log \o buf} /\ buf' = <<conn[c].w>>
    BY <1>4, Zenon DEF AppendBuffered, AppendLocked
  <2> QED BY <1>1, <2>1, <2>2, <2>3, AppendFile, Zenon
<1>5. ASSUME NEW c \in Conns, AppendFsync(c) \/ AppendFails(c) \/ AddSize(c) \/ \E k \in Keys : Apply(c, k)
      PROVE  Flush \/ UNCHANGED <<log, buf>>
  BY <1>5, Zenon DEF AppendFsync, AppendFails, AddSize, Apply, FlushAndSync, fileVars
<1>6. ASSUME NEW r \in Rewriters, RenameFile(r) PROVE log' \o buf' = rw[r].tmp
  <2>1. buf = <<>> /\ log' = rw[r].tmp /\ buf' = buf
    BY <1>6, Zenon DEF RenameFile, LockInv
  <2>2. rw[r].tmp \in Seq(Past)
    BY JobFacts DEF Typed, JobTyped, Jobs
  <2> QED BY <2>1, <2>2, ConcatEmptySeq, Zenon
<1>7. ASSUME NEW r \in Rewriters, JobStep(r) \/ SpawnJob(r), ~RenameFile(r) PROVE Flush \/ UNCHANGED <<log, buf>>
  BY <1>7, Zenon DEF JobStep, SpawnJob, Claim, WalkKey, LockLive, Reopen, Release, WalkFails, LiveFlushFails, RenameFails,
                     ReopenFails, fileVars
<1>8. ASSUME EverysecTick \/ EverysecLast \/ EverysecSync \/ SyncFails \/ Shutdown \/ FinalSync \/ FinalSyncFails
             \/ Restart \/ UNCHANGED vars
      PROVE  Flush \/ UNCHANGED <<log, buf>>
  BY <1>8, Zenon DEF EverysecTick, EverysecLast, EverysecSync, SyncFails, Shutdown, FinalSync, FinalSyncFails, Restart,
                     FlushAndSync, vars, fileVars
<1>9. CASE Exit
  <2>1. log' = log /\ buf' = <<>>
    BY <1>9, Zenon DEF Exit, Gone
  <2> QED BY <1>1, <2>1, Joined, Zenon
<1> QED BY <1>2, <1>3, <1>4, <1>5, <1>6, <1>7, <1>8, <1>9, Zenon DEF Next, ConnStep, Bgrewriteaof, SupervisorTick

\* Only a process that runs has connections and jobs at work.
LEMMA Alive ==
    ASSUME Typed, DownInv
    PROVE  /\ \A c \in Conns : conn[c].pc # "idle" => Running
           /\ \A r \in Rewriters : rw[r].pc # "idle" => Running
           /\ ~Running => Quiet
<1>1. ~Running => Quiet
  BY Zenon DEF Running, Typed, RestTyped, DownInv, Down
<1> QED BY <1>1, Zenon DEF Quiet

\* What a power loss leaves, and what the operator leaves of it.
LEMMA LossFile ==
    ASSUME Typed, PowerLoss
    PROVE  \E n \in synced..Len(log) :
             /\ n \in 0..Len(log) /\ log' \in {SubSeq(log, 1, n), Append(SubSeq(log, 1, n), Broken)}
             /\ log' \o buf' = log' /\ synced' = Len(log')
<1>1. PICK n \in synced..Len(log), cut \in BOOLEAN : log' = SubSeq(log, 1, n) \o (IF cut THEN <<Broken>> ELSE <<>>)
  BY Zenon DEF PowerLoss
<1>2. FileTyped /\ Len(log) \in Nat /\ synced \in 0..Len(log)
  BY Joined DEF Typed, FileTyped
<1>3. n \in 0..Len(log)
  BY <1>2
<1>4. SubSeq(log, 1, n) \in Seq(Records)
  BY <1>2, <1>3, Prefix, Zenon
<1>5. Broken \in Records
  BY DEF Records
<1>6. /\ SubSeq(log, 1, n) \o <<>> = SubSeq(log, 1, n)
      /\ Append(SubSeq(log, 1, n), Broken) = SubSeq(log, 1, n) \o <<Broken>>
      /\ Append(SubSeq(log, 1, n), Broken) \in Seq(Records)
  BY <1>4, <1>5, ConcatEmptySeq, AppendIsConcat, AppendProperties
<1>7. log' \in {SubSeq(log, 1, n), Append(SubSeq(log, 1, n), Broken)}
  BY <1>1, <1>6, Zenon
<1>8. log' \in Seq(Records)
  BY <1>4, <1>6, <1>7, Zenon
<1>9. log' \o <<>> = log' /\ buf' = <<>> /\ synced' = Len(log')
  BY <1>8, ConcatEmptySeq DEF PowerLoss, Gone
<1> QED BY <1>3, <1>7, <1>9, Zenon

LEMMA CutFile ==
    ASSUME Typed, DownInv, TailInv, OperatorTruncates
    PROVE  \E n \in 0..Len(log) :
             /\ log' = SubSeq(log, 1, n) /\ log' \o buf' = log' /\ synced' = Len(log')
             /\ \A i \in 1..n : log[i] # Broken
             /\ \A i \in 1..Len(log) : log[i] # Broken => i \in 1..n
<1>1. PICK m \in 1..Len(log) : log[m] = Broken /\ (\A i \in 1..(m - 1) : log[i] # Broken) /\ log' = SubSeq(log, 1, m - 1)
  BY Zenon DEF OperatorTruncates
<1>2. FileTyped /\ Len(log) \in Nat
  BY Joined DEF Typed
<1>3. m = Len(log)
  BY <1>1, Zenon DEF TailInv
<1>4. m - 1 \in 0..Len(log) /\ \A i \in 1..Len(log) : i \in 1..(m - 1) \/ i = m
  BY <1>2, <1>3
<1>5. \A i \in 1..Len(log) : log[i] # Broken => i \in 1..(m - 1)
  BY <1>1, <1>4, Zenon
<1>6. log' \in Seq(Records) /\ buf' = <<>> /\ synced' = Len(log')
  <2>1. log' \in Seq(Records)
    BY <1>1, <1>2, <1>4, Prefix
  <2>2. Quiet /\ buf' = buf /\ synced' = Len(log')
    BY Zenon DEF OperatorTruncates, DownInv, Down
  <2> QED BY <2>1, <2>2, Zenon DEF Quiet
<1>7. log' \o buf' = log'
  BY <1>6, ConcatEmptySeq
<1> QED BY <1>1, <1>4, <1>5, <1>6, <1>7, Zenon

----------------------------------------------------------------------------
(* The versions of a key never go back in the log. *)

LEMMA OrderStep ==
    ASSUME Typed, DownInv, LockInv, TailInv, OldInv, OrderInv, [Next]_vars
    PROVE  OrderInv'
<1>1. FileTyped /\ log \in Seq(Records) /\ log \o buf \in Seq(Records) /\ Recs(log) \subseteq Recs(log \o buf)
  BY FileFacts DEF Typed
<1>2. Ordered(log) /\ Ordered(log \o buf)
  BY <1>1, FileFacts, Zenon DEF OrderInv
<1>3. ASSUME NEW n \in 0..Len(log) PROVE SubSeq(log, 1, n) \in Seq(Records) /\ Ordered(SubSeq(log, 1, n))
  <2>1. /\ SubSeq(log, 1, n) \in Seq(Records) /\ Len(SubSeq(log, 1, n)) = n
        /\ \A i \in 1..n : SubSeq(log, 1, n)[i] = log[i]
    BY <1>1, Prefix
  <2>2. Len(log) \in Nat /\ n \in Nat /\ n <= Len(log)
    BY <1>1, Joined, SMTT(30)
  <2> QED BY <1>2, <2>1, <2>2, OrderedShorter, Zenon
<1>4. ASSUME NEW c \in Conns, conn[c].pc = "append", NEW s \in Seq(Records), Ordered(s), Recs(s) \subseteq Recs(log \o buf)
      PROVE  Ordered(Append(s, conn[c].w))
  <2>1. Running
    BY <1>4, Alive, SMTT(30)
  <2>2. conn[c].w \in Past
    BY <1>4, Zenon DEF Typed, ConnTyped
  <2>3. conn[c].w \in Records /\ conn[c].w[2] <= conn[c].w[2]
    BY <2>2, NotBroken DEF Records, Typed, StoreTyped
  <2>4. conn[c].w[2] = db[conn[c].w[1]]
    BY <1>4, <2>1, Zenon DEF OldInv, FilesOld, PendingNewest
  <2>5. \A x \in Recs(s) : x # Broken /\ conn[c].w # Broken /\ x[1] = conn[c].w[1] => x[2] <= conn[c].w[2]
    BY <1>4, <2>1, <2>4, Zenon DEF OldInv, FilesOld, PendingNewest
  <2> QED BY <1>4, <2>3, <2>5, OrderedAppend, SMTT(30)
<1>5. CASE log' \o buf' \in {log \o buf, log}
  BY <1>2, <1>5, Zenon DEF OrderInv
<1>6. ASSUME NEW c \in Conns, conn[c].pc = "append", log' \o buf' \in {Append(log \o buf, conn[c].w), Append(log, conn[c].w)}
      PROVE  OrderInv'
  BY <1>1, <1>2, <1>4, <1>6, Zenon DEF OrderInv
<1>7. ASSUME NEW r \in Rewriters, RenameFile(r), log' \o buf' = rw[r].tmp PROVE OrderInv'
  <2>1. rw[r].pc = "rename" /\ Running
    BY <1>7, Alive DEF RenameFile
  <2> QED BY <1>7, <2>1, Zenon DEF OrderInv, OldInv, TmpOld, Mid
<1>8. CASE PowerLoss
  <2>1. PICK n \in 0..Len(log) : log' \in {SubSeq(log, 1, n), Append(SubSeq(log, 1, n), Broken)} /\ log' \o buf' = log'
    BY <1>8, LossFile, Zenon
  <2>2. Broken \in Records
    BY DEF Records
  <2>3. Ordered(Append(SubSeq(log, 1, n), Broken))
    BY <1>3, <2>2, OrderedAppend, Zenon
  <2> QED BY <1>3, <2>1, <2>3, Zenon DEF OrderInv
<1>9. CASE OperatorTruncates
  BY <1>3, <1>9, CutFile, Zenon DEF OrderInv
<1> QED BY <1>5, <1>6, <1>7, <1>8, <1>9, FileMoves, Zenon

----------------------------------------------------------------------------
(* The last record, the last sync, and the record about to be synced. *)

LEMMA PhaseMoves ==
    ASSUME Typed, DownInv, [Next]_vars
    PROVE  Exit \/ PowerLoss \/ Restart \/ OperatorTruncates \/ UNCHANGED vars \/ (Running /\ Running')
<1>1. ASSUME NEW c \in Conns, ConnStep(c) \/ \E k \in Keys : Apply(c, k) PROVE Running /\ Running'
  <2>1. phase' = phase /\ (conn[c].pc # "idle" \/ phase = "running")
    BY <1>1, Zenon DEF ConnStep, AppendBuffered, AppendLocked, AppendFsync, AppendFails, AddSize, Apply
  <2> QED BY <2>1, Alive, Zenon DEF Running
<1>2. ASSUME NEW r \in Rewriters, JobStep(r) \/ SpawnJob(r) PROVE Running /\ Running'
  <2>1. phase' = phase /\ (rw[r].pc # "idle" \/ phase = "running")
    BY <1>2, Zenon DEF JobStep, SpawnJob, Claim, WalkKey, LockLive, RenameFile, Reopen, Release, WalkFails, LiveFlushFails,
                       RenameFails, ReopenFails
  <2> QED BY <2>1, Alive, Zenon DEF Running
<1>3. ASSUME EverysecTick \/ EverysecLast \/ EverysecSync \/ SyncFails \/ Shutdown \/ FinalSync \/ FinalSyncFails
      PROVE  Running /\ Running'
  <2>1. \/ phase \in {"running", "draining", "exiting"} /\ phase' \in {phase, "draining", "exiting"}
        \/ task # "idle" /\ phase' = phase
    BY <1>3, Zenon DEF EverysecTick, EverysecLast, EverysecSync, SyncFails, Shutdown, FinalSync, FinalSyncFails
  <2>2. task # "idle" => Running
    BY Alive, Zenon DEF Quiet
  <2> QED BY <2>1, <2>2, Zenon DEF Running
<1> QED BY <1>1, <1>2, <1>3, Zenon DEF Next, Bgrewriteaof, SupervisorTick

LEMMA TailStep ==
    ASSUME Typed, DownInv, WholeInv, WholeInv', TailInv, [Next]_vars
    PROVE  TailInv'
<1>1. CASE Running'
  BY <1>1, Zenon DEF WholeInv, Whole, TailInv
<1>2. CASE log' = log
  BY <1>2, Zenon DEF TailInv
<1>3. CASE PowerLoss
  <2>1. PICK n \in 0..Len(log) : log' \in {SubSeq(log, 1, n), Append(SubSeq(log, 1, n), Broken)}
    BY <1>3, LossFile, Zenon
  <2> DEFINE s == SubSeq(log, 1, n)
  <2>2. s \in Seq(Records) /\ Len(s) = n /\ \A i \in 1..n : s[i] = log[i]
    BY Prefix DEF Typed
  <2>3. Len(log) \in Nat /\ \A i \in 1..n : i \in 1..Len(log)
    BY Joined DEF Typed
  <2>4. \A i \in 1..n : s[i] # Broken
    BY <1>3, <2>2, <2>3, Zenon DEF PowerLoss, WholeInv, Whole
  <2>5. Broken \in Records
    BY DEF Records
  <2> HIDE DEF s
  <2>6. Len(Append(s, Broken)) = n + 1 /\ \A i \in 1..n : Append(s, Broken)[i] = s[i]
    BY <2>2, <2>5, AppendProperties, SMTT(30)
  <2>7. ASSUME NEW i \in 1..Len(Append(s, Broken)), Append(s, Broken)[i] = Broken PROVE i = Len(Append(s, Broken))
    <3>1. i \notin 1..n
      BY <2>4, <2>6, <2>7, Zenon
    <3> QED BY <2>6, <3>1
  <2>8. CASE log' = s
    BY <2>2, <2>4, <2>8, Zenon DEF TailInv
  <2>9. CASE log' = Append(s, Broken)
    BY <2>7, <2>9, Zenon DEF TailInv
  <2> QED BY <2>1, <2>8, <2>9, Zenon DEF s
<1>4. CASE OperatorTruncates
  <2>1. PICK n \in 0..Len(log) : log' = SubSeq(log, 1, n) /\ \A i \in 1..n : log[i] # Broken
    BY <1>4, CutFile, ZenonT(60)
  <2>2. Len(log') = n /\ \A i \in 1..n : log'[i] = log[i]
    BY <2>1, Prefix DEF Typed
  <2> QED BY <2>1, <2>2, Zenon DEF TailInv
<1>5. CASE Exit \/ Restart \/ UNCHANGED vars
  BY <1>2, <1>5, Zenon DEF Exit, Restart, vars, fileVars
<1> QED BY <1>1, <1>3, <1>4, <1>5, PhaseMoves, Zenon

LEMMA LastStep ==
    ASSUME Typed, DownInv, LastInv, [Next]_vars
    PROVE  LastInv'
<1>1. CASE FinalSync \/ FinalSyncFails
  <2>1. (\A c \in Conns : conn'[c].pc = "idle") /\ (incident' \/ buf' = <<>>)
    BY <1>1, Zenon DEF FinalSync, FinalSyncFails, FlushAndSync, Flush
  <2> QED BY <2>1, Zenon DEF LastInv
<1>2. CASE phase' # "exiting"
  BY <1>2, Zenon DEF LastInv
<1>3. ASSUME phase = "exiting", conn' = conn, buf' \in {buf, <<>>}, incident' = incident \/ incident' = TRUE PROVE LastInv'
  BY <1>3 DEF LastInv
<1>4. ASSUME NEW c \in Conns, ConnStep(c) \/ \E k \in Keys : Apply(c, k) PROVE LastInv'
  <2>1. phase' = phase /\ (conn[c].pc # "idle" \/ phase = "running")
    BY <1>4, Zenon DEF ConnStep, AppendBuffered, AppendLocked, AppendFsync, AppendFails, AddSize, Apply
  <2> QED BY <2>1, Zenon DEF LastInv
<1>5. ASSUME NEW r \in Rewriters, JobStep(r) \/ SpawnJob(r) PROVE LastInv'
  <2>1. phase' = phase /\ conn' = conn /\ buf' \in {buf, <<>>}
    BY <1>5, Zenon DEF JobStep, SpawnJob, Claim, WalkKey, LockLive, RenameFile, Reopen, Release, WalkFails, LiveFlushFails,
                       RenameFails, ReopenFails, Flush, fileVars
  <2>2. incident' = incident \/ incident' = TRUE
    BY <1>5, Zenon DEF JobStep, SpawnJob, Claim, WalkKey, LockLive, RenameFile, Reopen, Release, WalkFails, LiveFlushFails,
                       RenameFails, ReopenFails, history
  <2> QED BY <1>2, <1>3, <2>1, <2>2, Zenon
<1>6. CASE EverysecTick \/ EverysecLast \/ EverysecSync \/ SyncFails \/ UNCHANGED vars
  <2>1. phase' = phase /\ conn' = conn /\ buf' \in {buf, <<>>} /\ incident' = incident
    BY <1>6, Zenon DEF EverysecTick, EverysecLast, EverysecSync, SyncFails, FlushAndSync, Flush, vars, fileVars, history
  <2> QED BY <1>2, <1>3, <2>1, Zenon
<1>7. CASE Shutdown \/ Exit \/ PowerLoss \/ Restart \/ OperatorTruncates
  <2>1. phase' # "exiting"
    BY <1>7, Zenon DEF Shutdown, Exit, PowerLoss, Restart, OperatorTruncates
  <2> QED BY <1>2, <2>1
<1> QED BY <1>1, <1>4, <1>5, <1>6, <1>7, Zenon DEF Next, Bgrewriteaof, SupervisorTick

LEMMA PendStep ==
    ASSUME Typed, LockInv, PendInv, [Next]_vars
    PROVE  PendInv'
<1> SUFFICES ASSUME NEW c \in Conns, conn'[c].pc = "fsync" PROVE conn'[c].w \in Recs(buf')
  BY Zenon DEF PendInv, Recs
<1>1. ASSUME conn'[c] = conn[c], buf' = buf PROVE conn'[c].w \in Recs(buf')
  BY <1>1, Zenon DEF PendInv
<1>2. ASSUME conn'[c] = conn[c] PROVE lock = c /\ lock # NoOne
  BY <1>2, ThreadsAssumption, ZenonT(60) DEF LockInv
<1>3. conn \in [Conns -> Connections] /\ conn[c] \in Connections /\ buf \in Seq(Past)
  BY DEF Typed, ConnTyped, FileTyped
<1>4. CASE AppendLocked(c)
  <2>1. conn[c].w \in Past
    BY <1>4, Zenon DEF AppendLocked, Typed, ConnTyped
  <2>2. conn'[c].w = conn[c].w
    BY <1>3, <1>4, SMTT(30) DEF AppendLocked, Connections
  <2>3. buf' = Append(buf, conn[c].w)
    BY <1>4, ZenonT(60) DEF AppendLocked
  <2>4. conn[c].w \in Recs(Append(buf, conn[c].w))
    BY <1>3, <2>1, RecsAppend, SMTT(30)
  <2> QED BY <2>2, <2>3, <2>4, Zenon
<1>5. ASSUME NEW d \in Conns, ConnStep(d) \/ \E k \in Keys : Apply(d, k), d # c PROVE conn'[c].w \in Recs(buf')
  <2>1. conn'[c] = conn[c]
    BY <1>3, <1>5, Zenon DEF ConnStep, AppendBuffered, AppendLocked, AppendFsync, AppendFails, AddSize, Apply
  <2>2. lock = c /\ lock # NoOne /\ conn[d].pc # "fsync"
    BY <1>2, <1>5, <2>1, Zenon DEF LockInv
  <2>3. buf' = buf
    BY <1>5, <2>2, Zenon DEF ConnStep, AppendBuffered, AppendLocked, AppendFsync, AppendFails, AddSize, Apply, fileVars
  <2> QED BY <1>1, <2>1, <2>3, SMTT(30)
<1>6. CASE ConnStep(c) \/ \E k \in Keys : Apply(c, k)
  <2>1. ASSUME ~AppendLocked(c) PROVE conn'[c].pc # "fsync"
    <3>1. \/ conn' = [conn EXCEPT ![c].pc = "size"] \/ conn' = [conn EXCEPT ![c] = IdleConn]
          \/ \E k \in Keys : conn' = [conn EXCEPT ![c] = [pc |-> "append", w |-> <<k, next + 1>>]]
      BY <1>6, <2>1, Zenon DEF ConnStep, AppendBuffered, AppendFsync, AppendFails, AddSize, Apply
    <3> QED BY <1>3, <3>1 DEF IdleConn, Connections
  <2> QED BY <1>4, <2>1, SMTT(30)
<1>7. ASSUME NEW r \in Rewriters, JobStep(r) \/ SpawnJob(r) PROVE conn'[c].w \in Recs(buf')
  <2>1. conn' = conn
    BY <1>7, Zenon DEF JobStep, SpawnJob, Claim, WalkKey, LockLive, RenameFile, Reopen, Release, WalkFails, LiveFlushFails,
                       RenameFails, ReopenFails
  <2>2. buf' = buf
    BY <1>2, <1>7, <2>1, Zenon DEF JobStep, SpawnJob, Claim, WalkKey, LockLive, RenameFile, Reopen, Release, WalkFails,
                       LiveFlushFails, RenameFails, ReopenFails, fileVars
  <2> QED BY <1>1, <2>1, <2>2, SMTT(30)
<1>8. CASE EverysecTick \/ EverysecLast \/ EverysecSync \/ SyncFails \/ Shutdown \/ FinalSync \/ FinalSyncFails
           \/ Restart \/ OperatorTruncates \/ UNCHANGED vars
  <2>1. conn' = conn
    BY <1>8, Zenon DEF EverysecTick, EverysecLast, EverysecSync, SyncFails, Shutdown, FinalSync, FinalSyncFails, Restart,
                       OperatorTruncates, vars
  <2>2. buf' = buf
    BY <1>2, <1>8, <2>1, Zenon DEF EverysecTick, EverysecLast, EverysecSync, SyncFails, Shutdown, FinalSync, FinalSyncFails,
                       Restart, OperatorTruncates, vars, fileVars
  <2> QED BY <1>1, <2>1, <2>2, SMTT(30)
<1>9. CASE Exit \/ PowerLoss
  <2>1. conn'[c].pc = "idle"
    BY <1>9 DEF Exit, PowerLoss, Gone, IdleConn
  <2> QED BY <2>1
<1> QED BY <1>5, <1>6, <1>7, <1>8, <1>9, Zenon DEF Next, Bgrewriteaof, SupervisorTick

----------------------------------------------------------------------------
(* Nothing is newer than the store. *)

LEMMA StoreMoves ==
    ASSUME Running, Running', [Next]_vars
    PROVE  (db' = db /\ next' = next) \/ \E c \in Conns, k \in Keys : Apply(c, k)
<1>1. ASSUME NEW c \in Conns, ConnStep(c) PROVE db' = db /\ next' = next
  BY <1>1, Zenon DEF ConnStep, AppendBuffered, AppendLocked, AppendFsync, AppendFails, AddSize
<1>2. ASSUME NEW r \in Rewriters, JobStep(r) \/ SpawnJob(r) PROVE db' = db /\ next' = next
  BY <1>2, Zenon DEF JobStep, SpawnJob, Claim, WalkKey, LockLive, RenameFile, Reopen, Release, WalkFails, LiveFlushFails,
                     RenameFails, ReopenFails
<1>3. ASSUME EverysecTick \/ EverysecLast \/ EverysecSync \/ SyncFails \/ Shutdown \/ FinalSync \/ FinalSyncFails
             \/ OperatorTruncates \/ UNCHANGED vars
      PROVE  db' = db /\ next' = next
  BY <1>3, Zenon DEF EverysecTick, EverysecLast, EverysecSync, SyncFails, Shutdown, FinalSync, FinalSyncFails,
                     OperatorTruncates, vars
<1>4. ~(Exit \/ PowerLoss \/ Restart)
  BY Zenon DEF Exit, PowerLoss, Restart, Running
<1> QED BY <1>1, <1>2, <1>3, <1>4, Zenon DEF Next, Bgrewriteaof, SupervisorTick

LEMMA StoreGrows ==
    ASSUME Typed, Running, Running', [Next]_vars, NEW k \in Keys, NEW n \in Nat, n <= db[k]
    PROVE  n <= db'[k]
<1>1. db \in [Keys -> 0..next] /\ next \in Nat
  BY SMTT(30) DEF Typed, StoreTyped
<1>2. ASSUME NEW c \in Conns, NEW j \in Keys, Apply(c, j) PROVE n <= db'[k]
  <2>1. db' = [db EXCEPT ![j] = next + 1]
    BY <1>2, Zenon DEF Apply
  <2>2. db'[k] = IF j = k THEN next + 1 ELSE db[k]
    BY <1>1, <2>1, Zenon
  <2>3. db[k] \in 0..next
    BY <1>1, Zenon
  <2> QED BY <1>1, <2>2, <2>3
<1> QED BY <1>2, StoreMoves, Zenon

\* Where versions never go back, replay gives every key its newest record.
LEMMA ReplayNewest ==
    ASSUME Typed, Ordered(log), NEW x \in Recs(log), x # Broken
    PROVE  x[1] \in Keys /\ x[2] <= Replay(log)[x[1]]
<1>1. log \in Seq(Records) /\ Len(log) \in Nat
  BY FileFacts, Joined, SMTT(30) DEF Typed
<1>2. x \in Records
  BY <1>1, RecsTyped
<1>3. x[1] \in Keys
  BY <1>2, NotBroken DEF Records
<1> DEFINE I == {i \in 1..Len(log) : log[i] # Broken /\ log[i][1] = x[1]}
<1>4. PICK i \in 1..Len(log) : x = log[i]
  BY Zenon DEF Recs
<1>5. i \in I /\ I \in SUBSET (1..Len(log)) /\ I # {}
  BY <1>4, ZenonT(60)
<1>6. Replay(log)[x[1]] = IF I = {} THEN 0 ELSE log[Max(I)][2]
  BY <1>3, SMTT(30) DEF Replay
<1>7. \A m \in I : m \in 1..Len(log) /\ log[m] # Broken /\ log[m][1] = x[1]
  BY Zenon
<1> HIDE DEF I
<1>8. Max(I) \in I /\ Max(I) >= i
  BY <1>1, <1>5, MaxOfSome, Zenon
<1>9. Max(I) \in 1..Len(log) /\ i <= Max(I) /\ log[Max(I)] # Broken /\ log[Max(I)][1] = x[1]
  BY <1>1, <1>7, <1>8, SMTT(30)
<1>10. x[2] <= log[Max(I)][2]
  BY <1>4, <1>9, Zenon DEF Ordered
<1> QED BY <1>3, <1>5, <1>6, <1>10, Zenon

LEMMA FilesStep ==
    ASSUME Typed, DownInv, LockInv, OrderInv, OldInv, [Next]_vars, Running'
    PROVE  FilesOld'
<1>1. FileTyped /\ log \in Seq(Records) /\ log \o buf \in Seq(Records) /\ Recs(log) \subseteq Recs(log \o buf)
  BY FileFacts DEF Typed
<1>2. ASSUME Running, NEW x \in Records, x # Broken, x[2] <= db[x[1]] PROVE x[2] <= db'[x[1]]
  <2>1. x \in Past
    BY <1>2 DEF Records
  <2>2. x[1] \in Keys /\ x[2] \in Nat
    BY <2>1, NotBroken, SMTT(30) DEF Typed, StoreTyped
  <2> QED BY <1>2, <2>2, StoreGrows, Zenon
<1>3. \A x \in Recs(log \o buf) : x \in Records
  BY <1>1, RecsTyped, Zenon
<1>4. ASSUME Running PROVE \A x \in Recs(log \o buf) : x # Broken => x[2] <= db'[x[1]]
  BY <1>2, <1>3, <1>4, Zenon DEF OldInv, FilesOld
<1>5. CASE Running
  <2>1. CASE log' \o buf' \in {log \o buf, log}
    BY <1>1, <1>4, <1>5, <2>1, Zenon DEF FilesOld
  <2>2. ASSUME NEW c \in Conns, conn[c].pc = "append", log' \o buf' \in {Append(log \o buf, conn[c].w), Append(log, conn[c].w)}
        PROVE  FilesOld'
    <3>1. conn[c].w \in Past
      BY <2>2, Zenon DEF Typed, ConnTyped
    <3>2. conn[c].w \in Records /\ conn[c].w[2] <= conn[c].w[2]
      BY <3>1, NotBroken, SMTT(30) DEF Records, Typed, StoreTyped
    <3>3. conn[c].w[2] = db[conn[c].w[1]] /\ conn[c].w # Broken
      BY <1>5, <2>2, <3>1, NotBroken, Zenon DEF OldInv, PendingNewest
    <3>4. conn[c].w[2] <= db'[conn[c].w[1]]
      BY <1>2, <1>5, <3>2, <3>3, Zenon
    <3>5. ASSUME NEW s \in Seq(Records) PROVE Recs(Append(s, conn[c].w)) = Recs(s) \cup {conn[c].w}
      BY <3>2, RecsAppend
    <3> QED BY <1>1, <1>4, <1>5, <2>2, <3>4, <3>5, Zenon DEF FilesOld
  <2>3. ASSUME NEW r \in Rewriters, RenameFile(r), log' \o buf' = rw[r].tmp PROVE FilesOld'
    <3>1. rw[r].tmp \in Seq(Past) /\ rw[r].pc = "rename"
      BY <2>3, JobFacts, SMTT(30) DEF RenameFile, Typed, JobTyped, Jobs
    <3>2. \A x \in Recs(rw[r].tmp) : x \in Records
      BY <3>1, RecsTyped DEF Records
    <3>3. \A x \in Recs(rw[r].tmp) : x[2] <= db[x[1]]
      BY <1>5, <3>1, Zenon DEF OldInv, TmpOld, Mid
    <3> QED BY <1>2, <1>5, <2>3, <3>2, <3>3, Zenon DEF FilesOld
  <2>4. ~PowerLoss /\ ~OperatorTruncates
    BY Zenon DEF PowerLoss, OperatorTruncates, Running
  <2> QED BY <2>1, <2>2, <2>3, <2>4, FileMoves, Zenon
<1>6. CASE ~Running
  <2>1. Restart \/ UNCHANGED vars
    BY <1>6, PhaseMoves, Zenon DEF Exit, PowerLoss, OperatorTruncates, Running
  <2>2. Restart /\ phase' = "running"
    BY <1>6, <2>1, Zenon DEF Restart, vars, Running
  <2>3. db' = Replay(log) /\ log' = log /\ buf' = <<>>
    BY <1>6, <2>2, Alive, Zenon DEF Restart, Quiet
  <2>4. log' \o buf' = log
    BY <1>1, <2>3, Joined, Zenon
  <2>5. Ordered(log)
    BY <1>1, FileFacts, Zenon DEF OrderInv
  <2>6. ASSUME NEW x \in Recs(log), x # Broken PROVE x[2] <= db'[x[1]]
    BY <2>3, <2>5, <2>6, ReplayNewest, Zenon
  <2> QED BY <2>4, <2>6, Zenon DEF FilesOld
<1> QED BY <1>5, <1>6, SMTT(30)

LEMMA PendingStep ==
    ASSUME OneWriter, Typed, DownInv, OldInv, [Next]_vars, Running'
    PROVE  PendingNewest'
<1>1. conn \in [Conns -> Connections] /\ db \in [Keys -> 0..next]
  BY SMTT(30) DEF Typed, ConnTyped, StoreTyped
<1>2. ASSUME NEW c \in Conns, NEW k \in Keys, Apply(c, k) PROVE PendingNewest'
  <2> DEFINE q == [pc |-> "append", w |-> <<k, next + 1>>]
  <2>1. q.w[1] = k /\ q.w[2] = next + 1
    OBVIOUS
  <2>2. conn' = [conn EXCEPT ![c] = q] /\ db' = [db EXCEPT ![k] = next + 1] /\ <<c, k>> \in Owns
    BY <1>2, Zenon DEF Apply
  <2> HIDE DEF q
  <2>3. conn'[c] = q /\ db'[k] = next + 1 /\ (\A d \in Conns \ {c} : conn'[d] = conn[d]) /\ (\A j \in Keys \ {k} : db'[j] = db[j])
    BY <1>1, <2>2, Zenon
  <2>4. ASSUME NEW d \in Conns \ {c}, conn[d].pc # "idle"
        PROVE  conn[d].w[2] = db'[conn[d].w[1]] /\ <<d, conn[d].w[1]>> \in Owns
    <3>1. conn[d].w \in Past /\ Running
      BY <2>4, Alive, Zenon DEF Typed, ConnTyped
    <3>2. conn[d].w[1] \in Keys
      BY <3>1, NotBroken, SMTT(30)
    <3>3. conn[d].w[2] = db[conn[d].w[1]] /\ <<d, conn[d].w[1]>> \in Owns
      BY <2>4, <3>1, Zenon DEF OldInv, PendingNewest
    <3>4. conn[d].w[1] # k
      BY <2>2, <2>4, <3>3, Zenon DEF OneWriter
    <3> QED BY <2>3, <3>2, <3>3, <3>4, Zenon
  <2>5. ASSUME NEW d \in Conns, conn'[d].pc # "idle"
        PROVE  conn'[d].w[2] = db'[conn'[d].w[1]] /\ <<d, conn'[d].w[1]>> \in Owns
    <3>1. CASE d = c
      BY <2>1, <2>2, <2>3, <3>1, ZenonT(60)
    <3>2. CASE d # c
      BY <2>3, <2>4, <2>5, <3>2, Zenon
    <3> QED BY <3>1, <3>2
  <2> QED BY <2>5, Zenon DEF PendingNewest
<1>3. ASSUME Running, db' = db, \A d \in Conns : conn'[d].pc # "idle" => conn[d].pc # "idle" /\ conn'[d].w = conn[d].w
      PROVE  PendingNewest'
  BY <1>3, Zenon DEF OldInv, PendingNewest
<1>4. ASSUME NEW c \in Conns, ConnStep(c) PROVE PendingNewest'
  <2>1. db' = db /\ conn[c].pc # "idle" /\ Running
    BY <1>4, Alive, Zenon DEF ConnStep, AppendBuffered, AppendLocked, AppendFsync, AppendFails, AddSize
  <2>2. \/ conn' = [conn EXCEPT ![c].pc = "size"] \/ conn' = [conn EXCEPT ![c].pc = "fsync"]
        \/ conn' = [conn EXCEPT ![c] = IdleConn]
    BY <1>4, Zenon DEF ConnStep, AppendBuffered, AppendLocked, AppendFsync, AppendFails, AddSize
  <2>3. conn[c] \in Connections /\ \A d \in Conns \ {c} : conn'[d] = conn[d]
    BY <1>1, <2>2, Zenon
  <2>4. conn'[c].w = conn[c].w \/ conn'[c].pc = "idle"
    BY <1>1, <2>2, <2>3 DEF Connections, IdleConn
  <2> QED BY <1>3, <2>1, <2>3, <2>4, Zenon
<1>5. ASSUME NEW r \in Rewriters, JobStep(r) \/ SpawnJob(r) PROVE PendingNewest'
  <2>1. Running /\ conn' = conn /\ db' = db
    BY <1>5, Alive, Zenon DEF JobStep, SpawnJob, Claim, WalkKey, LockLive, RenameFile, Reopen, Release, WalkFails,
                       LiveFlushFails, RenameFails, ReopenFails, Running
  <2> QED BY <1>3, <2>1, Zenon
<1>6. CASE EverysecTick \/ EverysecLast \/ EverysecSync \/ SyncFails \/ Shutdown \/ FinalSync \/ FinalSyncFails \/ UNCHANGED vars
  <2>1. conn' = conn /\ db' = db
    BY <1>6, Zenon DEF EverysecTick, EverysecLast, EverysecSync, SyncFails, Shutdown, FinalSync, FinalSyncFails, vars
  <2>2. Running
    BY <1>6, PhaseMoves, Zenon DEF vars, Running, EverysecTick, EverysecLast, EverysecSync, SyncFails, Shutdown, FinalSync,
                       FinalSyncFails, Exit, PowerLoss, Restart, OperatorTruncates
  <2> QED BY <1>3, <2>1, <2>2, Zenon
<1>7. CASE Restart
  <2>1. \A c \in Conns : conn'[c].pc = "idle"
    BY <1>7, Zenon DEF Restart, DownInv, Down, Quiet
  <2> QED BY <2>1, Zenon DEF PendingNewest
<1>8. ~(Exit \/ PowerLoss \/ OperatorTruncates)
  BY Zenon DEF Exit, PowerLoss, OperatorTruncates, Running
<1> QED BY <1>2, <1>4, <1>5, <1>6, <1>7, <1>8, Zenon DEF Next, Bgrewriteaof, SupervisorTick

\* A temporary file that grows by the version that the walk reads.
LEMMA WalkTmp ==
    ASSUME Typed, DownInv, OldInv, NEW r \in Rewriters, NEW k \in Keys, WalkKey(r, k)
    PROVE  Ordered(WalkedTmp(r, k)) /\ \A x \in Recs(WalkedTmp(r, k)) : x[2] <= db[x[1]]
<1>1. rw[r].pc = "walk" /\ Running /\ rw[r].tmp \in Seq(Past)
  BY Alive, JobFacts, SMTT(30) DEF WalkKey, Typed, JobTyped, Jobs
<1>2. Ordered(rw[r].tmp) /\ \A x \in Recs(rw[r].tmp) : x[2] <= db[x[1]]
  BY <1>1, Zenon DEF OldInv, TmpOld, Mid
<1>3. CASE db[k] = 0
  BY <1>2, <1>3, Zenon DEF WalkedTmp
<1>4. CASE db[k] # 0
  <2>1. db[k] \in 0..next /\ next \in Nat
    BY DEF Typed, StoreTyped
  <2> DEFINE e == <<k, db[k]>>
  <2>2. e \in Past /\ e[1] = k /\ e[2] = db[k] /\ e[2] <= e[2]
    BY <1>4, <2>1 DEF Past
  <2> HIDE DEF e
  <2>3. \A x \in Recs(rw[r].tmp) : x # Broken /\ e # Broken /\ x[1] = e[1] => x[2] <= e[2]
    BY <1>2, <2>2, Zenon
  <2>4. Ordered(Append(rw[r].tmp, e))
    BY <1>1, <1>2, <2>2, <2>3, OrderedAppend, SMTT(30)
  <2>5. Recs(Append(rw[r].tmp, e)) = Recs(rw[r].tmp) \cup {e}
    BY <1>1, <2>2, RecsAppend
  <2>6. WalkedTmp(r, k) = Append(rw[r].tmp, e)
    BY <1>4, Zenon DEF WalkedTmp, e
  <2> QED BY <1>2, <2>2, <2>4, <2>5, <2>6, Zenon
<1> QED BY <1>3, <1>4

LEMMA TmpStep ==
    ASSUME Typed, DownInv, OldInv, [Next]_vars, Running'
    PROVE  TmpOld'
<1> DEFINE Good(t) == Ordered(t) /\ \A x \in Recs(t) : x[2] <= db'[x[1]]
<1>1. rw \in [Rewriters -> Jobs]
  BY DEF Typed, JobTyped
<1>2. ASSUME Running, NEW r \in Rewriters, rw[r].pc \in Mid PROVE Good(rw[r].tmp)
  <2>1. rw[r].tmp \in Seq(Past) /\ Ordered(rw[r].tmp) /\ \A x \in Recs(rw[r].tmp) : x[2] <= db[x[1]]
    BY <1>2, JobFacts, SMTT(30) DEF OldInv, TmpOld, Typed, JobTyped, Jobs
  <2>2. ASSUME NEW x \in Recs(rw[r].tmp) PROVE x[2] <= db'[x[1]]
    <3>1. x \in Past /\ x[2] <= db[x[1]]
      BY <2>1, <2>2, RecsTyped
    <3>2. x[1] \in Keys /\ x[2] \in Nat
      BY <3>1, NotBroken, SMTT(30) DEF Typed, StoreTyped
    <3> QED BY <1>2, <3>1, <3>2, StoreGrows, Zenon
  <2> QED BY <2>1, <2>2, Zenon
<1>3. Good(<<>>)
  <2>1. Ordered(<<>>)
    BY DEF Ordered
  <2> QED BY <2>1, RecsEmpty, Zenon
<1>4. ASSUME NEW r \in Rewriters, NEW k \in Keys, WalkKey(r, k) PROVE Good(WalkedTmp(r, k))
  <2>1. db' = db
    BY <1>4, Zenon DEF WalkKey
  <2> QED BY <1>4, <2>1, WalkTmp, Zenon
<1> HIDE DEF Good
<1>5. ASSUME \A r \in Rewriters : rw'[r].pc \in Mid => Good(rw'[r].tmp) PROVE TmpOld'
  BY <1>5, Zenon DEF TmpOld, Good
<1>6. ASSUME NEW r \in Rewriters, JobStep(r) \/ SpawnJob(r) PROVE TmpOld'
  <2>1. rw[r] \in Jobs /\ Running /\ \A s \in Rewriters \ {r} : rw'[s] = rw[s]
    BY <1>1, <1>6, Alive, Zenon DEF JobStep, SpawnJob, Claim, WalkKey, LockLive, RenameFile, Reopen, Release, WalkFails,
         LiveFlushFails, RenameFails, ReopenFails, Running
  <2>2. ASSUME rw'[r].pc \in Mid => Good(rw'[r].tmp) PROVE TmpOld'
    BY <1>2, <1>5, <2>1, <2>2, Zenon
  <2>3. ASSUME NEW k \in Keys, WalkKey(r, k) PROVE TmpOld'
    <3>1. rw'[r] = Walked(r, k)
      BY <1>1, <2>3, WalkStep, Zenon
    <3>2. Walked(r, k).tmp = WalkedTmp(r, k)
      BY DEF Walked
    <3>3. rw'[r].tmp = WalkedTmp(r, k)
      BY <3>1, <3>2, Zenon
    <3> QED BY <1>4, <2>2, <2>3, <3>3, Zenon
  <2>4. CASE Claim(r)
    <3>1. rw'[r] \in {IdleJob, [pc |-> "walk", todo |-> Keys, tmp |-> <<>>]}
      BY <1>1, <2>4, Zenon DEF Claim
    <3>2. IdleJob.tmp = <<>> /\ [pc |-> "walk", todo |-> Keys, tmp |-> <<>>].tmp = <<>>
      BY DEF IdleJob
    <3>3. rw'[r].tmp = <<>>
      BY <3>1, <3>2, Zenon
    <3> QED BY <1>3, <2>2, <3>3, Zenon
  <2>5. CASE LockLive(r)
    <3>1. rw[r].pc = "lock" /\ rw'[r].tmp = rw[r].tmp
      BY <1>1, <2>1, <2>5, SMTT(30) DEF LockLive, Jobs
    <3> QED BY <1>2, <2>1, <2>2, <3>1, Zenon DEF Mid
  <2>6. CASE SpawnJob(r) \/ RenameFile(r) \/ Release(r)
    <3>1. rw'[r].pc \in {"claim", "reopen", "idle"}
      BY <1>1, <2>1, <2>6, IdleJobTyped DEF SpawnJob, RenameFile, Release, Jobs
    <3> QED BY <2>2, <3>1, Zenon DEF Mid
  <2>7. CASE Reopen(r) \/ WalkFails(r) \/ LiveFlushFails(r) \/ RenameFails(r) \/ ReopenFails(r)
    <3>1. rw'[r].pc = "release"
      BY <1>1, <2>7, ReleasedTyped, Zenon DEF Reopen, WalkFails, LiveFlushFails, RenameFails, ReopenFails, Released
    <3> QED BY <2>2, <3>1, Zenon DEF Mid
  <2> QED BY <1>6, <2>3, <2>4, <2>5, <2>6, <2>7, Zenon DEF JobStep
<1>7. ASSUME Running, rw' = rw PROVE TmpOld'
  BY <1>2, <1>5, <1>7, Zenon
<1>8. ASSUME NEW c \in Conns, ConnStep(c) \/ \E k \in Keys : Apply(c, k) PROVE TmpOld'
  <2>1. rw' = rw /\ Running
    BY <1>8, Alive, Zenon DEF ConnStep, AppendBuffered, AppendLocked, AppendFsync, AppendFails, AddSize, Apply, Running
  <2> QED BY <1>7, <2>1
<1>9. CASE EverysecTick \/ EverysecLast \/ EverysecSync \/ SyncFails \/ Shutdown \/ FinalSync \/ FinalSyncFails \/ UNCHANGED vars
  <2>1. rw' = rw
    BY <1>9, Zenon DEF EverysecTick, EverysecLast, EverysecSync, SyncFails, Shutdown, FinalSync, FinalSyncFails, vars
  <2>2. Running
    BY <1>9, PhaseMoves, Zenon DEF vars, Running, EverysecTick, EverysecLast, EverysecSync, SyncFails, Shutdown, FinalSync,
                       FinalSyncFails, Exit, PowerLoss, Restart, OperatorTruncates
  <2> QED BY <1>7, <2>1, <2>2
<1>10. CASE Restart
  <2>1. \A r \in Rewriters : rw'[r].pc = "idle"
    BY <1>10, Zenon DEF Restart, DownInv, Down, Quiet
  <2> QED BY <1>5, <2>1, Zenon DEF Mid
<1>11. ~(Exit \/ PowerLoss \/ OperatorTruncates)
  BY Zenon DEF Exit, PowerLoss, OperatorTruncates, Running
<1> QED BY <1>6, <1>8, <1>9, <1>10, <1>11, Zenon DEF Next, Bgrewriteaof, SupervisorTick

----------------------------------------------------------------------------
(* Answered writes stay in the file. *)

LEMMA IncidentStays == [Next]_vars /\ incident => incident'
<1> SUFFICES ASSUME [Next]_vars, incident PROVE incident'
  OBVIOUS
<1>1. ASSUME incident' = incident \/ incident' = TRUE PROVE incident'
  BY <1>1, Zenon
<1>2. ASSUME NEW c \in Conns, ConnStep(c) \/ \E k \in Keys : Apply(c, k) PROVE incident' = incident \/ incident' = TRUE
  BY <1>2, Zenon DEF ConnStep, AppendBuffered, AppendLocked, AppendFsync, AppendFails, AddSize, Apply, history
<1>3. ASSUME NEW r \in Rewriters, JobStep(r) \/ SpawnJob(r) PROVE incident' = incident \/ incident' = TRUE
  BY <1>3, Zenon DEF JobStep, SpawnJob, Claim, WalkKey, LockLive, RenameFile, Reopen, Release, WalkFails, LiveFlushFails,
                     RenameFails, ReopenFails, history
<1>4. ASSUME EverysecTick \/ EverysecLast \/ EverysecSync \/ SyncFails \/ Shutdown \/ FinalSync \/ FinalSyncFails
             \/ Exit \/ PowerLoss \/ Restart \/ OperatorTruncates \/ UNCHANGED vars
      PROVE  incident' = incident \/ incident' = TRUE
  BY <1>4, Zenon DEF EverysecTick, EverysecLast, EverysecSync, SyncFails, Shutdown, FinalSync, FinalSyncFails, Exit,
                     PowerLoss, Restart, OperatorTruncates, vars, history
<1> QED BY <1>1, <1>2, <1>3, <1>4, Zenon DEF Next, Bgrewriteaof, SupervisorTick

\* Unless a reopen has failed, whoever gets the lock writes to the file at the path.
LEMMA NamedFile ==
    ASSUME LockInv, OrphanInv, ~incident, lock \in Conns \cup {NoOne}
    PROVE  ~orphan
<1> SUFFICES ASSUME orphan PROVE FALSE
  OBVIOUS
<1>1. PICK r \in Rewriters : rw[r].pc = "reopen"
  BY Zenon DEF OrphanInv
<1>2. lock = r
  BY <1>1, Zenon DEF LockInv
<1> QED BY <1>2, ThreadsAssumption, Zenon

\* A step other than a swap, a power loss and the operator's cut takes nothing away.
LEMMA FileGrows ==
    ASSUME Typed, DownInv, LockInv, OrphanInv, LastInv, [Next]_vars, ~incident', ~PowerLoss, ~OperatorTruncates,
           \A r \in Rewriters : ~RenameFile(r)
    PROVE  /\ log' \in {log, log \o buf} /\ synced' \in {synced, Len(log')}
           /\ \/ log' \o buf' = log \o buf
              \/ \E c \in Conns : conn[c].pc = "append" /\ log' \o buf' = Append(log \o buf, conn[c].w)
<1> DEFINE Goal == /\ log' \in {log, log \o buf} /\ synced' \in {synced, Len(log')}
                   /\ \/ log' \o buf' = log \o buf
                      \/ \E c \in Conns : conn[c].pc = "append" /\ log' \o buf' = Append(log \o buf, conn[c].w)
<1> SUFFICES Goal
  OBVIOUS
<1>1. FileTyped /\ ~incident
  BY IncidentStays DEF Typed
<1>2. ASSUME UNCHANGED <<log, buf>>, synced' \in {synced, Len(log')} PROVE Goal
  BY <1>2, Zenon
<1>3. ASSUME Flush, synced' \in {synced, Len(log')}, lock \in Conns \cup {NoOne} PROVE Goal
  <2>1. ~orphan
    BY <1>1, <1>3, NamedFile, Zenon
  <2> QED BY <1>1, <1>3, <2>1, FlushFile, Zenon DEF Flush
<1>4. ASSUME NEW c \in Conns, AppendBuffered(c) \/ AppendLocked(c) PROVE Goal
  <2>1. conn[c].pc = "append" /\ lock = NoOne /\ synced' = synced
    BY <1>4, Zenon DEF AppendBuffered, AppendLocked
  <2>2. conn[c].w \in Past /\ ~orphan
    BY <1>1, <2>1, NamedFile, Zenon DEF Typed, ConnTyped
  <2>3. \/ log' = log /\ buf' = Append(buf, conn[c].w)
        \/ log' = log \o buf /\ buf' = <<conn[c].w>>
    BY <1>4, <2>2, Zenon DEF AppendBuffered, AppendLocked
  <2> QED BY <1>1, <2>1, <2>2, <2>3, AppendFile, Zenon
<1>5. ASSUME NEW c \in Conns, AppendFsync(c) PROVE Goal
  <2>1. Flush /\ synced' \in {synced, Len(log')} /\ lock \in Conns \cup {NoOne}
    BY <1>5, Zenon DEF AppendFsync, FlushAndSync, LockInv
  <2> QED BY <1>3, <2>1, SMTT(30)
<1>6. ASSUME NEW c \in Conns, AppendFails(c) \/ AddSize(c) \/ \E k \in Keys : Apply(c, k) PROVE Goal
  <2>1. UNCHANGED <<log, buf, synced>>
    BY <1>6, Zenon DEF AppendFails, AddSize, Apply, fileVars
  <2> QED BY <1>2, <2>1, Zenon
<1>7. ASSUME NEW r \in Rewriters, JobStep(r) \/ SpawnJob(r) PROVE Goal
  <2>1. \/ UNCHANGED <<log, buf, synced>>
        \/ Flush /\ synced' = synced /\ lock = NoOne
    BY <1>7, Zenon DEF JobStep, SpawnJob, Claim, WalkKey, LockLive, Reopen, Release, WalkFails, LiveFlushFails, RenameFails,
                       ReopenFails, fileVars
  <2> QED BY <1>2, <1>3, <2>1, Zenon
<1>8. CASE EverysecTick \/ EverysecLast \/ EverysecSync \/ SyncFails \/ Shutdown \/ FinalSync \/ FinalSyncFails
           \/ UNCHANGED vars
  <2>1. \/ UNCHANGED <<log, buf, synced>>
        \/ Flush /\ synced' \in {synced, Len(log')} /\ lock = NoOne
    BY <1>8, Zenon DEF EverysecTick, EverysecLast, EverysecSync, SyncFails, Shutdown, FinalSync, FinalSyncFails,
                       FlushAndSync, vars, fileVars
  <2> QED BY <1>2, <1>3, <2>1, Zenon
<1>9. CASE Exit
  <2>1. log' = log /\ synced' = synced /\ buf' = <<>>
    BY <1>9, Zenon DEF Exit, Gone
  <2>2. buf = <<>>
    BY <1>1, <1>9, Zenon DEF Exit, LastInv
  <2> QED BY <1>2, <2>1, <2>2, Zenon
<1>10. CASE Restart
  <2>1. UNCHANGED <<log, buf>> /\ synced' \in {synced, Len(log')}
    BY <1>10, Zenon DEF Restart
  <2> QED BY <1>2, <2>1, Zenon
<1> HIDE DEF Goal
<1>11. ASSUME NEW c \in Conns, ConnStep(c) \/ \E k \in Keys : Apply(c, k) PROVE Goal
  BY <1>4, <1>5, <1>6, <1>11, Zenon DEF ConnStep
<1> QED BY <1>7, <1>8, <1>9, <1>10, <1>11, Zenon DEF Next, Bgrewriteaof, SupervisorTick

LEMMA PrefixRecs ==
    ASSUME NEW S, NEW s \in Seq(S), NEW n \in 0..Len(s)
    PROVE  Recs(SubSeq(s, 1, n)) = {s[i] : i \in 1..n}
<1>1. Len(s) \in Nat
  BY LenProperties
<1>2. \A i \in 1..n : s[i] \in S
  BY <1>1, ElementOfSeq
<1>3. /\ Len(SubSeq(s, 1, n)) = IF 1 <= n THEN n - 1 + 1 ELSE 0
      /\ \A i \in 1..(n - 1 + 1) : SubSeq(s, 1, n)[i] = s[1 + i - 1]
  BY <1>1, <1>2, SubSeqProperties
<1>4. Len(SubSeq(s, 1, n)) = n /\ \A i \in 1..n : SubSeq(s, 1, n)[i] = s[i]
  BY <1>1, <1>3
<1>5. ASSUME NEW x \in Recs(SubSeq(s, 1, n)) PROVE x \in {s[i] : i \in 1..n}
  BY <1>4, <1>5, Zenon DEF Recs
<1>6. ASSUME NEW x \in {s[i] : i \in 1..n} PROVE x \in Recs(SubSeq(s, 1, n))
  BY <1>4, <1>6, Zenon DEF Recs
<1> QED BY <1>5, <1>6, Zenon

LEMMA StoredFacts ==
    ASSUME FileTyped
    PROVE  /\ Recs(SubSeq(log, 1, synced)) = {log[i] : i \in 1..synced}
           /\ Recs(Stored) \subseteq Recs(log \o buf) /\ Recs(Stored) \subseteq Records
<1>1. log \in Seq(Records) /\ synced \in 0..Len(log) /\ Len(log) \in Nat
  BY Joined DEF FileTyped
<1>2. Recs(SubSeq(log, 1, synced)) = {log[i] : i \in 1..synced}
  BY <1>1, PrefixRecs
<1>3. \A i \in 1..synced : i \in 1..Len(log)
  BY <1>1
<1>4. Recs(SubSeq(log, 1, synced)) \subseteq Recs(log)
  BY <1>2, <1>3, Zenon DEF Recs
<1>5. Recs(log) \subseteq Recs(log \o buf)
  BY FileFacts, Zenon
<1>6. Recs(Stored) \subseteq Recs(log \o buf)
  BY <1>4, <1>5, Zenon DEF Stored
<1>7. Recs(log \o buf) \subseteq Records
  BY FileFacts, RecsTyped
<1> QED BY <1>2, <1>6, <1>7, Zenon

LEMMA StoredKept ==
    ASSUME Typed, Typed', DownInv, LockInv, OrphanInv, TailInv, LastInv, [Next]_vars, ~incident',
           \A r \in Rewriters : ~RenameFile(r), Policy = "always" \/ ~PowerLoss, NEW x \in Recs(Stored), x # Broken
    PROVE  x \in Recs(Stored)'
<1>1. FileTyped /\ log \in Seq(Records) /\ log \o buf \in Seq(Records) /\ Len(log) \in Nat /\ Len(buf) \in Nat /\ synced \in 0..Len(log)
  BY FileFacts, Joined DEF Typed, FileTyped
<1>2. log' \in Seq(Records') /\ synced' \in 0..Len(log')
  BY DEF Typed, FileTyped
<1>3. Recs(SubSeq(log', 1, synced')) = {log'[i] : i \in 1..synced'}
  BY <1>2, PrefixRecs
<1>4. ASSUME Policy = "always" PROVE \E i \in 1..synced : x = log[i]
  <2>1. x \in {log[i] : i \in 1..synced}
    BY <1>1, <1>4, StoredFacts, Zenon DEF Stored
  <2> QED BY <2>1, Zenon
<1>5. ASSUME synced' = Len(log'), log' \o buf' = log' PROVE Recs(Stored)' = Recs(log')
  <2>1. SubSeq(log', 1, Len(log')) = log'
    BY <1>2, SubSeqFull
  <2> QED BY <1>5, <2>1, Zenon DEF Stored
<1>6. ASSUME NEW n \in 0..Len(log), NEW i \in 1..n, x = log[i], Recs(SubSeq(log, 1, n)) \subseteq Recs(log'),
             synced' = Len(log'), log' \o buf' = log'
      PROVE  x \in Recs(Stored)'
  <2>1. x \in Recs(SubSeq(log, 1, n))
    BY <1>1, <1>6, PrefixRecs
  <2> QED BY <1>5, <1>6, <2>1, Zenon
<1>0. ASSUME NEW s \in Seq(Records), NEW e \in Records PROVE Recs(s) \subseteq Recs(Append(s, e))
  BY RecsAppend
<1>7. CASE ~PowerLoss /\ ~OperatorTruncates
  <2>1. /\ log' \in {log, log \o buf} /\ synced' \in {synced, Len(log')}
        /\ \/ log' \o buf' = log \o buf
           \/ \E c \in Conns : conn[c].pc = "append" /\ log' \o buf' = Append(log \o buf, conn[c].w)
    BY <1>7, FileGrows
  <2>2. CASE Policy = "always"
    <3>1. PICK i \in 1..synced : x = log[i]
      BY <1>4, <2>2, SMTT(30)
    <3>2. i \in 1..Len(log) /\ Len(log \o buf) = Len(log) + Len(buf) /\ (log \o buf)[i] = log[i]
      <4>1. i \in 1..Len(log)
        BY <1>1
      <4>2. buf \in Seq(Records)
        BY <1>1, FileFacts, SMTT(30)
      <4>3. /\ Len(log \o buf) = Len(log) + Len(buf)
            /\ \A j \in 1..(Len(log) + Len(buf)) : (log \o buf)[j] = IF j <= Len(log) THEN log[j] ELSE buf[j - Len(log)]
        BY <1>1, <4>2, ConcatProperties, SMTT(30)
      <4> QED BY <1>1, <4>1, <4>3, SMTT(30)
    <3>3. log'[i] = log[i] /\ Len(log') >= Len(log)
      BY <1>1, <2>1, <3>2
    <3>4. i \in 1..synced'
      <4>1. CASE synced' = synced
        BY <4>1
      <4>2. CASE synced' = Len(log')
        BY <1>1, <3>2, <3>3, <4>2
      <4> QED BY <2>1, <4>1, <4>2, Zenon
    <3> QED BY <1>3, <2>2, <3>1, <3>3, <3>4, Zenon DEF Stored
  <2>3. CASE Policy # "always"
    <3>1. x \in Recs(log \o buf)
      BY <2>3, Zenon DEF Stored
    <3>2. ASSUME NEW c \in Conns, conn[c].pc = "append" PROVE x \in Recs(Append(log \o buf, conn[c].w))
      <4>1. conn[c].w \in Records
        BY <3>2, Zenon DEF Typed, ConnTyped, Records
      <4> QED BY <1>0, <1>1, <3>1, <4>1, Zenon
    <3>3. x \in Recs(log' \o buf')
      BY <2>1, <3>1, <3>2, Zenon
    <3> QED BY <2>3, <3>3, Zenon DEF Stored
  <2> QED BY <2>2, <2>3, SMTT(30)
<1>8. CASE PowerLoss
  <2>1. PICK i \in 1..synced : x = log[i]
    BY <1>4, <1>8
  <2>2. PICK n \in synced..Len(log) : /\ n \in 0..Len(log) /\ log' \in {SubSeq(log, 1, n), Append(SubSeq(log, 1, n), Broken)}
                                      /\ log' \o buf' = log' /\ synced' = Len(log')
    BY <1>8, LossFile
  <2>3. i \in 1..n
    BY <1>1, <2>2
  <2>4. Recs(SubSeq(log, 1, n)) \subseteq Recs(log')
    <3>1. SubSeq(log, 1, n) \in Seq(Records) /\ Broken \in Records
      BY <1>1, <2>2, Prefix DEF Records
    <3>2. Recs(SubSeq(log, 1, n)) \subseteq Recs(Append(SubSeq(log, 1, n), Broken))
      BY <1>0, <3>1, Zenon
    <3> QED BY <2>2, <3>2, Zenon
  <2> QED BY <1>6, <2>1, <2>2, <2>3, <2>4, Zenon
<1>9. CASE OperatorTruncates
  <2>1. PICK n \in 0..Len(log) : /\ log' = SubSeq(log, 1, n) /\ log' \o buf' = log' /\ synced' = Len(log')
                                 /\ \A i \in 1..Len(log) : log[i] # Broken => i \in 1..n
    BY <1>9, CutFile, Zenon
  <2>2. x \in Recs(log)
    <3>1. buf = <<>>
      BY <1>9, Zenon DEF OperatorTruncates, DownInv, Down, Quiet
    <3>2. log \o buf = log
      BY <1>1, <3>1, Joined, Zenon
    <3> QED BY <1>1, <3>2, StoredFacts, Zenon
  <2>3. PICK i \in 1..Len(log) : x = log[i]
    BY <2>2, Zenon DEF Recs
  <2>4. i \in 1..n
    BY <2>1, <2>3, Zenon
  <2> QED BY <1>6, <2>1, <2>3, <2>4, Zenon
<1> QED BY <1>7, <1>8, <1>9, SMTT(30)

LEMMA BasedKept ==
    ASSUME Typed, DownInv, RewriteInv, OldInv, [Next]_vars, NEW x \in Recs(log \o buf), x # Broken, Based(x)
    PROVE  Based(x)'
<1>1. rw \in [Rewriters -> Jobs]
  BY DEF Typed, JobTyped
<1>2. ASSUME UNCHANGED <<rw, base>> PROVE Based(x)'
  BY <1>2, Zenon DEF Based
<1>3. ASSUME \A r \in Rewriters : rw'[r].pc \notin Mid PROVE Based(x)'
  BY <1>3, Zenon DEF Based
<1>4. ASSUME NEW r \in Rewriters, JobStep(r) \/ SpawnJob(r) PROVE Based(x)'
  <2>1. rw[r] \in Jobs /\ \A s \in Rewriters \ {r} : rw'[s] = rw[s]
    BY <1>1, <1>4, Zenon DEF JobStep, SpawnJob, Claim, WalkKey, LockLive, RenameFile, Reopen, Release, WalkFails,
         LiveFlushFails, RenameFails, ReopenFails
  <2>2. ASSUME base' = base, rw'[r].pc \in Mid => rw[r].pc \in Mid PROVE Based(x)'
    BY <2>1, <2>2, Zenon DEF Based
  <2>3. CASE \E k \in Keys : WalkKey(r, k)
    <3>1. base' = base /\ rw[r].pc \in Mid
      BY <2>3, Zenon DEF WalkKey, history, Mid
    <3> QED BY <2>2, <3>1
  <2>4. CASE Claim(r) /\ rewriting
    <3>1. rw'[r].pc = "idle" /\ base' = base
      BY <1>1, <2>4, IdleJobTyped, Zenon DEF Claim
    <3> QED BY <2>2, <3>1, Zenon DEF Mid
  <2>5. CASE Claim(r) /\ ~rewriting
    <3>1. base' = db /\ Running
      BY <2>5, Alive, Zenon DEF Claim
    <3>2. x[2] <= base'[x[1]]
      BY <3>1, Zenon DEF OldInv, FilesOld
    <3> QED BY <3>2, Zenon DEF Based
  <2>6. CASE Release(r)
    <3>1. rw'[r].pc = "idle" /\ rw[r].pc = "release"
      BY <1>1, <2>6, IdleJobTyped, Zenon DEF Release
    <3>2. \A s \in Rewriters \ {r} : rw[s].pc \notin Mid
      BY <3>1, Zenon DEF RewriteInv, Busy, Claimed, Mid
    <3> QED BY <1>3, <2>1, <3>1, <3>2, Zenon DEF Mid
  <2>7. CASE SpawnJob(r) \/ RenameFile(r) \/ LockLive(r)
    <3>1. base' = base /\ (rw'[r].pc \in {"claim", "reopen"} \/ rw[r].pc = "lock")
      BY <1>1, <2>1, <2>7 DEF SpawnJob, RenameFile, LockLive, history, Jobs
    <3> QED BY <2>2, <3>1, Zenon DEF Mid
  <2>8. CASE Reopen(r) \/ WalkFails(r) \/ LiveFlushFails(r) \/ RenameFails(r) \/ ReopenFails(r)
    <3>1. rw'[r].pc = "release" /\ base' = base
      BY <1>1, <2>8, ReleasedTyped, Zenon DEF Reopen, WalkFails, LiveFlushFails, RenameFails, ReopenFails, Released, history
    <3> QED BY <2>2, <3>1, Zenon DEF Mid
  <2> QED BY <1>4, <2>3, <2>4, <2>5, <2>6, <2>7, <2>8, Zenon DEF JobStep
<1>5. ASSUME NEW c \in Conns, ConnStep(c) \/ \E k \in Keys : Apply(c, k) PROVE UNCHANGED <<rw, base>>
  BY <1>5, Zenon DEF ConnStep, AppendBuffered, AppendLocked, AppendFsync, AppendFails, AddSize, Apply, history
<1>6. ASSUME EverysecTick \/ EverysecLast \/ EverysecSync \/ SyncFails \/ Shutdown \/ FinalSync \/ FinalSyncFails
             \/ Restart \/ OperatorTruncates \/ UNCHANGED vars
      PROVE  UNCHANGED <<rw, base>>
  BY <1>6, Zenon DEF EverysecTick, EverysecLast, EverysecSync, SyncFails, Shutdown, FinalSync, FinalSyncFails, Restart,
                     OperatorTruncates, vars, history
<1>7. CASE Exit \/ PowerLoss
  <2>1. \A r \in Rewriters : rw'[r].pc = "idle"
    BY <1>7, IdleJobTyped DEF Exit, PowerLoss, Gone
  <2> QED BY <1>3, <2>1, Zenon DEF Mid
<1> QED BY <1>2, <1>4, <1>5, <1>6, <1>7, Zenon DEF Next, Bgrewriteaof, SupervisorTick

LEMMA AnsweredTyped == Typed => Answered \subseteq Past
  BY Zenon DEF Typed, StoreTyped, ConnTyped, Answered

\* A write is answered after its append.
LEMMA AnsweredMoves ==
    ASSUME Typed, [Next]_vars, ~incident', NEW w \in Answered'
    PROVE  w \in Answered \/ \E c \in Conns : conn[c].w = w /\ (AppendBuffered(c) \/ AppendFsync(c))
<1>1. conn \in [Conns -> Connections]
  BY DEF Typed, ConnTyped
<1>2. ASSUME acked' \subseteq acked, \A c \in Conns : conn'[c].pc = "size" => conn'[c] = conn[c] PROVE w \in Answered
  BY <1>2, Zenon DEF Answered
<1>3. ASSUME NEW c \in Conns, ConnStep(c) \/ \E k \in Keys : Apply(c, k) PROVE w \in Answered \/ AppendBuffered(c) \/ AppendFsync(c)
  <2>1. conn[c] \in Connections /\ \A d \in Conns \ {c} : conn'[d] = conn[d]
    BY <1>1, <1>3, Zenon DEF ConnStep, AppendBuffered, AppendLocked, AppendFsync, AppendFails, AddSize, Apply
  <2>2. CASE \E k \in Keys : Apply(c, k)
    <3>1. acked' = acked /\ conn'[c].pc = "append"
      BY <1>1, <2>2 DEF Apply, history
    <3> QED BY <1>2, <2>1, <3>1, Zenon
  <2>3. CASE AppendLocked(c)
    <3>1. acked' = acked /\ conn'[c].pc = "fsync"
      BY <1>1, <2>1, <2>3 DEF AppendLocked, history, Connections
    <3> QED BY <1>2, <2>1, <3>1, Zenon
  <2>4. CASE AddSize(c)
    <3>1. acked' = acked \cup {conn[c].w} /\ conn[c].pc = "size" /\ conn'[c] = IdleConn
      BY <1>1, <2>4, Zenon DEF AddSize
    <3>2. IdleConn.pc # "size"
      BY DEF IdleConn
    <3> QED BY <2>1, <3>1, <3>2, Zenon DEF Answered
  <2>5. ~AppendFails(c)
    BY DEF AppendFails
  <2> QED BY <1>3, <2>2, <2>3, <2>4, <2>5, Zenon DEF ConnStep
<1>4. ASSUME NEW c \in Conns, AppendBuffered(c) \/ AppendFsync(c) PROVE w \in Answered \/ conn[c].w = w
  <2>1. conn[c] \in Connections /\ conn' = [conn EXCEPT ![c].pc = "size"] /\ acked' = acked
    BY <1>1, <1>4, Zenon DEF AppendBuffered, AppendFsync, history
  <2>2. conn'[c].w = conn[c].w /\ \A d \in Conns \ {c} : conn'[d] = conn[d]
    BY <1>1, <2>1 DEF Connections
  <2> QED BY <2>1, <2>2, Zenon DEF Answered
<1>5. ASSUME NEW r \in Rewriters, JobStep(r) \/ SpawnJob(r) PROVE w \in Answered
  <2>1. conn' = conn /\ acked' = acked
    BY <1>5, Zenon DEF JobStep, SpawnJob, Claim, WalkKey, LockLive, RenameFile, Reopen, Release, WalkFails, LiveFlushFails,
                       RenameFails, ReopenFails, history
  <2> QED BY <1>2, <2>1, Zenon
<1>6. CASE EverysecTick \/ EverysecLast \/ EverysecSync \/ SyncFails \/ Shutdown \/ FinalSync \/ FinalSyncFails
           \/ Restart \/ OperatorTruncates \/ UNCHANGED vars
  <2>1. conn' = conn /\ acked' = acked
    BY <1>6, Zenon DEF EverysecTick, EverysecLast, EverysecSync, SyncFails, Shutdown, FinalSync, FinalSyncFails, Restart,
                       OperatorTruncates, vars, history
  <2> QED BY <1>2, <2>1, Zenon
<1>7. CASE Exit \/ PowerLoss
  <2>1. acked' \subseteq acked /\ \A c \in Conns : conn'[c].pc = "idle"
    BY <1>7 DEF Exit, PowerLoss, Gone, IdleConn
  <2> QED BY <1>2, <2>1, Zenon
<1> QED BY <1>3, <1>4, <1>5, <1>6, <1>7, Zenon DEF Next, Bgrewriteaof, SupervisorTick

\* What a rewrite began with is in the file that it puts in place.
LEMMA CarriedOver ==
    ASSUME Typed, CarryInv, NEW r \in Rewriters, rw[r].pc = "rename", NEW x \in Past, x[2] <= base[x[1]]
    PROVE  Covered(x, rw[r].tmp)
<1>1. x[1] \in Keys /\ x[2] \in 1..next
  BY NotBroken
<1>2. next \in Nat /\ base[x[1]] \in 0..next
  BY <1>1, SMTT(30) DEF Typed, StoreTyped
<1>3. base[x[1]] # 0
  BY <1>1, <1>2
<1>4. Covered(<<x[1], base[x[1]]>>, rw[r].tmp)
  BY <1>1, <1>3, Zenon DEF CarryInv
<1>5. PICK i \in 1..Len(rw[r].tmp) : rw[r].tmp[i] # Broken /\ rw[r].tmp[i][1] = x[1] /\ rw[r].tmp[i][2] >= base[x[1]]
  BY <1>4, Zenon DEF Covered
<1>6. rw[r].tmp \in Seq(Past)
  BY JobFacts DEF Typed, JobTyped, Jobs
<1>7. rw[r].tmp[i] \in Past
  BY <1>6, ElementOfSeq
<1>8. rw[r].tmp[i][2] \in 1..next
  BY <1>7, NotBroken, SMTT(30)
<1>9. rw[r].tmp[i][2] >= x[2]
  BY <1>1, <1>2, <1>5, <1>8
<1> QED BY <1>5, <1>9, Zenon DEF Covered

LEMMA HeldSwap ==
    ASSUME Typed, DownInv, LockInv, RewriteInv, CarryInv, HeldInv, NEW r \in Rewriters, RenameFile(r)
    PROVE  HeldInv'
<1>1. /\ rw[r].pc = "rename" /\ log' = rw[r].tmp /\ synced' = Len(rw[r].tmp) /\ buf' = buf
      /\ lost' = lost \cup {log[i] : i \in {j \in 1..Len(log) : ~Covered(log[j], rw[r].tmp)}}
      /\ rw' = [rw EXCEPT ![r].pc = "reopen"] /\ UNCHANGED <<conn, acked, incident>>
  BY Zenon DEF RenameFile
<1>2. rw \in [Rewriters -> Jobs] /\ rw[r] \in Jobs /\ rw[r].tmp \in Seq(Past)
  BY JobFacts DEF Typed, JobTyped, Jobs
<1>3. buf = <<>> /\ log \o buf = log /\ FileTyped
  BY <1>1, Joined, Zenon DEF LockInv, Typed
<1>4. Stored' = rw[r].tmp
  <2>1. SubSeq(rw[r].tmp, 1, Len(rw[r].tmp)) = rw[r].tmp /\ rw[r].tmp \o <<>> = rw[r].tmp
    BY <1>2, SubSeqFull, ConcatEmptySeq
  <2> QED BY <1>1, <1>3, <2>1, Zenon DEF Stored
<1>5. \A s \in Rewriters : rw'[s].pc \notin Mid
  <2>1. rw'[r].pc = "reopen" /\ \A s \in Rewriters \ {r} : rw'[s] = rw[s]
    BY <1>1, <1>2 DEF Jobs
  <2>2. \A s \in Rewriters \ {r} : rw[s].pc \notin Mid
    BY <1>1, Zenon DEF RewriteInv, Busy, Claimed, Mid
  <2> QED BY <2>1, <2>2, Zenon DEF Mid
<1>6. Answered' = Answered
  BY <1>1, Zenon DEF Answered
<1> SUFFICES ASSUME ~incident, NEW w \in Answered, w \notin lost' PROVE Held(w, Stored)'
  BY <1>1, <1>6 DEF HeldInv
<1>7. w \in Past /\ w \notin lost
  BY <1>1, AnsweredTyped, Zenon
<1>8. PICK x \in Recs(Stored) : x # Broken /\ x[1] = w[1] /\ x[2] >= w[2] /\ (x = w \/ Based(x))
  BY <1>7, Zenon DEF HeldInv, Held
<1>9. x \in Recs(log) /\ x \in Records
  BY <1>3, StoredFacts, Zenon
<1>10. x \in Past
  BY <1>8, <1>9 DEF Records
<1>11. Covered(x, rw[r].tmp)
  <2>1. CASE x = w
    <3>1. PICK j \in 1..Len(log) : x = log[j]
      BY <1>9, Zenon DEF Recs
    <3> QED BY <1>1, <2>1, <3>1, Zenon
  <2>2. CASE Based(x)
    <3>1. x[2] <= base[x[1]]
      BY <1>1, <2>2, Zenon DEF Based, Mid
    <3> QED BY <1>1, <1>10, <3>1, CarriedOver
  <2> QED BY <1>8, <2>1, <2>2
<1>12. PICK y \in Recs(rw[r].tmp) : y # Broken /\ y[1] = x[1] /\ y[2] >= x[2]
  BY <1>11, Zenon DEF Covered, Recs
<1>13. y \in Past
  BY <1>2, RecsTyped
<1>14. y[1] = w[1]
  BY <1>8, <1>12, Zenon
<1>15. y[2] \in Int /\ x[2] \in Int /\ w[2] \in Int
  <2>1. \A z \in Past : z[2] \in Int
    BY NotBroken, SMTT(30) DEF Typed, StoreTyped
  <2> QED BY <1>7, <1>10, <1>13, <2>1, Zenon
<1>16. y[2] >= w[2]
  BY <1>8, <1>12, <1>15
<1>17. Based(y)'
  BY <1>5, Zenon DEF Based
<1> QED BY <1>4, <1>12, <1>14, <1>16, <1>17, Zenon DEF Held

LEMMA HeldStep ==
    ASSUME Typed, Typed', DownInv, LockInv, OrphanInv, RewriteInv, CarryInv, OldInv, TailInv, PendInv, LastInv, HeldInv,
           [Next]_vars
    PROVE  HeldInv'
<1>1. ASSUME NEW r \in Rewriters, RenameFile(r) PROVE HeldInv'
  BY <1>1, HeldSwap
<1>2. CASE \A r \in Rewriters : ~RenameFile(r)
  <2> SUFFICES ASSUME ~incident', NEW w \in Answered' PROVE w \in lost' \/ Held(w, Stored)'
    BY DEF HeldInv
  <2>1. FileTyped /\ ~incident
    BY IncidentStays, SMTT(30) DEF Typed
  <2>2. lost' = lost
    BY <1>2, Zenon DEF Next, ConnStep, AppendBuffered, AppendLocked, AppendFsync, AppendFails, AddSize, Apply, EverysecTick,
           EverysecLast, EverysecSync, SyncFails, Bgrewriteaof, SupervisorTick, JobStep, SpawnJob, Claim, WalkKey,
           LockLive, Reopen, Release, WalkFails, LiveFlushFails, RenameFails, ReopenFails, Shutdown, FinalSync,
           FinalSyncFails, Exit, PowerLoss, Restart, OperatorTruncates, vars, history
  <2>3. Policy = "always" \/ ~PowerLoss
    <3> SUFFICES ASSUME Policy # "always", PowerLoss PROVE FALSE
      OBVIOUS
    <3>1. acked' = {} /\ \A c \in Conns : conn'[c].pc = "idle"
      BY DEF PowerLoss, Gone, IdleConn
    <3> QED BY <3>1, Zenon DEF Answered
  <2>4. CASE w \in Answered /\ w \notin lost
    <3>1. PICK x \in Recs(Stored) : x # Broken /\ x[1] = w[1] /\ x[2] >= w[2] /\ (x = w \/ Based(x))
      BY <2>1, <2>4, Zenon DEF HeldInv, Held
    <3>2. x \in Recs(Stored)'
      BY <1>2, <2>3, <3>1, StoredKept, SMTT(30)
    <3>3. Based(x) => Based(x)'
      BY <2>1, <3>1, StoredFacts, BasedKept
    <3> QED BY <3>1, <3>2, <3>3, Zenon DEF Held
  <2>5. ASSUME w \in Past, w \in Recs(Stored)' PROVE Held(w, Stored)'
    <3>1. w # Broken /\ w[2] >= w[2]
      BY <2>5, NotBroken DEF Typed, StoreTyped
    <3> QED BY <2>5, <3>1, Zenon DEF Held
  <2>6. log' \in Seq(Records') /\ buf' \in Seq(Records')
    BY SeqMonotonic DEF Typed, FileTyped, Records
  <2>7. Recs(log' \o buf') = Recs(log') \cup Recs(buf')
    BY <2>6, RecsJoined
  <2>8. ASSUME NEW c \in Conns, conn[c].w = w, AppendBuffered(c) PROVE Held(w, Stored)'
    <3>1. Policy # "always" /\ conn[c].w \in Past
      BY <2>8, Zenon DEF AppendBuffered, Typed, ConnTyped
    <3>2. buf' = Append(buf, w) \/ buf' = <<w>>
      BY <2>8, Zenon DEF AppendBuffered
    <3>3. w \in Recs(Append(buf, w)) /\ w \in Recs(<<w>>)
      <4>1. buf \in Seq(Past)
        BY <2>1 DEF FileTyped
      <4>2. w \in Recs(Append(buf, w))
        BY <2>8, <3>1, <4>1, RecsAppend, SMTT(30)
      <4>3. 1 \in 1..Len(<<w>>) /\ <<w>>[1] = w
        OBVIOUS
      <4> QED BY <4>2, <4>3, Zenon DEF Recs
    <3>4. w \in Recs(Stored)'
      BY <2>7, <3>1, <3>2, <3>3, Zenon DEF Stored
    <3> QED BY <2>5, <2>8, <3>1, <3>4, Zenon
  <2>9. ASSUME NEW c \in Conns, conn[c].w = w, AppendFsync(c) PROVE Held(w, Stored)'
    <3>1. conn[c].pc = "fsync" /\ lock = c /\ Policy = "always" /\ w \in Past
      BY <2>9, Zenon DEF AppendFsync, LockInv, Typed, ConnTyped
    <3>2. ~orphan
      BY <2>1, <3>1, NamedFile, Zenon
    <3>3. log' = log \o buf /\ synced' = Len(log')
      BY <2>9, <3>2, Zenon DEF AppendFsync, FlushAndSync, Flush
    <3>4. w \in Recs(log')
      BY <2>1, <2>9, <3>1, <3>3, FileFacts, Zenon DEF PendInv
    <3>5. SubSeq(log', 1, Len(log')) = log'
      BY <2>6, SubSeqFull
    <3>6. w \in Recs(Stored)'
      BY <3>1, <3>3, <3>4, <3>5, Zenon DEF Stored
    <3> QED BY <2>5, <3>1, <3>6
  <2> QED BY <2>2, <2>4, <2>8, <2>9, AnsweredMoves, Zenon
<1> QED BY <1>1, <1>2

----------------------------------------------------------------------------
(* The theorems. *)

DurableInv == OldInv /\ OrderInv /\ TailInv /\ PendInv /\ LastInv /\ HeldInv
Basis == Typed /\ DownInv /\ LockInv /\ OrphanInv /\ RewriteInv /\ CarryInv /\ WholeInv

LEMMA BasisAlways == Spec => []Basis
  BY CarryAlways, WholeAlways, PTL DEF Basis

LEMMA DurableInit == Init => DurableInv
<1> SUFFICES ASSUME Init PROVE DurableInv
  OBVIOUS
<1>1. /\ \A c \in Conns : conn[c].pc = "idle"
      /\ \A r \in Rewriters : rw[r].pc = "idle"
      /\ log = <<>> /\ buf = <<>> /\ phase = "running" /\ acked = {}
  BY IdleJobTyped DEF Init, IdleConn
<1>2. log \o buf = <<>> /\ Len(<<>>) = 0 /\ 1..0 = {}
  BY <1>1
<1>3. Recs(log \o buf) = {} /\ Ordered(log \o buf) /\ TailInv
  BY <1>1, <1>2, Zenon DEF Recs, Ordered, TailInv
<1>4. OldInv
  BY <1>1, <1>3, Zenon DEF OldInv, FilesOld, PendingNewest, TmpOld, Mid
<1>5. Answered = {}
  BY <1>1, Zenon DEF Answered
<1>6. HeldInv
  BY <1>5, Zenon DEF HeldInv
<1>7. PendInv /\ LastInv
  BY <1>1, Zenon DEF PendInv, LastInv
<1> QED BY <1>3, <1>4, <1>6, <1>7, Zenon DEF DurableInv, OrderInv

LEMMA DurableStep ==
    ASSUME OneWriter, Basis, Basis', DurableInv, [Next]_vars
    PROVE  DurableInv'
<1> USE DEF Basis, DurableInv
<1>1. OldInv'
  <2>1. Running' => FilesOld' /\ PendingNewest' /\ TmpOld'
    BY FilesStep, PendingStep, TmpStep
  <2> QED BY <2>1, Zenon DEF OldInv
<1>2. OrderInv'
  BY OrderStep
<1>3. TailInv' /\ LastInv' /\ PendInv'
  BY TailStep, LastStep, PendStep
<1>4. HeldInv'
  BY HeldStep
<1> QED BY <1>1, <1>2, <1>3, <1>4

LEMMA DurableAlways == ASSUME OneWriter PROVE Spec => []DurableInv
<1>1. Basis /\ Basis' /\ DurableInv /\ [Next]_vars => DurableInv'
  BY DurableStep
<1> QED BY <1>1, BasisAlways, DurableInit, PTL DEF Spec

\* Under always, where each key has one writing connection, an answered write is on the
\* disk or superseded there by a later one of its key, whatever else runs, fails or loses
\* power, unless a rewrite dropped it or an append, a reopen or the final sync failed.
THEOREM AnsweredIsDurable == ASSUME OneWriter PROVE Spec => []DurableUnlessRewritten
<1>1. DurableInv => DurableUnlessRewritten
  <2> SUFFICES ASSUME HeldInv, Policy = "always", ~incident, NEW w \in acked, w \notin lost
               PROVE  Covered(w, SubSeq(log, 1, synced))
    BY DEF DurableInv, DurableUnlessRewritten
  <2>1. Held(w, SubSeq(log, 1, synced))
    BY Zenon DEF HeldInv, Answered, Stored
  <2> QED BY <2>1, Zenon DEF Held, Recs, Covered
<1> QED BY <1>1, DurableAlways, PTL

\* Where each key has one writing connection, a restart after a power loss (always) or a
\* graceful exit (any policy) gives every key its newest answered version or a later one,
\* a rewrite's losses and failed appends, reopens and final syncs apart.
THEOREM RestartLosesNothing == ASSUME OneWriter PROVE Spec => RestartRestores
<1> DEFINE A == phase # "running" /\ phase' = "running" /\ ~incident => \A w \in acked : db'[w[1]] >= w[2] \/ w \in lost
<1>1. ASSUME Basis, DurableInv, [Next]_vars, phase # "running", phase' = "running", ~incident, NEW w \in acked, w \notin lost
      PROVE  db'[w[1]] >= w[2]
  <2>1. Restart
    BY <1>1, PhaseMoves, ZenonT(60) DEF Basis, Exit, PowerLoss, OperatorTruncates, vars, Next, ConnStep, AppendBuffered,
           AppendLocked, AppendFsync, AppendFails, AddSize, Apply, EverysecTick, EverysecLast, EverysecSync, SyncFails,
           Bgrewriteaof, SupervisorTick, JobStep, SpawnJob, Claim, WalkKey, LockLive, RenameFile, Reopen, Release, WalkFails,
           LiveFlushFails, RenameFails, ReopenFails, Shutdown, FinalSync, FinalSyncFails
  <2>2. Typed /\ FileTyped /\ buf = <<>> /\ db' = Replay(log)
    BY <1>1, <2>1, Zenon DEF Basis, Typed, Restart, DownInv, Down, Quiet
  <2>3. log \o buf = log /\ Ordered(log)
    BY <1>1, <2>2, Joined, Zenon DEF DurableInv, OrderInv
  <2>4. PICK x \in Recs(Stored) : x # Broken /\ x[1] = w[1] /\ x[2] >= w[2]
    BY <1>1, Zenon DEF DurableInv, HeldInv, Answered, Held
  <2>5. x \in Recs(log) /\ x \in Records
    BY <2>2, <2>3, <2>4, StoredFacts, Zenon
  <2>6. x[2] <= Replay(log)[x[1]]
    BY <2>2, <2>3, <2>4, <2>5, ReplayNewest, SMTT(30)
  <2>7. x \in Past /\ w \in Past /\ (\A i \in 1..Len(log) : log[i] # Broken)
    <3>1. x \in Past
      BY <2>4, <2>5, Zenon DEF Records
    <3>2. w \in Past
      BY <1>1, <2>2, Zenon DEF Typed, StoreTyped
    <3>3. \A i \in 1..Len(log) : log[i] # Broken
      BY <1>1, <2>1, Zenon DEF Restart
    <3> QED BY <3>1, <3>2, <3>3
  <2>8. next \in Nat /\ x[2] \in 1..next /\ w[1] \in Keys /\ w[2] \in 1..next
    BY <2>2, <2>7, NotBroken, SMTT(30) DEF Typed, StoreTyped
  <2>9. Replay(log)[w[1]] \in 0..next
    BY <2>2, <2>7, <2>8, ReplayTyped, SMTT(30)
  <2> QED BY <2>2, <2>4, <2>6, <2>8, <2>9, SMTT(30)
<1>2. Basis /\ DurableInv /\ [Next]_vars => [A]_vars
  BY <1>1
<1> QED BY <1>2, BasisAlways, DurableAlways, PTL DEF Spec, RestartRestores
=============================================================================
