--------------------------- MODULE FuzzySnapshot ---------------------------
(***************************************************************************)
(* What saving and loading promise together, without threads, flag,         *)
(* temporary file or header: there is a store, one published snapshot, and  *)
(* at most one save at a time.  A save is known by the moment and the store *)
(* it began with; what it publishes is fuzzy within that window.  Snapshot  *)
(* implements this specification.                                           *)
(***************************************************************************)
EXTENDS Integers

CONSTANTS
    Keys,      \* the keys of the store
    MaxVer,    \* bound on the versions written to a key
    MaxClock   \* bound on the clock

VARIABLES
    db,        \* key -> [ver, exp]
    clock,     \* the time
    disk,      \* the published snapshot: a function from the saved keys to entries
    saves,     \* the save that is running, if any: when and with which store it began
    up,        \* whether the process is there
    partial    \* whether this process failed to load all of it

vars == <<db, clock, disk, saves, up, partial>>

Never == MaxClock + 1
Entries == [ver: 0..MaxVer, exp: 0..Never]
Absent == [ver |-> 0, exp |-> 0]
Expired(e, t) == t >= e.exp

Init ==
    /\ db = [k \in Keys |-> Absent]
    /\ clock = 1
    /\ disk = [k \in {} |-> Absent]
    /\ saves = {}
    /\ up = TRUE
    /\ partial = FALSE

Write(k) ==
    /\ up
    /\ \E x \in 0..Never : db' = [db EXCEPT ![k] = [ver |-> @.ver + 1, exp |-> x]]
    /\ UNCHANGED <<clock, disk, saves, up, partial>>

Tick ==
    /\ clock' = clock + 1
    /\ UNCHANGED <<db, disk, saves, up, partial>>

BeginSave ==
    /\ up
    /\ saves = {}
    /\ saves' = {[since |-> clock, base |-> db]}
    /\ UNCHANGED <<db, clock, disk, up, partial>>

\* What snapshot d may say of key k when save s publishes it: a value the key has had since
\* the save began, or nothing if the key was expired then or has been written meanwhile.
Faithful(s, d, k) ==
    IF k \in DOMAIN d
    THEN /\ d[k].ver \in s.base[k].ver..db[k].ver
         /\ ~Expired(d[k], s.since)
    ELSE Expired(s.base[k], s.since) \/ db[k].ver > s.base[k].ver

Publish ==
    /\ up
    /\ \E s \in saves : \A k \in Keys : Faithful(s, disk', k)
    /\ DOMAIN disk' \subseteq Keys
    /\ saves' = {}
    /\ UNCHANGED <<db, clock, up, partial>>

GiveUp ==
    /\ saves' = {}
    /\ UNCHANGED <<db, clock, disk, up, partial>>

Stop ==
    /\ up' = FALSE /\ partial' = FALSE
    /\ saves' = {}
    /\ UNCHANGED <<db, clock, disk>>

\* The store with the entries of S as the snapshot has them; of an entry that has expired
\* meanwhile only the version is kept.
Restored(S) ==
    [k \in Keys |-> IF k \notin S THEN Absent
                    ELSE IF Expired(disk[k], clock) THEN [disk[k] EXCEPT !.exp = 0]
                    ELSE disk[k]]

\* A restart gives the whole snapshot back.
Load ==
    /\ ~up
    /\ up' = TRUE /\ partial' = FALSE
    /\ db' = Restored(DOMAIN disk)
    /\ UNCHANGED <<clock, disk, saves>>

\* A restart that fails to read it goes on with a part.
LoadPart ==
    /\ ~up
    /\ up' = TRUE /\ partial' = TRUE
    /\ \E S \in SUBSET DOMAIN disk : db' = Restored(S)
    /\ UNCHANGED <<clock, disk, saves>>

Next == (\E k \in Keys : Write(k)) \/ Tick \/ BeginSave \/ Publish \/ GiveUp \/ Stop \/ Load \/ LoadPart

Spec == Init /\ [][Next]_vars
=============================================================================
