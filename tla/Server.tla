------------------------------- MODULE Server -------------------------------
(***************************************************************************)
(* The life of the server in src/main.rs: the accept loop with the limits   *)
(* of src/server.rs, one task per connection (handle_connection), signals,  *)
(* the drain, and the order of the shutdown.                                *)
(*                                                                          *)
(* What a client sends is counted in halves of commands, so that a read can *)
(* end in the middle of one.  One action of a task is what it does between  *)
(* two awaits; a task can be aborted at an await only.  The receivers of    *)
(* the shutdown channel hear a value only if they subscribed before it was  *)
(* sent (tokio::sync::watch).                                               *)
(***************************************************************************)
EXTENDS Integers, FiniteSets

CONSTANTS
    Conns,            \* connections, each used again when it is gone
    MaxConnections,   \* CONFIG.server.max_connections (not 0)
    RateLimit,        \* CONFIG.server.connection_rate_limit (not 0)
    BatchSize,        \* CONFIG.server.batch_size
    MaxHalves,        \* bound, per client, on the halves that are sent and not executed
    MaxClock          \* bound on the clock

ASSUME ServerAssumption ==
    /\ IsFiniteSet(Conns)
    /\ {MaxConnections, RateLimit, BatchSize} \subseteq Nat \ {0}
    /\ MaxHalves \in [Conns -> Nat] /\ MaxClock \in Nat

VARIABLES
    phase,     \* of main
    hears,     \* the accept loop subscribed before the signal
    shutdown,  \* the value of the shutdown channel
    force,     \* force_exit
    expired,   \* the drain deadline has passed
    aborted,   \* abort_all was called
    active,    \* ACTIVE_CONNECTIONS
    rate,      \* LAST_RATE_CHECK and CONNECTIONS_THIS_SECOND
    clock,     \* get_timestamp()
    accepted,  \* connections accepted in this second (history)
    timeout,   \* a connection_timeout is configured
    conn       \* the connections

vars == <<phase, hears, shutdown, force, expired, aborted, active, rate, clock, accepted, timeout, conn>>
signals == <<hears, shutdown, force>>
drain == <<expired, aborted>>
limits == <<rate, clock, accepted>>

\* A connection: the halves of commands on the wire and in the parser's buffer, the commands
\* executed and not answered (batch_count), whether its receiver hears a shutdown.
\* eof: the client closed; deaf: it no longer reads.
Gone == [pc |-> "gone", hears |-> TRUE, wire |-> 0, buffer |-> 0, batch |-> 0,
         eof |-> FALSE, deaf |-> FALSE]
Leave(c) == conn' = [conn EXCEPT ![c] = Gone]

At(c, p) == conn[c].pc = p

\* The tasks between the increment and the decrement of ACTIVE_CONNECTIONS.
Handlers == {"wait", "execute", "flush", "final", "failed"}
Running == {c \in Conns : conn[c].pc \in Handlers}
Tasks == {c \in Conns : conn[c].pc # "gone"}

Init ==
    /\ phase = "boot"
    /\ hears = FALSE /\ shutdown = FALSE /\ force = FALSE
    /\ expired = FALSE /\ aborted = FALSE
    /\ active = 0
    /\ rate = [last |-> 0, count |-> 0]
    /\ clock = 1
    /\ accepted = 0
    /\ timeout \in BOOLEAN
    /\ conn = [c \in Conns |-> Gone]

----------------------------------------------------------------------------
(* Clients and the operating system. *)

ClientSends(c) ==
    /\ ~At(c, "gone") /\ ~conn[c].eof
    /\ conn[c].wire + conn[c].buffer < MaxHalves[c]
    /\ conn' = [conn EXCEPT ![c].wire = @ + 1]
    /\ UNCHANGED <<phase, signals, drain, active, limits, timeout>>

ClientCloses(c) ==
    /\ ~At(c, "gone") /\ ~conn[c].eof
    /\ conn' = [conn EXCEPT ![c].eof = TRUE]
    /\ UNCHANGED <<phase, signals, drain, active, limits, timeout>>

ClientStopsReading(c) ==
    /\ ~At(c, "gone") /\ ~conn[c].eof /\ ~conn[c].deaf
    /\ conn' = [conn EXCEPT ![c].deaf = TRUE]
    /\ UNCHANGED <<phase, signals, drain, active, limits, timeout>>

\* The supervisor: the first signal begins the drain, the second cuts it short.
Signal ==
    /\ phase # "exited" /\ ~force
    /\ shutdown' = TRUE
    /\ force' = shutdown
    /\ UNCHANGED <<phase, hears, drain, active, limits, timeout, conn>>

Tick ==
    /\ clock < MaxClock
    /\ clock' = clock + 1
    /\ accepted' = 0
    /\ UNCHANGED <<phase, signals, drain, active, rate, timeout, conn>>

----------------------------------------------------------------------------
(* The accept loop. *)

\* shutdown_tx.subscribe(): a signal that came before is never seen by changed().
Subscribe ==
    /\ phase = "boot"
    /\ phase' = "accept"
    /\ hears' = ~shutdown
    /\ UNCHANGED <<shutdown, force, drain, active, limits, timeout, conn>>

\* check_rate_limit: its answer, and what it leaves behind.
RateAdmits == rate.last # clock \/ rate.count < RateLimit
\* (Bound: past the limit the count only stays above it.)
RateCheck == rate' = IF rate.last # clock THEN [last |-> clock, count |-> 1]
                     ELSE [rate EXCEPT !.count = IF @ > RateLimit THEN @ ELSE @ + 1]

\* A client connects; the arm of the select is taken unless a shutdown has been heard.
Accept ==
    /\ phase = "accept" /\ ~(shutdown /\ hears)
    /\ IF active >= MaxConnections THEN UNCHANGED <<phase, rate, accepted>>
       ELSE /\ RateCheck
            /\ IF RateAdmits THEN phase' = "spawn" /\ accepted' = accepted + 1
               ELSE UNCHANGED <<phase, accepted>>
    /\ UNCHANGED <<signals, drain, active, clock, timeout, conn>>

\* subscribe and spawn; with TLS the task begins with the handshake.
Spawn(c) ==
    /\ phase = "spawn"
    /\ At(c, "gone")
    /\ conn' = [conn EXCEPT ![c] = [Gone EXCEPT !.pc = "spawned", !.hears = ~shutdown]]
    /\ phase' = "accept"
    /\ UNCHANGED <<signals, drain, active, limits, timeout>>

----------------------------------------------------------------------------
(* A connection task. *)

\* The TLS handshake fails or takes longer than its 5 seconds.
HandshakeFails(c) ==
    /\ At(c, "spawned")
    /\ Leave(c)
    /\ UNCHANGED <<phase, signals, drain, active, limits, timeout>>

\* Mutant of Begin: the current value of the channel is not looked at.
BeginUnchecked(c) ==
    /\ At(c, "spawned")
    /\ conn' = [conn EXCEPT ![c].pc = "wait"]
    /\ active' = active + 1
    /\ UNCHANGED <<phase, signals, drain, limits, timeout>>

\* handle_connection begins; a shutdown that was signalled before sends it home at once.
Begin(c) ==
    /\ At(c, "spawned")
    /\ IF shutdown
       THEN Leave(c) /\ UNCHANGED active
       ELSE /\ conn' = [conn EXCEPT ![c].pc = "wait"]
            /\ active' = active + 1
    /\ UNCHANGED <<phase, signals, drain, limits, timeout>>

\* The biased select polls the shutdown first.
Stopped(c) == shutdown /\ conn[c].hears

ShutdownHeard(c) ==
    /\ At(c, "wait") /\ Stopped(c)
    /\ conn' = [conn EXCEPT ![c].pc = "final"]
    /\ UNCHANGED <<phase, signals, drain, active, limits, timeout>>

\* parse_command reads when its buffer holds no whole command: any part of what has arrived.
Read(c) ==
    /\ At(c, "wait") /\ ~Stopped(c)
    /\ conn[c].buffer < 2
    /\ \E n \in 1..conn[c].wire : conn' = [conn EXCEPT ![c].wire = @ - n, ![c].buffer = @ + n]
    /\ UNCHANGED <<phase, signals, drain, active, limits, timeout>>

\* Mutant of ReadEof: the test of the buffer is the wrong way round.
ReadEofWithRest(c) ==
    /\ At(c, "wait") /\ ~Stopped(c)
    /\ conn[c].eof /\ conn[c].wire = 0 /\ conn[c].buffer = 1
    /\ conn' = [conn EXCEPT ![c].pc = "final"]
    /\ UNCHANGED <<phase, signals, drain, active, limits, timeout>>

\* The end of the stream ends the loop if the buffer is empty.  With half a command in it
\* the read is repeated at once, with the same result.
ReadEof(c) ==
    /\ At(c, "wait") /\ ~Stopped(c)
    /\ conn[c].eof /\ conn[c].wire = 0 /\ conn[c].buffer = 0
    /\ conn' = [conn EXCEPT ![c].pc = "final"]
    /\ UNCHANGED <<phase, signals, drain, active, limits, timeout>>

ReadTimeout(c) ==
    /\ At(c, "wait") /\ ~Stopped(c) /\ timeout
    /\ conn[c].buffer < 2
    /\ conn' = [conn EXCEPT ![c].pc = "final"]
    /\ UNCHANGED <<phase, signals, drain, active, limits, timeout>>

Parse(c) ==
    /\ At(c, "wait") /\ ~Stopped(c)
    /\ conn[c].buffer >= 2
    /\ conn' = [conn EXCEPT ![c].pc = "execute"]
    /\ UNCHANGED <<phase, signals, drain, active, limits, timeout>>

\* Mutant of FlushDue: a batch that is not full waits for more.
FlushDueWhenFull(c) == conn[c].batch + 1 >= BatchSize

\* The replies are flushed when the batch is full or nothing is left in the buffer, not even
\* a part of a command.
FlushDue(c) == conn[c].batch + 1 >= BatchSize \/ conn[c].buffer = 2

\* execute_command; large replies are flushed early (should_flush).
Execute(c) ==
    /\ At(c, "execute")
    /\ \E early \in BOOLEAN :
         conn' = [conn EXCEPT ![c].buffer = @ - 2, ![c].batch = @ + 1,
                              ![c].pc = IF early \/ FlushDue(c) THEN "flush" ELSE "wait"]
    /\ UNCHANGED <<phase, signals, drain, active, limits, timeout>>

\* Mutant of Flush: a failed flush returns from the handler.
FlushReturns(c) ==
    /\ At(c, "flush")
    /\ \/ ~conn[c].deaf /\ conn' = [conn EXCEPT ![c].batch = 0, ![c].pc = "wait"]
       \/ conn[c].eof /\ Leave(c)
    /\ UNCHANGED <<phase, signals, drain, active, limits, timeout>>

\* flush waits until the client takes the bytes; it fails when the client is gone.
Flush(c) ==
    /\ At(c, "flush")
    /\ \/ ~conn[c].deaf /\ conn' = [conn EXCEPT ![c].batch = 0, ![c].pc = "wait"]
       \/ conn[c].eof /\ conn' = [conn EXCEPT ![c].pc = "final"]
    /\ UNCHANGED <<phase, signals, drain, active, limits, timeout>>

\* The last flush: it waits for the client, and fails when the client is gone.
FinalFlush(c) ==
    /\ At(c, "final") /\ conn[c].batch > 0
    /\ \/ ~conn[c].deaf /\ conn' = [conn EXCEPT ![c].batch = 0]
       \/ conn[c].eof /\ conn' = [conn EXCEPT ![c].pc = "failed"]
    /\ UNCHANGED <<phase, signals, drain, active, limits, timeout>>

\* Mutant of Finish: what is left in the writer is dropped with it.
FinishUnflushed(c) ==
    /\ conn[c].pc \in {"final", "failed"}
    /\ Leave(c)
    /\ active' = active - 1
    /\ UNCHANGED <<phase, signals, drain, limits, timeout>>

\* An error of the last flush is ignored; the decrement comes either way.
Finish(c) ==
    /\ (At(c, "final") /\ conn[c].batch = 0) \/ At(c, "failed")
    /\ Leave(c)
    /\ active' = active - 1
    /\ UNCHANGED <<phase, signals, drain, limits, timeout>>

\* abort_all takes effect at an await: the task ends without its last lines.
Abort(c) ==
    /\ aborted
    /\ conn[c].pc \in {"spawned", "wait", "flush", "final"}
    /\ Leave(c)
    /\ UNCHANGED <<phase, signals, drain, active, limits, timeout>>

----------------------------------------------------------------------------
(* The shutdown sequence of main. *)

\* changed() fires, and the listener is dropped.
StopAccepting ==
    /\ phase = "accept" /\ shutdown /\ hears
    /\ phase' = "drain"
    /\ UNCHANGED <<signals, drain, active, limits, timeout, conn>>

GraceExpires ==
    /\ phase = "drain" /\ ~expired
    /\ expired' = TRUE
    /\ UNCHANGED <<phase, signals, aborted, active, limits, timeout, conn>>

\* Mutant of DrainAborts: only the second signal cuts the drain short.
DrainAbortsOnSignal ==
    /\ phase = "drain" /\ force
    /\ aborted' = TRUE
    /\ phase' = "join"
    /\ UNCHANGED <<signals, expired, active, limits, timeout, conn>>

DrainAborts ==
    /\ phase = "drain" /\ (force \/ expired)
    /\ aborted' = TRUE
    /\ phase' = "join"
    /\ UNCHANGED <<signals, expired, active, limits, timeout, conn>>

DrainEmpty ==
    /\ phase = "drain" /\ Tasks = {}
    /\ phase' = "join"
    /\ UNCHANGED <<signals, drain, active, limits, timeout, conn>>

\* Mutant of Joined: aborted tasks are not waited for.
JoinedAtOnce ==
    /\ phase = "join"
    /\ phase' = "background"
    /\ UNCHANGED <<signals, drain, active, limits, timeout, conn>>

\* join_next until the set is empty.
Joined ==
    /\ phase = "join" /\ Tasks = {}
    /\ phase' = "background"
    /\ UNCHANGED <<signals, drain, active, limits, timeout, conn>>

\* The background tasks are awaited for 2 seconds each, then the log is synced, the final
\* snapshot is saved and main returns.
Successor == [background |-> "sync", sync |-> "save", save |-> "exited"]

FinalStep ==
    /\ phase \in DOMAIN Successor
    /\ phase' = Successor[phase]
    /\ UNCHANGED <<signals, drain, active, limits, timeout, conn>>

----------------------------------------------------------------------------

Client(c) == ClientSends(c) \/ ClientCloses(c) \/ ClientStopsReading(c)
Task(c) ==
    \/ HandshakeFails(c) \/ Begin(c) \/ ShutdownHeard(c)
    \/ Read(c) \/ ReadEof(c) \/ ReadTimeout(c) \/ Parse(c) \/ Execute(c) \/ Flush(c)
    \/ FinalFlush(c) \/ Finish(c) \/ Abort(c)
Main ==
    \/ Subscribe \/ StopAccepting \/ GraceExpires \/ DrainAborts \/ DrainEmpty \/ Joined \/ FinalStep
    \/ \E c \in Conns : Spawn(c)

Next == Signal \/ Tick \/ Accept \/ Main \/ \E c \in Conns : Client(c) \/ Task(c)

Spec == Init /\ [][Next]_vars

\* The runtime polls every task that can go on, main and its timers included; nothing is
\* assumed of clients, signals and the clock.
FairSpec == Spec /\ WF_vars(Main) /\ \A c \in Conns : WF_vars(Task(c))

----------------------------------------------------------------------------
(* Properties. *)

\* The limit test compares with a true number: as long as connections are accepted,
\* ACTIVE_CONNECTIONS is the number of handlers that run.  No way out of
\* handle_connection skips the decrement but an abort, which comes after the last accept.
CountExact == ~aborted => active = Cardinality(Running)

\* At most connection_rate_limit connections are accepted in one second.
RateHeld == accepted <= RateLimit

\* A handler that ends by itself has answered every command it executed, in whatever
\* state of its batch the shutdown, the timeout or the end of the stream found it, unless
\* its client was gone.
ExecutedAnswered ==
    [][\A c \in Conns : ~At(c, "gone") /\ conn'[c].pc = "gone" /\ conn[c].batch > 0 =>
                           conn[c].eof \/ aborted]_vars

\* docs/FEATURES.md:125: "handlers finish their current command and exit on the next read":
\* no connection begins another command after the signal, also none that was accepted
\* while the signal arrived and whose receiver will not hear it.
NoNewWork == [][\A c \in Conns : At(c, "wait") /\ conn'[c].pc = "execute" => ~shutdown]_vars

\* When the log is synced for the last time and the final snapshot is taken, no handler is
\* left that could still write.
QuietAtExit == phase \in {"sync", "save", "exited"} => Tasks = {}

\* A signal ends in an exit, whatever the clients do, unless it came before the accept loop
\* subscribed to the channel: then nobody hears it.
ShutdownCompletes == (shutdown /\ hears) ~> (phase = "exited")

\* The slot of a client that closed is given back, unless the client left half a command
\* behind and no connection_timeout is configured: then its task reads for ever.
SlotReleased ==
    \A c \in Conns :
        (conn[c].eof /\ (timeout \/ (conn[c].wire + conn[c].buffer) % 2 = 0)) ~> At(c, "gone")

\* An executed command is answered in the end if its client reads, unless the client has sent
\* only a part of the next command and waits: a reply is withheld as long as there is a
\* part of a command in the buffer.
AnsweredInTheEnd ==
    \A c \in Conns :
        conn[c].batch > 0 ~>
            \/ conn[c].batch = 0 \/ conn[c].deaf
            \/ conn[c].wire = 0 /\ conn[c].buffer = 1
=============================================================================
