---------------------------- MODULE Server_proofs ----------------------------
(***************************************************************************)
(* Proofs about Server for any number of connections and any limits: the    *)
(* connection count, the rate limit, the quiet at the exit, and that a      *)
(* signal neither lets new work begin nor loses a reply.                    *)
(***************************************************************************)
EXTENDS Server, FiniteSetTheorems, TLAPS

Places == {"gone", "spawned", "wait", "execute", "flush", "final", "failed"}
Connections == [pc: Places, hears: BOOLEAN, wire: Int, buffer: Int, batch: Int, eof: BOOLEAN, deaf: BOOLEAN]

\* What is true of one connection in every state: a handler that runs hears the shutdown,
\* a task that does not hear it came after it; nothing is unanswered before the first
\* command; only a flush to a client that is gone fails.
ConnInv(c) ==
    /\ conn[c] \in Connections
    /\ conn[c].pc # "spawned" => conn[c].hears
    /\ ~conn[c].hears => shutdown
    /\ conn[c].pc \in {"gone", "spawned"} => conn[c].batch = 0
    /\ conn[c].pc = "failed" => conn[c].eof

TasksInv ==
    /\ conn \in [Conns -> Connections]
    /\ shutdown \in BOOLEAN
    /\ \A c \in Conns : ConnInv(c)

LEMMA GoneType == Gone \in Connections
  BY DEF Gone, Connections, Places

LEMMA ConnFacts ==
    ASSUME NEW r \in Connections
    PROVE  /\ r.pc \in Places /\ r.hears \in BOOLEAN /\ r.eof \in BOOLEAN /\ r.deaf \in BOOLEAN
           /\ r.wire \in Int /\ r.buffer \in Int /\ r.batch \in Int
  BY DEF Connections

\* A step of one connection: the others keep what is true of them.
LEMMA OneConn ==
    ASSUME TasksInv, NEW c \in Conns, NEW r \in Connections, conn' = [conn EXCEPT ![c] = r], shutdown' = shutdown,
           r.pc # "spawned" => r.hears, ~r.hears => shutdown,
           r.pc \in {"gone", "spawned"} => r.batch = 0, r.pc = "failed" => r.eof
    PROVE  TasksInv'
<1>1. conn'[c] = r /\ \A d \in Conns \ {c} : conn'[d] = conn[d]
  BY DEF TasksInv
<1> QED BY <1>1 DEF TasksInv, ConnInv

LEMMA LeaveKeeps ==
    ASSUME TasksInv, NEW c \in Conns, Leave(c), shutdown' = shutdown
    PROVE  TasksInv'
<1>1. Gone.pc = "gone" /\ Gone.hears = TRUE /\ Gone.batch = 0
  BY DEF Gone
<1> QED BY <1>1, GoneType, OneConn, Zenon DEF Leave

LEMMA ClientKeeps ==
    ASSUME TasksInv, NEW c \in Conns, Client(c)
    PROVE  TasksInv'
<1>1. conn[c] \in Connections /\ ConnInv(c)
  BY DEF TasksInv
<1>2. CASE ClientSends(c)
  <2> DEFINE r == [conn[c] EXCEPT !.wire = @ + 1]
  <2>1. r \in Connections /\ r.pc = conn[c].pc /\ r.hears = conn[c].hears /\ r.batch = conn[c].batch /\ r.eof = conn[c].eof
    BY <1>1 DEF Connections
  <2>2. conn' = [conn EXCEPT ![c] = r] /\ shutdown' = shutdown
    BY <1>2 DEF ClientSends, signals
  <2> HIDE DEF r
  <2> QED BY <1>1, <2>1, <2>2, OneConn, Zenon DEF ConnInv
<1>3. CASE ClientCloses(c)
  <2> DEFINE r == [conn[c] EXCEPT !.eof = TRUE]
  <2>1. r \in Connections /\ r.pc = conn[c].pc /\ r.hears = conn[c].hears /\ r.batch = conn[c].batch /\ r.eof = TRUE
    BY <1>1, Zenon DEF Connections
  <2>2. conn' = [conn EXCEPT ![c] = r] /\ shutdown' = shutdown
    BY <1>3 DEF ClientCloses, signals
  <2> HIDE DEF r
  <2> QED BY <1>1, <2>1, <2>2, OneConn, Zenon DEF ConnInv
<1>4. CASE ClientStopsReading(c)
  <2> DEFINE r == [conn[c] EXCEPT !.deaf = TRUE]
  <2>1. r \in Connections /\ r.pc = conn[c].pc /\ r.hears = conn[c].hears /\ r.batch = conn[c].batch /\ r.eof = conn[c].eof
    BY <1>1, Zenon DEF Connections
  <2>2. conn' = [conn EXCEPT ![c] = r] /\ shutdown' = shutdown
    BY <1>4 DEF ClientStopsReading, signals
  <2> HIDE DEF r
  <2> QED BY <1>1, <2>1, <2>2, OneConn, Zenon DEF ConnInv
<1> QED BY <1>2, <1>3, <1>4 DEF Client

\* A handler that runs and goes on running.
LEMMA HandlerMoves ==
    ASSUME TasksInv, NEW c \in Conns, conn[c].pc \in Handlers, NEW r \in Connections,
           conn' = [conn EXCEPT ![c] = r], shutdown' = shutdown,
           r.pc \in Handlers, r.hears = conn[c].hears, r.pc = "failed" => r.eof
    PROVE  TasksInv'
<1>1. conn[c].hears /\ r.hears
  BY DEF TasksInv, ConnInv, Handlers
<1> QED BY <1>1, OneConn, Zenon DEF Handlers

LEMMA TaskKeeps ==
    ASSUME TasksInv, NEW c \in Conns, Task(c)
    PROVE  TasksInv'
<1>1. conn[c] \in Connections /\ ConnInv(c)
  BY DEF TasksInv
<1>2. ASSUME NEW p \in Handlers, p # "failed", conn[c].pc \in Handlers, conn' = [conn EXCEPT ![c].pc = p],
             shutdown' = shutdown
      PROVE  TasksInv'
  <2> DEFINE r == [conn[c] EXCEPT !.pc = p]
  <2>1. r \in Connections /\ r.pc = p /\ r.hears = conn[c].hears
    BY <1>1 DEF Connections, Handlers, Places
  <2>2. conn' = [conn EXCEPT ![c] = r]
    BY <1>2
  <2> HIDE DEF r
  <2> QED BY <1>2, <2>1, <2>2, HandlerMoves, Zenon
<1>3. CASE HandshakeFails(c) \/ Finish(c) \/ Abort(c)
  BY <1>3, LeaveKeeps DEF HandshakeFails, Finish, Abort, signals
<1>4. CASE Begin(c)
  <2>1. CASE shutdown
    BY <1>4, <2>1, LeaveKeeps DEF Begin, signals
  <2>2. CASE ~shutdown
    <3> DEFINE r == [conn[c] EXCEPT !.pc = "wait"]
    <3>1. r \in Connections /\ r.pc = "wait" /\ r.hears = conn[c].hears
      BY <1>1 DEF Connections, Places
    <3>2. conn' = [conn EXCEPT ![c] = r] /\ shutdown' = shutdown
      BY <1>4, <2>2 DEF Begin, signals
    <3>3. r.hears
      BY <1>1, <2>2, <3>1 DEF ConnInv, Connections
    <3> HIDE DEF r
    <3> QED BY <3>1, <3>2, <3>3, OneConn, Zenon
  <2> QED BY <2>1, <2>2
<1>5. CASE ShutdownHeard(c) \/ ReadEof(c) \/ ReadTimeout(c) \/ Parse(c)
  BY <1>2, <1>5 DEF ShutdownHeard, ReadEof, ReadTimeout, Parse, At, Handlers, signals
<1>6. CASE Read(c)
  <2>1. PICK n \in 1..conn[c].wire : conn' = [conn EXCEPT ![c].wire = @ - n, ![c].buffer = @ + n]
    BY <1>6, Zenon DEF Read
  <2> DEFINE q == [conn[c] EXCEPT !.wire = @ - n]
             r == [q EXCEPT !.buffer = @ + n]
  <2>2. conn' = [conn EXCEPT ![c] = r] /\ conn[c].pc = "wait" /\ shutdown' = shutdown
    BY <1>6, <2>1 DEF Read, At, signals, TasksInv, Connections
  <2>3. q \in Connections /\ q.pc = conn[c].pc /\ q.hears = conn[c].hears
    BY <1>1 DEF Connections
  <2> HIDE DEF q
  <2>4. r \in Connections /\ r.pc = q.pc /\ r.hears = q.hears
    BY <2>3 DEF Connections
  <2> HIDE DEF r
  <2> QED BY <2>2, <2>3, <2>4, HandlerMoves, Zenon DEF Handlers
<1>7. CASE Execute(c)
  <2>1. PICK p \in {"flush", "wait"} :
          conn' = [conn EXCEPT ![c].buffer = @ - 2, ![c].batch = @ + 1, ![c].pc = p]
    BY <1>7, Zenon DEF Execute
  <2> DEFINE q == [conn[c] EXCEPT !.buffer = @ - 2]
             u == [q EXCEPT !.batch = @ + 1]
             r == [u EXCEPT !.pc = p]
  <2>2. conn' = [conn EXCEPT ![c] = r] /\ conn[c].pc = "execute" /\ shutdown' = shutdown
    BY <1>7, <2>1 DEF Execute, At, signals, TasksInv, Connections
  <2>3. q \in Connections /\ q.hears = conn[c].hears
    BY <1>1 DEF Connections
  <2> HIDE DEF q
  <2>4. u \in Connections /\ u.hears = q.hears
    BY <2>3 DEF Connections
  <2> HIDE DEF u
  <2>5. r \in Connections /\ r.pc = p /\ r.hears = u.hears
    BY <2>4 DEF Connections, Places
  <2> HIDE DEF r
  <2> QED BY <2>2, <2>3, <2>4, <2>5, HandlerMoves, Zenon DEF Handlers
<1>8. CASE Flush(c) \/ FinalFlush(c)
  <2>1. conn[c].pc \in Handlers /\ shutdown' = shutdown
    BY <1>8 DEF Flush, FinalFlush, At, Handlers, signals
  <2>2. CASE conn' = [conn EXCEPT ![c].batch = 0, ![c].pc = "wait"]
    <3> DEFINE q == [conn[c] EXCEPT !.batch = 0]
               r == [q EXCEPT !.pc = "wait"]
    <3>1. conn' = [conn EXCEPT ![c] = r]
      BY <2>2, Zenon DEF TasksInv, Connections
    <3>2. q \in Connections /\ q.hears = conn[c].hears
      BY <1>1 DEF Connections
    <3> HIDE DEF q
    <3>3. r \in Connections /\ r.pc = "wait" /\ r.hears = q.hears
      BY <3>2 DEF Connections, Places
    <3> HIDE DEF r
    <3> QED BY <2>1, <3>1, <3>2, <3>3, HandlerMoves, Zenon DEF Handlers
  <2>3. CASE conn' = [conn EXCEPT ![c].batch = 0] /\ conn[c].pc = "final"
    <3> DEFINE r == [conn[c] EXCEPT !.batch = 0]
    <3>1. r \in Connections /\ r.pc = "final" /\ r.hears = conn[c].hears /\ conn' = [conn EXCEPT ![c] = r]
      BY <1>1, <2>3 DEF Connections
    <3> HIDE DEF r
    <3> QED BY <2>1, <3>1, HandlerMoves, Zenon DEF Handlers
  <2>4. CASE conn' = [conn EXCEPT ![c].pc = "final"]
    BY <1>2, <2>1, <2>4 DEF Handlers
  <2>5. CASE conn[c].eof /\ conn' = [conn EXCEPT ![c].pc = "failed"]
    <3> DEFINE r == [conn[c] EXCEPT !.pc = "failed"]
    <3>1. r \in Connections /\ r.pc = "failed" /\ r.eof = conn[c].eof /\ r.hears = conn[c].hears
          /\ conn' = [conn EXCEPT ![c] = r]
      BY <1>1, <2>5, Zenon DEF Connections, Places
    <3> HIDE DEF r
    <3> QED BY <2>1, <2>5, <3>1, HandlerMoves, Zenon DEF Handlers
  <2> QED BY <1>8, <2>2, <2>3, <2>4, <2>5 DEF Flush, FinalFlush, At
<1> QED BY <1>3, <1>4, <1>5, <1>6, <1>7, <1>8 DEF Task

LEMMA SpawnKeeps ==
    ASSUME TasksInv, NEW c \in Conns, Spawn(c)
    PROVE  TasksInv'
<1> DEFINE q == [Gone EXCEPT !.pc = "spawned"]
           r == [q EXCEPT !.hears = ~shutdown]
<1>1. conn' = [conn EXCEPT ![c] = r] /\ shutdown' = shutdown
  BY DEF Spawn, signals
<1>2. q \in Connections /\ q.pc = "spawned" /\ q.batch = 0
  <2>1. Gone.batch = 0
    BY DEF Gone
  <2> QED BY <2>1, GoneType DEF Connections, Places
<1> HIDE DEF q
<1>3. ASSUME NEW h \in BOOLEAN
      PROVE  LET f == [q EXCEPT !.hears = h]
             IN f \in Connections /\ f.pc = q.pc /\ f.hears = h /\ f.batch = q.batch
  BY <1>2 DEF Connections
<1>4. r \in Connections /\ r.pc = q.pc /\ r.hears = (~shutdown) /\ r.batch = q.batch
  <2>1. (~shutdown) \in BOOLEAN
    OBVIOUS
  <2> QED BY <1>3, <2>1, Zenon
<1> HIDE DEF r
<1> QED BY <1>1, <1>2, <1>4, OneConn, Zenon DEF TasksInv

\* The steps of main and of the system leave the connections alone.
LEMMA MainSteps ==
    ASSUME Signal \/ Tick \/ Accept \/ Subscribe \/ StopAccepting \/ GraceExpires \/ DrainAborts
             \/ DrainEmpty \/ Joined \/ FinalStep
    PROVE  conn' = conn /\ active' = active /\ (shutdown' = shutdown \/ shutdown' = TRUE)
  BY DEF Signal, Tick, Accept, Subscribe, StopAccepting, GraceExpires, DrainAborts, DrainEmpty, Joined,
         FinalStep, signals

LEMMA TasksStep == TasksInv /\ [Next]_vars => TasksInv'
<1> SUFFICES ASSUME TasksInv, [Next]_vars PROVE TasksInv'
  OBVIOUS
<1>1. CASE conn' = conn /\ (shutdown' = shutdown \/ shutdown' = TRUE)
  BY <1>1, Zenon DEF TasksInv, ConnInv
<1> QED BY <1>1, MainSteps, SpawnKeeps, ClientKeeps, TaskKeeps, Zenon DEF Next, Main, vars

LEMMA TasksAlways == Spec => []TasksInv
<1>1. Init => TasksInv
  <2> SUFFICES ASSUME Init PROVE TasksInv
    OBVIOUS
  <2>1. Gone.pc = "gone" /\ Gone.hears = TRUE /\ Gone.batch = 0
    BY DEF Gone
  <2> QED BY <2>1, GoneType, Zenon DEF Init, TasksInv, ConnInv
<1> QED BY <1>1, TasksStep, PTL DEF Spec
----------------------------------------------------------------------------
(* What a signal may not do. *)

\* A connection changes by its own steps only.
LEMMA OwnSteps ==
    ASSUME TasksInv, [Next]_vars, NEW c \in Conns, conn'[c] # conn[c]
    PROVE  Client(c) \/ Task(c) \/ Spawn(c)
<1>1. ASSUME NEW d \in Conns, d # c, Client(d) \/ Task(d) \/ Spawn(d) PROVE FALSE
  <2>1. conn \in [Conns -> Connections]
    BY DEF TasksInv
  <2>2. CASE Client(d)
    BY <1>1, <2>1, <2>2 DEF Client, ClientSends, ClientCloses, ClientStopsReading
  <2>3. CASE Task(d)
    BY <1>1, <2>1, <2>3, Zenon DEF Task, HandshakeFails, Begin, ShutdownHeard, Read, ReadEof, ReadTimeout, Parse, Execute,
                            Flush, FinalFlush, Finish, Abort, Leave
  <2>4. CASE Spawn(d)
    BY <1>1, <2>1, <2>4 DEF Spawn
  <2> QED BY <1>1, <2>2, <2>3, <2>4
<1> QED BY <1>1, MainSteps, Zenon DEF Next, Main, vars

\* The pc of a connection after a step of its task.
LEMMA PlaceAfter ==
    ASSUME TasksInv, NEW c \in Conns, Client(c) \/ Task(c) \/ Spawn(c)
    PROVE  /\ conn[c].pc = "wait" /\ conn'[c].pc = "execute" => ~Stopped(c)
           /\ conn[c].pc # "gone" /\ conn'[c].pc = "gone" => HandshakeFails(c) \/ Begin(c) \/ Finish(c) \/ Abort(c)
<1>1. conn \in [Conns -> Connections] /\ conn[c] \in Connections
  BY DEF TasksInv
<1>2. CASE Client(c)
  <2>1. conn'[c].pc = conn[c].pc
    BY <1>1, <1>2 DEF Client, ClientSends, ClientCloses, ClientStopsReading, Connections
  <2> QED BY <2>1
<1>3. CASE Spawn(c)
  BY <1>1, <1>3 DEF Spawn, Gone, At
<1>4. CASE HandshakeFails(c) \/ Begin(c) \/ Finish(c) \/ Abort(c)
  BY <1>1, <1>4 DEF HandshakeFails, Begin, Finish, Abort, Leave, Gone, At
<1>5. CASE ShutdownHeard(c) \/ ReadEof(c) \/ ReadTimeout(c)
  <2>1. conn'[c].pc = "final"
    BY <1>1, <1>5 DEF ShutdownHeard, ReadEof, ReadTimeout, Connections
  <2> QED BY <2>1
<1>6. CASE Parse(c)
  <2>1. conn'[c].pc = "execute" /\ ~Stopped(c)
    BY <1>1, <1>6 DEF Parse, Connections
  <2> QED BY <2>1
<1>7. CASE Read(c)
  <2>1. conn'[c].pc = conn[c].pc
    BY <1>1, <1>7 DEF Read, Connections
  <2> QED BY <2>1
<1>8. CASE Execute(c) \/ Flush(c) \/ FinalFlush(c)
  <2>1. conn[c].pc # "wait" /\ conn[c].pc # "gone"
    BY <1>8 DEF Execute, Flush, FinalFlush, At
  <2>2. conn'[c].pc # "gone"
    <3>1. CASE Execute(c)
      BY <1>1, <3>1 DEF Execute, Connections
    <3>2. CASE Flush(c)
      BY <1>1, <3>2 DEF Flush, Connections
    <3>3. CASE FinalFlush(c)
      BY <1>1, <2>1, <3>3 DEF FinalFlush, Connections
    <3> QED BY <1>8, <3>1, <3>2, <3>3
  <2> QED BY <2>1, <2>2
<1> QED BY <1>2, <1>3, <1>4, <1>5, <1>6, <1>7, <1>8 DEF Task

\* After the signal no connection begins another command, whenever it was accepted.
THEOREM NoWorkAfterSignal == Spec => NoNewWork
<1> DEFINE A == \A c \in Conns : At(c, "wait") /\ conn'[c].pc = "execute" => ~shutdown
<1>1. TasksInv /\ [Next]_vars => A
  <2> SUFFICES ASSUME TasksInv, [Next]_vars, NEW c \in Conns, conn[c].pc = "wait", conn'[c].pc = "execute"
               PROVE  ~shutdown
    BY DEF At
  <2>1. ~Stopped(c)
    BY OwnSteps, PlaceAfter
  <2>2. conn[c].hears
    BY DEF TasksInv, ConnInv
  <2> QED BY <2>1, <2>2 DEF Stopped
<1>2. TasksInv /\ [Next]_vars => [A]_vars
  BY <1>1
<1> QED BY <1>2, TasksAlways, PTL DEF Spec, NoNewWork

\* A handler that is not aborted answers what it has executed before it ends, if the
\* client is there.
THEOREM RepliesNotDropped == Spec => ExecutedAnswered
<1> DEFINE A == \A c \in Conns : ~At(c, "gone") /\ conn'[c].pc = "gone" /\ conn[c].batch > 0 =>
                                    conn[c].eof \/ aborted
<1>1. TasksInv /\ [Next]_vars => A
  <2> SUFFICES ASSUME TasksInv, [Next]_vars, NEW c \in Conns, conn[c].pc # "gone", conn'[c].pc = "gone",
                      conn[c].batch > 0
               PROVE  conn[c].eof \/ aborted
    BY DEF At
  <2>1. HandshakeFails(c) \/ Begin(c) \/ Finish(c) \/ Abort(c)
    BY OwnSteps, PlaceAfter
  <2>2. ConnInv(c) /\ conn[c].batch # 0
    BY ConnFacts DEF TasksInv
  <2>3. CASE HandshakeFails(c) \/ Begin(c)
    BY <2>2, <2>3 DEF HandshakeFails, Begin, At, ConnInv
  <2>4. CASE Finish(c)
    BY <2>2, <2>4 DEF Finish, At, ConnInv
  <2>5. CASE Abort(c)
    BY <2>5 DEF Abort
  <2> QED BY <2>1, <2>3, <2>4, <2>5
<1>2. TasksInv /\ [Next]_vars => [A]_vars
  BY <1>1
<1> QED BY <1>2, TasksAlways, PTL DEF Spec, ExecutedAnswered

----------------------------------------------------------------------------
(* Quiet at the exit. *)

\* Once the tasks have been joined there are none, and no phase after that accepts.
Ended == {"background", "sync", "save", "exited"}
QuietInv == phase \in Ended => Tasks = {}

LEMMA QuietStep == TasksInv /\ QuietInv /\ [Next]_vars => QuietInv'
<1> SUFFICES ASSUME TasksInv, QuietInv, [Next]_vars, phase' \in Ended PROVE Tasks' = {}
  BY DEF QuietInv
<1>1. CASE conn' = conn
  <2>1. phase \in Ended \/ Tasks = {}
    <3>1. CASE Signal \/ Tick \/ Accept \/ Subscribe \/ StopAccepting \/ GraceExpires \/ DrainAborts \/ DrainEmpty
      BY <3>1 DEF Signal, Tick, Accept, Subscribe, StopAccepting, GraceExpires, DrainAborts, DrainEmpty, Ended
    <3>2. CASE Joined
      BY <3>2 DEF Joined
    <3>3. CASE FinalStep
      BY <3>3, SMTT(30) DEF FinalStep, Successor, Ended
    <3>4. ASSUME NEW c \in Conns, Client(c) \/ Task(c) \/ Spawn(c) PROVE phase \in Ended
      BY <3>4, Zenon DEF Client, ClientSends, ClientCloses, ClientStopsReading, Task, HandshakeFails, Begin, ShutdownHeard,
                  Read, ReadEof, ReadTimeout, Parse, Execute, Flush, FinalFlush, Finish, Abort, Spawn, Ended
    <3>5. CASE UNCHANGED vars
      BY <3>5 DEF vars
    <3> QED BY <3>1, <3>2, <3>3, <3>4, <3>5 DEF Next, Main
  <2>2. Tasks = {}
    BY <2>1 DEF QuietInv
  <2> QED BY <1>1, <2>2 DEF Tasks
<1>2. CASE conn' # conn
  <2>1. PICK c \in Conns : Client(c) \/ Task(c) \/ Spawn(c)
    BY <1>2, MainSteps, Zenon DEF Next, Main, vars
  <2>2. ~Spawn(c) /\ phase' = phase
    BY <2>1, Zenon DEF Client, ClientSends, ClientCloses, ClientStopsReading, Task, HandshakeFails, Begin, ShutdownHeard,
                Read, ReadEof, ReadTimeout, Parse, Execute, Flush, FinalFlush, Finish, Abort, Spawn, Ended
  <2>3. conn[c].pc = "gone"
    BY <2>2 DEF QuietInv, Tasks
  <2> QED
    BY <2>1, <2>2, <2>3 DEF Client, ClientSends, ClientCloses, ClientStopsReading, Task, HandshakeFails, Begin,
       ShutdownHeard, Read, ReadEof, ReadTimeout, Parse, Execute, Flush, FinalFlush, Finish, Abort, At
<1> QED BY <1>1, <1>2

\* No handler is left when the log is synced for the last time and the snapshot is taken.
THEOREM QuietWhenFilesClose == Spec => []QuietAtExit
<1>1. Init => QuietInv
  BY DEF Init, QuietInv, Ended
<1>2. QuietInv => QuietAtExit
  BY DEF QuietInv, QuietAtExit, Ended
<1> QED BY <1>1, <1>2, TasksAlways, QuietStep, PTL DEF Spec
----------------------------------------------------------------------------
(* The rate limit. *)

\* The window of check_rate_limit is the current second or an earlier one; what was
\* accepted in the current second has been counted in it.
RateInv ==
    /\ rate \in [last: Int, count: Int] /\ clock \in Int /\ accepted \in Int
    /\ rate.last <= clock
    /\ rate.last # clock => accepted = 0
    /\ rate.last = clock => accepted <= rate.count
    /\ accepted <= RateLimit

LEMMA RateStep == RateInv /\ [Next]_vars => RateInv'
<1> SUFFICES ASSUME RateInv, [Next]_vars PROVE RateInv'
  OBVIOUS
<1>1. RateLimit \in Int /\ RateLimit >= 1
  BY ServerAssumption
<1>2. rate.last \in Int /\ rate.count \in Int
  BY DEF RateInv
<1>3. CASE Tick
  BY <1>1, <1>2, <1>3 DEF Tick, RateInv
<1>4. CASE Accept
  <2>1. CASE active >= MaxConnections
    BY <1>4, <2>1 DEF Accept, RateInv
  <2>2. CASE ~(active >= MaxConnections) /\ rate.last # clock
    <3>1. rate' = [last |-> clock, count |-> 1] /\ clock' = clock /\ accepted' = accepted + 1
      BY <1>4, <2>2 DEF Accept, RateCheck, RateAdmits
    <3> QED BY <1>1, <2>2, <3>1 DEF RateInv
  <2>3. CASE ~(active >= MaxConnections) /\ rate.last = clock
    <3> DEFINE n == IF rate.count > RateLimit THEN rate.count ELSE rate.count + 1
    <3>1. /\ rate' = [rate EXCEPT !.count = n] /\ clock' = clock
          /\ accepted' = IF rate.count < RateLimit THEN accepted + 1 ELSE accepted
      BY <1>4, <2>3 DEF Accept, RateCheck, RateAdmits
    <3>2. n \in Int /\ n >= rate.count /\ (rate.count < RateLimit => n = rate.count + 1)
      BY <1>1, <1>2
    <3> HIDE DEF n
    <3>3. rate' \in [last: Int, count: Int] /\ rate'.last = rate.last /\ rate'.count = n
      BY <3>1, <3>2 DEF RateInv
    <3> QED BY <1>1, <1>2, <2>3, <3>1, <3>2, <3>3 DEF RateInv
  <2> QED BY <2>1, <2>2, <2>3
<1>5. CASE UNCHANGED limits
  BY <1>5 DEF limits, RateInv
<1>6. [Next]_vars => Tick \/ Accept \/ UNCHANGED limits
  <2>1. ASSUME NEW c \in Conns, Spawn(c) \/ Client(c) PROVE UNCHANGED limits
    BY <2>1 DEF Spawn, Client, ClientSends, ClientCloses, ClientStopsReading
  <2>2. Subscribe \/ StopAccepting \/ GraceExpires \/ DrainAborts \/ DrainEmpty \/ Joined \/ FinalStep => UNCHANGED limits
    BY DEF Subscribe, StopAccepting, GraceExpires, DrainAborts, DrainEmpty, Joined, FinalStep
  <2>3. ASSUME NEW c \in Conns, Task(c) PROVE UNCHANGED limits
    BY <2>3, Zenon DEF Task, HandshakeFails, Begin, ShutdownHeard, Read, ReadEof, ReadTimeout, Parse, Execute, Flush,
                FinalFlush, Finish, Abort
  <2>4. Signal => UNCHANGED limits
    BY DEF Signal
  <2>5. UNCHANGED vars => UNCHANGED limits
    BY Zenon DEF vars, limits
  <2> QED BY <2>1, <2>2, <2>3, <2>4, <2>5, Zenon DEF Next, Main
<1> QED BY <1>3, <1>4, <1>5, <1>6

\* No second accepts more connections than the limit, at any speed of clients and clock.
THEOREM RateLimitHolds == Spec => []RateHeld
<1>1. Init => RateInv
  BY ServerAssumption DEF Init, RateInv
<1>2. RateInv => RateHeld
  BY DEF RateInv, RateHeld
<1> QED BY <1>1, <1>2, RateStep, PTL DEF Spec

----------------------------------------------------------------------------
(* The number of connections. *)

LEMMA Count ==
    ASSUME NEW S \in SUBSET Conns
    PROVE  /\ IsFiniteSet(S) /\ Cardinality(S) \in Nat
           /\ \A c \in Conns \ S : Cardinality(S \cup {c}) = Cardinality(S) + 1
           /\ \A c \in S : Cardinality(S \ {c}) = Cardinality(S) - 1
<1>1. IsFiniteSet(S)
  BY ServerAssumption, FS_Subset
<1>2. Cardinality(S) \in Nat
  BY <1>1, FS_CardinalityType
<1>3. \A c \in Conns \ S : Cardinality(S \cup {c}) = Cardinality(S) + 1
  BY <1>1, FS_AddElement
<1>4. \A c \in S : Cardinality(S \ {c}) = Cardinality(S) - 1
  BY <1>1, FS_RemoveElement
<1> QED BY <1>1, <1>2, <1>3, <1>4

\* A step of one task changes the set of handlers by that task at most.
LEMMA RunningAfter ==
    ASSUME TasksInv, NEW c \in Conns, NEW r, conn' = [conn EXCEPT ![c] = r]
    PROVE  Running' = IF r.pc \in Handlers THEN Running \cup {c} ELSE Running \ {c}
<1>1. conn'[c] = r /\ \A d \in Conns \ {c} : conn'[d] = conn[d]
  BY DEF TasksInv
<1> QED BY <1>1 DEF Running

\* A task that begins after the signal.
BeginLate(c) == Begin(c) /\ shutdown

LEMMA CountStep == TasksInv /\ CountExact /\ [Next]_vars => CountExact'
<1> SUFFICES ASSUME TasksInv, CountExact, [Next]_vars, ~aborted' PROVE active' = Cardinality(Running')
  BY DEF CountExact
<1>1. Running \in SUBSET Conns
  BY DEF Running
<1>2. active = Cardinality(Running)
  <2>1. ~aborted
    BY Zenon DEF Next, Signal, Tick, Accept, Main, Subscribe, StopAccepting, GraceExpires, DrainAborts, DrainEmpty, Joined,
           FinalStep, Spawn, Client, ClientSends, ClientCloses, ClientStopsReading, Task, HandshakeFails, Begin,
           ShutdownHeard, Read, ReadEof, ReadTimeout, Parse, Execute, Flush, FinalFlush, Finish, Abort, vars, drain
  <2> QED BY <2>1 DEF CountExact
<1>3. CASE UNCHANGED <<active, Running>>
  BY <1>2, <1>3
<1>4. CASE UNCHANGED <<active, conn>>
  BY <1>2, <1>4 DEF Running
<1>5. ASSUME NEW c \in Conns, Client(c) \/ ShutdownHeard(c) \/ Read(c) \/ ReadEof(c) \/ ReadTimeout(c) \/ Parse(c)
                              \/ Execute(c) \/ Flush(c) \/ FinalFlush(c)
      PROVE  UNCHANGED <<active, Running>>
  <2>1. conn[c] \in Connections /\ conn \in [Conns -> Connections] /\ active' = active
    BY <1>5 DEF TasksInv, Client, ClientSends, ClientCloses, ClientStopsReading, ShutdownHeard, Read, ReadEof,
                ReadTimeout, Parse, Execute, Flush, FinalFlush
  <2>2. \A d \in Conns \ {c} : conn'[d] = conn[d]
    BY <1>5, <2>1, Zenon DEF Client, ClientSends, ClientCloses, ClientStopsReading, ShutdownHeard, Read, ReadEof,
                ReadTimeout, Parse, Execute, Flush, FinalFlush
  <2>3. conn'[c].pc \in Handlers <=> conn[c].pc \in Handlers
    <3>1. CASE Client(c)
      BY <2>1, <3>1 DEF Client, ClientSends, ClientCloses, ClientStopsReading, Connections
    <3>2. CASE ShutdownHeard(c) \/ ReadEof(c) \/ ReadTimeout(c) \/ Parse(c)
      BY <2>1, <3>2 DEF ShutdownHeard, ReadEof, ReadTimeout, Parse, Connections, Handlers, At
    <3>3. CASE Read(c)
      BY <2>1, <3>3 DEF Read, Connections
    <3>4. CASE Execute(c)
      BY <2>1, <3>4 DEF Execute, Connections, Handlers, At
    <3>5. CASE Flush(c)
      BY <2>1, <3>5 DEF Flush, Connections, Handlers, At
    <3>6. CASE FinalFlush(c)
      BY <2>1, <3>6 DEF FinalFlush, Connections, Handlers, At
    <3> QED BY <1>5, <3>1, <3>2, <3>3, <3>4, <3>5, <3>6
  <2> QED BY <2>1, <2>2, <2>3 DEF Running
<1>6. ASSUME NEW c \in Conns, HandshakeFails(c) \/ Abort(c) \/ Spawn(c) \/ BeginLate(c)
      PROVE  UNCHANGED <<active, Running>>
  <2>1. ~Abort(c)
    BY DEF Abort, drain
  <2>2. CASE HandshakeFails(c) \/ BeginLate(c)
    <3>1. c \notin Running /\ active' = active /\ conn' = [conn EXCEPT ![c] = Gone]
      BY <2>2 DEF BeginLate, HandshakeFails, Begin, Leave, At, Running, Handlers
    <3>2. Gone.pc \notin Handlers
      BY DEF Gone, Handlers
    <3>3. Running' = Running \ {c}
      BY <3>1, <3>2, RunningAfter, Zenon
    <3>4. Running' = Running
      BY <3>1, <3>3
    <3> QED BY <3>1, <3>4, Zenon
  <2>3. CASE Spawn(c)
    <3>1. c \notin Running /\ active' = active
      BY <2>3 DEF Spawn, At, Running, Handlers
    <3> DEFINE r == [Gone EXCEPT !.pc = "spawned", !.hears = ~shutdown]
    <3>2. conn' = [conn EXCEPT ![c] = r]
      BY <2>3 DEF Spawn
    <3>3. r.pc = "spawned"
      BY DEF Gone
    <3> HIDE DEF r
    <3>4. r.pc \notin Handlers
      BY <3>3 DEF Handlers
    <3>5. Running' = Running \ {c}
      BY <3>2, <3>4, RunningAfter, Zenon
    <3>6. Running' = Running
      BY <3>1, <3>5
    <3> QED BY <3>1, <3>6, Zenon
  <2> QED BY <1>6, <2>1, <2>2, <2>3
<1>7. ASSUME NEW c \in Conns, Begin(c), ~shutdown PROVE active' = Cardinality(Running')
  <2>1. c \in Conns \ Running /\ active' = active + 1
    BY <1>7 DEF Begin, At, Running, Handlers
  <2> DEFINE r == [conn[c] EXCEPT !.pc = "wait"]
  <2>2. conn' = [conn EXCEPT ![c] = r]
    BY <1>7 DEF Begin
  <2>3. r.pc = "wait"
    BY DEF TasksInv, Connections
  <2> HIDE DEF r
  <2>4. Running' = Running \cup {c}
    BY <2>2, <2>3, RunningAfter, Zenon DEF Handlers
  <2> QED BY <1>1, <1>2, <2>1, <2>4, Count
<1>8. ASSUME NEW c \in Conns, Finish(c) PROVE active' = Cardinality(Running')
  <2>1. c \in Running /\ active' = active - 1 /\ conn' = [conn EXCEPT ![c] = Gone]
    BY <1>8 DEF Finish, Leave, At, Running, Handlers
  <2>2. Running' = Running \ {c}
    BY <2>1, RunningAfter, Zenon DEF Gone, Handlers
  <2> QED BY <1>1, <1>2, <2>1, <2>2, Count
<1>9. CASE Signal \/ Tick \/ Accept \/ Subscribe \/ StopAccepting \/ GraceExpires \/ DrainAborts \/ DrainEmpty
           \/ Joined \/ FinalStep \/ UNCHANGED vars
  BY <1>4, <1>9 DEF Signal, Tick, Accept, Subscribe, StopAccepting, GraceExpires, DrainAborts, DrainEmpty, Joined,
                    FinalStep, vars
<1>10. ASSUME NEW c \in Conns, Client(c) \/ Task(c) \/ Spawn(c) PROVE active' = Cardinality(Running')
  <2>1. CASE Begin(c)
    BY <1>3, <1>6, <1>7, <2>1 DEF BeginLate
  <2>2. CASE Finish(c)
    BY <1>8, <2>2
  <2>3. CASE HandshakeFails(c) \/ Abort(c) \/ Spawn(c)
    <3>1. UNCHANGED <<active, Running>>
      BY <1>6, <2>3
    <3> QED BY <1>3, <3>1
  <2>4. CASE Client(c) \/ ShutdownHeard(c) \/ Read(c) \/ ReadEof(c) \/ ReadTimeout(c) \/ Parse(c) \/ Execute(c)
             \/ Flush(c) \/ FinalFlush(c)
    BY <1>3, <1>5, <2>4
  <2> QED BY <1>10, <2>1, <2>2, <2>3, <2>4 DEF Task
<1>11. CASE \E c \in Conns : Client(c) \/ Task(c) \/ Spawn(c)
  BY <1>10, <1>11
<1> QED BY <1>9, <1>11 DEF Next, Main

\* The number that the limit is compared with is the number of handlers.
THEOREM ActiveIsExact == Spec => []CountExact
<1>1. Init => CountExact
  <2> SUFFICES ASSUME Init PROVE Running = {} /\ active = 0
    BY FS_EmptySet DEF CountExact
  <2> QED BY DEF Init, Running, Gone, Handlers
<1> QED BY <1>1, TasksAlways, CountStep, PTL DEF Spec
=============================================================================
