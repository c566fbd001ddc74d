---------------------------- MODULE Connections ----------------------------
(***************************************************************************)
(* A websocket connection from its upgrade to its end: the entry and the   *)
(* send handler of the connection service, the client, the session's       *)
(* outbound pipeline with its writer, and everybody who closes: the        *)
(* goroutine that reads, the one that pings, and whoever's message is the  *)
(* drop that makes the consumer a slow one.                                *)
(*                                                                         *)
(* Messages are counted, not told apart.  Close of the connection service  *)
(* forgets the connection and leaves its socket open; only the reading     *)
(* goroutine hangs up, and last of all.                                    *)
(***************************************************************************)
EXTENDS Naturals, FiniteSets

CONSTANTS
  Conns,
  Senders,    \* goroutines with a message for a client
  Nobody,
  Capacity,   \* of the outbound queue
  Threshold,  \* consecutive drops that make a slow consumer
  LoadBound   \* bound on the messages sent

Reader(c) == <<"reader", c>>
Writer(c) == <<"writer", c>>
Pinger(c) == <<"pinger", c>>
Procs == Senders \cup {Reader(c) : c \in Conns} \cup {Writer(c) : c \in Conns}
                 \cup {Pinger(c) : c \in Conns}

ASSUME ConnectionsAssumption ==
  /\ Nobody \notin Procs
  /\ Senders \cap ({Reader(c) : c \in Conns} \cup {Writer(c) : c \in Conns}
                     \cup {Pinger(c) : c \in Conns}) = {}
  /\ Capacity \in Nat \ {0} /\ Threshold \in Nat \ {0} /\ LoadBound \in Nat

VARIABLES
  entry,       \* connections in the repository
  handler,     \* connections with a send handler and a write mutex
  state,       \* of each Connection
  client,      \* of each connection
  pipelines,   \* connections whose pipeline is registered
  link,        \* connections their client is linked to
  queue,       \* messages in each outbound queue
  stop,        \* connections whose pipeline was told to stop
  drops,       \* consecutiveDrops of each pipeline
  mutex,       \* who holds each write mutex
  socket,
  op,          \* what each process is in the middle of
  load

registry == <<entry, handler, state>>
session == <<client, pipelines, link>>
pipe == <<queue, stop, drops>>
vars == <<registry, session, pipe, mutex, socket, op, load>>

Idle == [pc |-> "idle", c |-> Nobody, n |-> 0]

At(p, pc) == op[p].pc = pc
Goes(p, pc) == op' = [op EXCEPT ![p].pc = pc]
Con(p) == op[p].c

\* What follows Send in each goroutine.
AfterSend(p) == CASE p = Reader(Con(p)) -> "register"
                  [] p = Writer(Con(p)) -> "select"
                  [] OTHER -> "idle"
\* What follows Close in each goroutine.
AfterClose(p) == CASE p = Reader(Con(p)) -> "unpipe"
                   [] p = Pinger(Con(p)) -> "done"
                   [] OTHER -> "idle"

-----------------------------------------------------------------------------
Init ==
  /\ entry = {} /\ handler = {}
  /\ state = [c \in Conns |-> "connecting"]
  /\ client = [c \in Conns |-> "none"]
  /\ pipelines = {} /\ link = {}
  /\ queue = [c \in Conns |-> 0]
  /\ stop = {}
  /\ drops = [c \in Conns |-> 0]
  /\ mutex = [c \in Conns |-> Nobody]
  /\ socket = [c \in Conns |-> "none"]
  /\ op = [p \in Procs |-> IF p \in Senders THEN Idle ELSE [Idle EXCEPT !.c = p[2]]]
  /\ load = 0

-----------------------------------------------------------------------------
(* The connection opens *)

Store(c) == entry' = entry \cup {c}

\* Register of the connection service: stored as open, with its send handler.
Register(c) ==
  /\ state' = [state EXCEPT ![c] = "open"]
  /\ Store(c)
  /\ handler' = handler \cup {c}

Connect(c) == client' = [client EXCEPT ![c] = "connected"]

\* HandleConnection: upgraded, registered, its client stored, which only an id
\* that is taken would prevent, and the ids are new; the connected message is
\* sent past the pipeline.
HandleConnection(c) ==
  /\ At(Reader(c), "idle")
  /\ socket' = [socket EXCEPT ![c] = "open"]
  /\ Register(c)
  /\ Connect(c)
  /\ Goes(Reader(c), "send")
  /\ UNCHANGED <<pipelines, link, pipe, mutex, load>>

\* The session starts the pipeline and links the client to it; the goroutines
\* that read and ping start.
RegisterConnection(c) ==
  /\ At(Reader(c), "register")
  /\ pipelines' = pipelines \cup {c}
  /\ link' = link \cup {c}
  /\ op' = [op EXCEPT ![Reader(c)].pc = "reading", ![Writer(c)].pc = "select",
                      ![Pinger(c)].pc = "waiting"]
  /\ UNCHANGED <<registry, client, pipe, mutex, socket, load>>

\* The client stops reading, goes on reading, or is gone.
Peer(c) ==
  /\ \/ socket[c] = "open" /\ socket' = [socket EXCEPT ![c] = "stalled"]
     \/ socket[c] = "stalled" /\ socket' = [socket EXCEPT ![c] = "open"]
     \/ socket[c] \in {"open", "stalled"} /\ socket' = [socket EXCEPT ![c] = "broken"]
  /\ UNCHANGED <<registry, session, pipe, mutex, op, load>>

-----------------------------------------------------------------------------
(* Send of the connection service *)

\* The handler and the entry are looked up, and the state is looked at.
SendLooksUp(p) ==
  /\ At(p, "send")
  /\ Goes(p, IF Con(p) \in handler \cap entry /\ state[Con(p)] # "closed"
             THEN "lock" ELSE AfterSend(p))
  /\ UNCHANGED <<registry, session, pipe, mutex, socket, load>>

\* Mutant: without the write mutex.
SendLocks_Free(p) ==
  /\ At(p, "lock")
  /\ mutex' = [mutex EXCEPT ![Con(p)] = p]
  /\ Goes(p, "write")
  /\ UNCHANGED <<registry, session, pipe, socket, load>>

\* One goroutine at a time writes to a socket.
SendLocks(p) ==
  /\ At(p, "lock") /\ mutex[Con(p)] = Nobody
  /\ mutex' = [mutex EXCEPT ![Con(p)] = p]
  /\ Goes(p, "write")
  /\ UNCHANGED <<registry, session, pipe, socket, load>>

\* WriteMessage has no deadline: it returns when the client takes the message
\* or is gone.
SendWrites(p) ==
  /\ At(p, "write") /\ socket[Con(p)] # "stalled"
  /\ IF socket[Con(p)] = "open"
     THEN Goes(p, "store") /\ UNCHANGED mutex
     ELSE Goes(p, AfterSend(p)) /\ mutex' = [mutex EXCEPT ![Con(p)] = Nobody]
  /\ UNCHANGED <<registry, session, pipe, socket, load>>

\* The connection is stored with its new counters, even when it was removed
\* in the meantime; a writer's success ends a row of drops.
SendStores(p) ==
  /\ At(p, "store")
  /\ Store(Con(p))
  /\ mutex' = [mutex EXCEPT ![Con(p)] = Nobody]
  /\ drops' = IF p = Writer(Con(p)) THEN [drops EXCEPT ![Con(p)] = 0] ELSE drops
  /\ Goes(p, AfterSend(p))
  /\ UNCHANGED <<handler, state, session, queue, stop, socket, load>>

-----------------------------------------------------------------------------
(* Close of the connection service *)

\* An entry that is not there is an error, and nothing is closed.
CloseFinds(p) ==
  /\ At(p, "find")
  /\ Goes(p, IF Con(p) \in entry THEN "mark" ELSE AfterClose(p))
  /\ UNCHANGED <<registry, session, pipe, mutex, socket, load>>

\* An open connection is stored as closed.
CloseMarks(p) ==
  /\ At(p, "mark")
  /\ IF state[Con(p)] = "open"
     THEN state' = [state EXCEPT ![Con(p)] = "closed"] /\ Store(Con(p))
     ELSE UNCHANGED <<state, entry>>
  /\ Goes(p, "unregister")
  /\ UNCHANGED <<handler, session, pipe, mutex, socket, load>>

\* Unregister takes handler and entry away together, if the entry is there.
Unregister(p) ==
  /\ At(p, "unregister")
  /\ handler' = IF Con(p) \in entry THEN handler \ {Con(p)} ELSE handler
  /\ entry' = entry \ {Con(p)}
  /\ Goes(p, AfterClose(p))
  /\ UNCHANGED <<state, session, pipe, mutex, socket, load>>

-----------------------------------------------------------------------------
(* The outbound pipeline *)

\* Mutant: a writer whose connection is closed gives up.
WriterTakes_GivesUp(c) ==
  /\ At(Writer(c), "select") /\ queue[c] > 0
  /\ queue' = [queue EXCEPT ![c] = @ - 1]
  /\ Goes(Writer(c), IF c \in handler THEN "send" ELSE "exited")
  /\ UNCHANGED <<registry, session, stop, drops, mutex, socket, load>>

\* deliver: the writer takes a message and sends it.
WriterTakes(c) ==
  /\ At(Writer(c), "select") /\ queue[c] > 0
  /\ queue' = [queue EXCEPT ![c] = @ - 1]
  /\ Goes(Writer(c), "send")
  /\ UNCHANGED <<registry, session, stop, drops, mutex, socket, load>>

\* Stopped, it may still take messages first: select picks either.
WriterExits(c) ==
  /\ At(Writer(c), "select") /\ c \in stop
  /\ Goes(Writer(c), "exited")
  /\ UNCHANGED <<registry, session, pipe, mutex, socket, load>>

Sends(d, c, pc) ==
  /\ At(d, "idle") /\ load < LoadBound
  /\ op' = [op EXCEPT ![d] = [Idle EXCEPT !.pc = pc, !.c = c]]
  /\ load' = load + 1
  /\ UNCHANGED <<registry, session, pipe, mutex, socket>>

\* The session finds the pipeline of a client that it knows.
Deliver(d, c) == c \in link \cap pipelines /\ Sends(d, c, "enqueue")

\* SendMessage goes past the pipeline, for a connected client.
SendMessage(d, c) == client[c] = "connected" /\ Sends(d, c, "send")

\* Pongs go out that way, and so do error responses; the socket is not read
\* before the pipeline is registered.
HandlePing(d, c) == c \in link /\ SendMessage(d, c)

\* A pipeline that is stopped takes nothing.
EnqueueChecksStop(d) ==
  /\ At(d, "enqueue")
  /\ Goes(d, IF Con(d) \in stop THEN "idle" ELSE "push")
  /\ UNCHANGED <<registry, session, pipe, mutex, socket, load>>

\* Room in the queue, the stop, or the timeout of a full queue end the wait.
Enqueue(d) ==
  LET c == Con(d)
  IN /\ At(d, "push")
     /\ \/ queue[c] < Capacity /\ queue' = [queue EXCEPT ![c] = @ + 1] /\ Goes(d, "idle")
        \/ c \in stop /\ Goes(d, "idle") /\ UNCHANGED queue
        \/ queue[c] = Capacity /\ Goes(d, "drop") /\ UNCHANGED queue
     /\ UNCHANGED <<registry, session, stop, drops, mutex, socket, load>>

\* handleDrop: consecutiveDrops++ without a lock is a read,
DropReads(d) ==
  /\ At(d, "drop")
  /\ op' = [op EXCEPT ![d].pc = "count", ![d].n = drops[Con(d)] + 1]
  /\ UNCHANGED <<registry, session, pipe, mutex, socket, load>>

\* and a write;
DropWrites(d) ==
  /\ At(d, "count")
  /\ drops' = [drops EXCEPT ![Con(d)] = op[d].n]
  /\ Goes(d, "judge")
  /\ UNCHANGED <<registry, session, queue, stop, mutex, socket, load>>

\* the counter is read again, and enough drops close the connection.
DropJudges(d) ==
  /\ At(d, "judge")
  /\ IF drops[Con(d)] >= Threshold
     THEN Goes(d, "find")
     ELSE Goes(d, "idle")
  /\ UNCHANGED <<registry, session, pipe, mutex, socket, load>>

-----------------------------------------------------------------------------
(* The connection ends *)

\* The read fails: the client is gone, or has sent no pong for a minute.
ReadFails(c) ==
  /\ At(Reader(c), "reading") /\ socket[c] \in {"stalled", "broken"}
  /\ Goes(Reader(c), "leave")
  /\ UNCHANGED <<registry, session, pipe, mutex, socket, load>>

\* The ping fails: the connection is closed, the socket is left.
PingFails(c) ==
  /\ At(Pinger(c), "waiting") /\ socket[c] # "open"
  /\ Goes(Pinger(c), "find")
  /\ UNCHANGED <<registry, session, pipe, mutex, socket, load>>

UpdateClient(c, s) == client' = [client EXCEPT ![c] = s]

\* HandleDisconnection: the client is marked, then the connection closed.
Disconnect(c) ==
  /\ At(Reader(c), "leave")
  /\ UpdateClient(c, "disconnected")
  /\ Goes(Reader(c), "find")
  /\ UNCHANGED <<registry, pipelines, link, pipe, mutex, socket, load>>

\* The pipeline leaves the registry first,
RemovePipeline(c) ==
  /\ At(Reader(c), "unpipe")
  /\ pipelines' = pipelines \ {c}
  /\ Goes(Reader(c), "stop")
  /\ UNCHANGED <<registry, client, link, pipe, mutex, socket, load>>

\* Mutant: without closing the channel.
StopPipeline_Forgotten(c) ==
  /\ At(Reader(c), "stop")
  /\ Goes(Reader(c), "join")
  /\ UNCHANGED <<registry, session, pipe, mutex, socket, load>>

\* is told to stop,
StopPipeline(c) ==
  /\ At(Reader(c), "stop")
  /\ stop' = stop \cup {c}
  /\ Goes(Reader(c), "join")
  /\ UNCHANGED <<registry, session, queue, drops, mutex, socket, load>>

\* and its writer is waited for.
JoinWriter(c) ==
  /\ At(Reader(c), "join") /\ At(Writer(c), "exited")
  /\ Goes(Reader(c), "forget")
  /\ UNCHANGED <<registry, session, pipe, mutex, socket, load>>

\* The session forgets the client.
UnregisterConnection(c) ==
  /\ At(Reader(c), "forget")
  /\ link' = link \ {c}
  /\ Goes(Reader(c), "hangup")
  /\ UNCHANGED <<registry, client, pipelines, pipe, mutex, socket, load>>

\* The last of the reading goroutine.
HangUp(c) ==
  /\ At(Reader(c), "hangup")
  /\ socket' = [socket EXCEPT ![c] = "closed"]
  /\ Goes(Reader(c), "done")
  /\ UNCHANGED <<registry, session, pipe, mutex, load>>

\* Mutant: only open connections are looked at.
CleanStaleConnections_Open(c) ==
  /\ c \in entry /\ state[c] = "open" /\ op[Reader(c)].pc \in {"unpipe", "stop", "join", "forget", "hangup", "done"}
  /\ entry' = entry \ {c}
  /\ UNCHANGED <<handler, state, session, pipe, mutex, socket, op, load>>

\* The server's maintenance removes entries without a pong for two minutes.
\* The deadline of the reading goroutine is one minute, so that it has been
\* through Close by then.
CleanStaleConnections(c) ==
  /\ c \in entry
  /\ op[Reader(c)].pc \in {"unpipe", "stop", "join", "forget", "hangup", "done"}
  /\ entry' = entry \ {c}
  /\ UNCHANGED <<handler, state, session, pipe, mutex, socket, op, load>>

PerformMaintenance == \E c \in Conns : CleanStaleConnections(c)

-----------------------------------------------------------------------------
Send(p) == SendLooksUp(p) \/ SendWrites(p) \/ SendStores(p)
Close(p) == CloseFinds(p) \/ CloseMarks(p) \/ Unregister(p)
HandleDrop(d) == DropReads(d) \/ DropWrites(d) \/ DropJudges(d)
Run(c) == WriterTakes(c) \/ WriterExits(c)
Disconnection(c) ==
  \/ Disconnect(c) \/ RemovePipeline(c) \/ StopPipeline(c) \/ JoinWriter(c)
  \/ UnregisterConnection(c) \/ HangUp(c)

Next ==
  \/ \E p \in Procs : Send(p) \/ SendLocks(p) \/ Close(p)
  \/ \E c \in Conns : \/ HandleConnection(c) \/ RegisterConnection(c) \/ Peer(c)
                      \/ Run(c) \/ ReadFails(c) \/ PingFails(c) \/ Disconnection(c)
  \/ PerformMaintenance
  \/ \E d \in Senders : \/ EnqueueChecksStop(d) \/ Enqueue(d) \/ HandleDrop(d)
                        \/ \E c \in Conns : Deliver(d, c) \/ HandlePing(d, c)

Spec == Init /\ [][Next]_vars

\* Goroutines are scheduled, a mutex is handed on in turn, and the ticker of
\* the maintenance goes on.  Clients and messages owe nothing.
Fairness ==
  /\ \A p \in Procs : WF_vars(Send(p)) /\ WF_vars(Close(p)) /\ SF_vars(SendLocks(p))
  /\ \A c \in Conns : /\ WF_vars(Run(c)) /\ WF_vars(Disconnection(c))
                      /\ WF_vars(At(Reader(c), "register") /\ RegisterConnection(c))
                      /\ SF_vars(WriterExits(c))
                      /\ WF_vars(CleanStaleConnections(c))
  /\ \A d \in Senders : WF_vars(EnqueueChecksStop(d) \/ Enqueue(d) \/ HandleDrop(d))
FairSpec == Spec /\ Fairness

-----------------------------------------------------------------------------
(* Properties *)

\* The websocket library allows one writer at a time: the pipeline's writer
\* and the handlers that send past it are never inside WriteMessage of one
\* socket together, whoever closes and removes the mutex meanwhile.
OneWriter ==
  \A p, q \in Procs : op[p].pc \in {"write", "store"} /\ op[q].pc \in {"write", "store"}
                        /\ Con(p) = Con(q) => p = q

\* A disconnection that has begun is carried through, and the socket closed,
\* unless a goroutine is inside a write that the client does not take:
\* nothing but the client ends that.
DisconnectEnds ==
  \A c \in Conns : At(Reader(c), "leave") ~>
    (At(Reader(c), "done") \/ \E p \in Procs : At(p, "write") /\ Con(p) = c /\ socket[c] = "stalled")

\* The entry of a connection that has ended is gone for good in the end,
\* although a send that was under way stores it again after its removal.
EntryGoes == \A c \in Conns : [](At(Reader(c), "done") => <>[](c \notin entry))

\* The queue of a connection is emptied again and again, also when the
\* connection was closed under its reader by a failed ping or a slow consumer:
\* the senders are not left to wait out their timeout for ever.
QueueDrains ==
  \A c \in Conns : []<>(queue[c] = 0 \/ socket[c] # "open" \/ c \in stop)
=============================================================================
