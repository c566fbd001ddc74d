---------------------------- MODULE QueueWorkers ----------------------------
(***************************************************************************)
(* The rows of queue_workers of one project: registration, heartbeats and  *)
(* those a claim makes, the purge of stale workers, and the deletion of    *)
(* one of the queues they name.  Update writes the whole row a handler     *)
(* read before, and inserts it when it has gone.  The leases of the jobs   *)
(* are in JobQueue.                                                        *)
(***************************************************************************)
EXTENDS FiniteSets

CONSTANTS
  Ids,       \* ids that Register generates
  Handlers,  \* requests, purges and cascades at one time, on any instance
  Unborn, Gone

VARIABLES
  worker,    \* worker[w]: the row, or Unborn before it and Gone after
  queueRow,  \* the row of the queue: active, deleting or gone for good
  running,   \* the workers with a running job
  task,      \* what each handler is doing
  vouched,   \* history: had a row, which no purge was about to delete, on claiming its job
  behind     \* history: the row names the queue by a write that came late

workerVars == <<worker, queueRow, running, task, vouched, behind>>

\* named: the list of queues has the queue; seen: last_seen_at.
WorkerRow == [named: BOOLEAN, seen: {"fresh", "stale"}]
ASSUME WorkersAssumption == {Unborn, Gone} \cap WorkerRow = {}

Off == [pc |-> "idle", id |-> Unborn, copy |-> Unborn, list |-> {}]

WorkerInit ==
  /\ worker = [w \in Ids |-> Unborn]
  /\ queueRow = "active"
  /\ running = {} /\ vouched = {} /\ behind = {}
  /\ task = [h \in Handlers |-> Off]

InTable(w) == worker[w] \in WorkerRow
Does(h, new) == task' = [task EXCEPT ![h] = new]
Listed(S) == {[id |-> w, copy |-> worker[w]] : w \in S}
\* A row that names the queue although the deletion has been over it, or may be.
Late(w, row) == row.named /\ queueRow # "active" /\ ~(InTable(w) /\ worker[w].named)
Writes(w, row) ==
  /\ worker' = [worker EXCEPT ![w] = row]
  /\ behind' = CASE ~row.named -> behind \ {w}
                 [] Late(w, row) -> behind \cup {w}
                 [] row.named /\ ~Late(w, row) -> behind

-----------------------------------------------------------------------------
\* Register: the guard looks at every queue of the list, then the row is made.
\* A queue without a row is no obstacle.
RegisterChecks(h) ==
  /\ task[h].pc = "idle"
  /\ \E w \in Ids, named \in BOOLEAN :
       /\ worker[w] = Unborn /\ \A g \in Handlers : task[g].id # w
       /\ named => queueRow # "deleting"
       /\ Does(h, [Off EXCEPT !.pc = "register", !.id = w,
                              !.copy = [named |-> named, seen |-> "fresh"]])
  /\ UNCHANGED <<worker, queueRow, running, vouched, behind>>
RegisterCreates(h) ==
  /\ task[h].pc = "register"
  /\ Writes(task[h].id, task[h].copy)
  /\ Does(h, Off)
  /\ UNCHANGED <<queueRow, running, vouched>>
Registers(h) == RegisterChecks(h) \/ RegisterCreates(h)

\* Heartbeat finds the row and saves all of it; a worker without one is unknown.
HeartbeatFinds(h, w) ==
  /\ \/ task[h].pc = "idle" /\ InTable(w)
     \/ task[h].pc = "touch" /\ task[h].id = w
  /\ Does(h, IF InTable(w) THEN [Off EXCEPT !.pc = "beat", !.id = w, !.copy = worker[w]] ELSE Off)
  /\ UNCHANGED <<worker, queueRow, running, vouched, behind>>
HeartbeatSaves(h) ==
  /\ task[h].pc = "beat"
  /\ Writes(task[h].id, [task[h].copy EXCEPT !.seen = "fresh"])
  /\ Does(h, Off)
  /\ UNCHANGED <<queueRow, running, vouched>>
WorkerBeats(h) == HeartbeatSaves(h) \/ \E w \in Ids : HeartbeatFinds(h, w)

\* Dequeue hands out a job; touchRegisteredWorker makes a heartbeat of it.
TouchRegisteredWorker(h, w) ==
  /\ task[h].pc = "idle" /\ worker[w] # Unborn /\ w \notin running
  /\ running' = running \cup {w}
  /\ vouched' = IF InTable(w) /\ \A g \in Handlers : ~(task[g].pc = "remove" /\ task[g].id = w)
                THEN vouched \cup {w} ELSE vouched
  /\ Does(h, [Off EXCEPT !.pc = "touch", !.id = w])
  /\ UNCHANGED <<worker, queueRow, behind>>

\* The job is answered, deleted, or taken back when its lease runs out.
JobEnds(w) ==
  /\ w \in running
  /\ running' = running \ {w} /\ vouched' = vouched \ {w}
  /\ UNCHANGED <<worker, queueRow, task, behind>>

-----------------------------------------------------------------------------
\* PurgeStaleWorkers works on the list it read first.
ListStale(h) ==
  /\ task[h].pc = "idle"
  /\ \E w \in Ids : InTable(w) /\ worker[w].seen = "stale"
  /\ Does(h, [Off EXCEPT !.pc = "purge",
                         !.list = Listed({w \in Ids : InTable(w) /\ worker[w].seen = "stale"})])
  /\ UNCHANGED <<worker, queueRow, running, vouched, behind>>

Past(h, w) == {e \in task[h].list : e.id # w}
\* Mutant: nobody asks for running jobs.
HasRunningJobs_Unasked(h) ==
  /\ task[h].pc = "purge"
  /\ \E e \in task[h].list :
       Does(h, [task[h] EXCEPT !.pc = "remove", !.id = e.id, !.list = Past(h, e.id)])
  /\ UNCHANGED <<worker, queueRow, running, vouched, behind>>
HasRunningJobs(h) ==
  /\ task[h].pc = "purge"
  /\ \E e \in task[h].list :
       Does(h, IF e.id \in running THEN [task[h] EXCEPT !.list = Past(h, e.id)]
               ELSE [task[h] EXCEPT !.pc = "remove", !.id = e.id, !.list = Past(h, e.id)])
  /\ UNCHANGED <<worker, queueRow, running, vouched, behind>>

DeleteStale(h) ==
  /\ task[h].pc = "remove"
  /\ worker' = [worker EXCEPT ![task[h].id] = Gone]
  /\ behind' = behind \ {task[h].id}
  /\ Does(h, [task[h] EXCEPT !.pc = "purge", !.id = Unborn])
  /\ UNCHANGED <<queueRow, running, vouched>>
PurgeStaleWorkers(h) == ListStale(h) \/ HasRunningJobs(h) \/ DeleteStale(h)

-----------------------------------------------------------------------------
(* The cascade of the queue (QueueLifecycle), by its request and by the       *)
(* maintenance task                                                          *)

MarkDeleting ==
  /\ queueRow = "active" /\ queueRow' = "deleting"
  /\ UNCHANGED <<worker, running, task, vouched, behind>>

ListByProject(h) ==
  /\ task[h].pc = "idle" /\ queueRow = "deleting"
  /\ Does(h, [Off EXCEPT !.pc = "detach",
                         !.list = Listed({w \in Ids : InTable(w) /\ worker[w].named})])
  /\ UNCHANGED <<worker, queueRow, running, vouched, behind>>

\* RemoveQueue, and the copy is saved.
RemoveQueue(h) ==
  /\ task[h].pc = "detach"
  /\ \E e \in task[h].list :
       /\ Writes(e.id, [e.copy EXCEPT !.named = FALSE])
       /\ Does(h, [task[h] EXCEPT !.list = Past(h, e.id)])
  /\ UNCHANGED <<queueRow, running, vouched>>

DropQueue(h) ==
  /\ task[h].pc = "detach" /\ task[h].list = {}
  /\ queueRow' = "gone"
  /\ Does(h, Off)
  /\ UNCHANGED <<worker, running, vouched, behind>>
DetachQueueFromWorkers(h) == ListByProject(h) \/ RemoveQueue(h) \/ DropQueue(h)

-----------------------------------------------------------------------------
\* An error of the database, the end of a list, or the death of the process.
Stops(h) ==
  /\ task[h].pc # "idle" /\ Does(h, Off)
  /\ UNCHANGED <<worker, queueRow, running, vouched, behind>>

\* Nothing was heard of a worker for worker_stale_delete.
FallsSilent(w) ==
  /\ InTable(w) /\ worker[w].seen = "fresh"
  /\ worker' = [worker EXCEPT ![w].seen = "stale"]
  /\ UNCHANGED <<queueRow, running, task, vouched, behind>>

WorkerNext ==
  \/ \E h \in Handlers :
       \/ Registers(h) \/ WorkerBeats(h) \/ PurgeStaleWorkers(h) \/ DetachQueueFromWorkers(h)
       \/ \E w \in Ids : TouchRegisteredWorker(h, w)
       \/ Stops(h)
  \/ MarkDeleting
  \/ \E w \in Ids : JobEnds(w) \/ FallsSilent(w)

WorkerSpec == WorkerInit /\ [][WorkerNext]_workerVars

-----------------------------------------------------------------------------
\* A worker that claimed a job while it had a row, and no purge was past its
\* look for running jobs, keeps the row as long as it runs the job: without one
\* its heartbeats are answered "not found" and extend no lease, and the job goes
\* to somebody else (PurgeStaleWorkers, Heartbeat).
HolderCanBeat == \A w \in vouched : InTable(w)

\* No worker names a queue that is gone, but by a heartbeat that found the row
\* before the cascade saved it, or a registration past its check
\* (detachQueueFromWorkers, Register).
NoneNamesGone ==
  queueRow = "gone" => \A w \in Ids : InTable(w) /\ worker[w].named => w \in behind

\* What the rows of the workers are for holds through every overlap of
\* heartbeats, purges and cascades.
WorkersHold == HolderCanBeat /\ NoneNamesGone
=============================================================================
