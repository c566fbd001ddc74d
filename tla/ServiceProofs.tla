--------------------------- MODULE ServiceProofs ---------------------------
(***************************************************************************)
(* What holds of the rows of workers, of the platform's jobs, of the       *)
(* limits in force and the limiters made for them, of the ticks of the     *)
(* cron and of the figures in Redis, for any number of workers, handlers,  *)
(* requests, tasks, instances, events and errors.                          *)
(***************************************************************************)
EXTENDS QueueWorkers, PlatformRuntime, RateGate, PlatformTick, Meter, FiniteSetTheorems, TLAPS

-----------------------------------------------------------------------------
(* QueueWorkers *)

Entry == [id: Ids, copy: WorkerRow]
Task == [pc: {"idle", "register", "beat", "touch", "purge", "remove", "detach"},
         id: Ids \cup {Unborn}, copy: WorkerRow \cup {Unborn}, list: SUBSET Entry]

WorkerTypes ==
  /\ worker \in [Ids -> WorkerRow \cup {Unborn, Gone}]
  /\ queueRow \in {"active", "deleting", "gone"}
  /\ task \in [Handlers -> Task]
  /\ \A h \in Handlers :
       /\ task[h].pc \in {"register", "beat", "touch", "remove"} => task[h].id \in Ids
       /\ task[h].pc \in {"register", "beat"} => task[h].copy \in WorkerRow

\* Nobody is about to delete the row of a worker that claimed a job with one.
Spared ==
  /\ vouched \subseteq running /\ running \subseteq Ids
  /\ \A w \in vouched : InTable(w) /\ \A h \in Handlers : ~(task[h].pc = "remove" /\ task[h].id = w)

\* A cascade has before it, or has written, every row that names the queue.
Covered(h) ==
  \A w \in Ids : InTable(w) /\ worker[w].named =>
    w \in behind \/ \E e \in task[h].list : e.id = w
Detaching == \A h \in Handlers : task[h].pc = "detach" => queueRow # "active" /\ Covered(h)

WorkerInv == WorkerTypes /\ Spared /\ Detaching /\ NoneNamesGone

\* A row that is written keeps those who have one, and adds a name only late.
LEMMA WritesRow ==
  ASSUME NEW w \in Ids, NEW new \in WorkerRow, WorkerTypes, Writes(w, new)
  PROVE  /\ worker' \in [Ids -> WorkerRow \cup {Unborn, Gone}]
         /\ \A v \in Ids : InTable(v) => InTable(v)'
         /\ \A v \in Ids : InTable(v)' /\ worker'[v].named /\ v \notin behind' =>
              /\ v # w \/ new.named
              /\ queueRow = "active" \/ (InTable(v) /\ worker[v].named /\ v \notin behind)
<1> USE DEF WorkerTypes, InTable
<1>1. /\ worker' \in [Ids -> WorkerRow \cup {Unborn, Gone}]
      /\ worker'[w] = new /\ \A v \in Ids \ {w} : worker'[v] = worker[v]
  BY DEF Writes
<1>2. \A v \in Ids \ {w} : v \in behind' <=> v \in behind
  BY DEF Writes
<1>3. new.named /\ ~Late(w, new) => (w \in behind' <=> w \in behind)
  BY DEF Writes
<1>4. new.named /\ Late(w, new) => w \in behind'
  BY DEF Writes
<1> QED BY <1>1, <1>2, <1>3, <1>4 DEF Late

\* A step that changes only what one handler is doing.
LEMMA TaskStep ==
  ASSUME WorkerInv, NEW h \in Handlers, NEW new \in Task, Does(h, new),
         UNCHANGED <<worker, queueRow, running, vouched, behind>>,
         new.pc \in {"register", "beat", "touch", "remove"} => new.id \in Ids,
         new.pc \in {"register", "beat"} => new.copy \in WorkerRow,
         new.pc = "remove" => new.id \notin vouched,
         new.pc = "detach" =>
           /\ queueRow # "active"
           /\ \A w \in Ids : InTable(w) /\ worker[w].named =>
                w \in behind \/ \E e \in new.list : e.id = w
  PROVE  WorkerInv'
<1>1. task' = [task EXCEPT ![h] = new]
  BY DEF Does
<1>2. \A w : InTable(w)' <=> InTable(w)
  BY DEF InTable
<1>3. WorkerTypes'
  BY <1>1 DEF WorkerInv, WorkerTypes
<1>4. Spared'
  BY <1>1, <1>2 DEF WorkerInv, WorkerTypes, Spared
<1>5. Detaching'
  BY <1>1, <1>2 DEF WorkerInv, WorkerTypes, Detaching, Covered
<1>6. NoneNamesGone'
  BY <1>2 DEF WorkerInv, NoneNamesGone
<1> QED BY <1>3, <1>4, <1>5, <1>6 DEF WorkerInv

LEMMA WorkerStep ==
  ASSUME WorkerInv, [WorkerNext]_workerVars
  PROVE  WorkerInv'
<1> USE WorkersAssumption
<1>1. CASE UNCHANGED workerVars
  BY <1>1 DEF WorkerInv, WorkerTypes, Spared, Detaching, Covered, NoneNamesGone, InTable, workerVars
<1>2. ASSUME NEW h \in Handlers, RegisterChecks(h) PROVE WorkerInv'
  <2>1. PICK w \in Ids, named \in BOOLEAN :
          Does(h, [Off EXCEPT !.pc = "register", !.id = w,
                              !.copy = [named |-> named, seen |-> "fresh"]])
    BY <1>2 DEF RegisterChecks
  <2>2. [named |-> named, seen |-> "fresh"] \in WorkerRow
    BY DEF WorkerRow
  <2> DEFINE new == [Off EXCEPT !.pc = "register", !.id = w,
                                !.copy = [named |-> named, seen |-> "fresh"]]
  <2>3. new \in Task /\ new.pc = "register" /\ new.id \in Ids /\ new.copy \in WorkerRow
    BY <2>2 DEF Off, Task
  <2> HIDE DEF new
  <2>4. Does(h, new)
    BY <2>1 DEF new
  <2> QED BY <1>2, <2>3, <2>4, TaskStep DEF RegisterChecks
<1>3. ASSUME NEW h \in Handlers, NEW w \in Ids, NEW r \in WorkerRow, NEW new \in Task,
             Writes(w, r), Does(h, new), UNCHANGED <<queueRow, running, vouched>>,
             \/ new = Off
             \/ task[h].pc = "detach" /\ new.pc = "detach" /\ ~r.named /\ new.list = Past(h, w)
      PROVE  WorkerInv'
  <2>1. WorkerTypes'
    BY <1>3, WritesRow DEF WorkerInv, WorkerTypes, Does, Off
  <2>2. Spared'
    BY <1>3, WritesRow DEF WorkerInv, WorkerTypes, Spared, Does, Off, Task
  <2>3. Detaching'
    BY <1>3, WritesRow DEF WorkerInv, WorkerTypes, Detaching, Covered, Does, Off, Past
  <2>4. NoneNamesGone'
    BY <1>3, WritesRow DEF WorkerInv, NoneNamesGone
  <2> QED BY <2>1, <2>2, <2>3, <2>4 DEF WorkerInv
<1>4. ASSUME NEW h \in Handlers, RegisterCreates(h) PROVE WorkerInv'
  <2>1. task[h].id \in Ids /\ task[h].copy \in WorkerRow /\ Off \in Task
    BY <1>4 DEF WorkerInv, WorkerTypes, RegisterCreates, Off, Task
  <2> QED BY <1>3, <1>4, <2>1 DEF RegisterCreates
<1>5. ASSUME NEW h \in Handlers, HeartbeatSaves(h) PROVE WorkerInv'
  <2>1. /\ task[h].id \in Ids /\ Off \in Task
        /\ [task[h].copy EXCEPT !.seen = "fresh"] \in WorkerRow
    BY <1>5 DEF WorkerInv, WorkerTypes, HeartbeatSaves, Off, Task, WorkerRow
  <2> QED BY <1>3, <1>5, <2>1 DEF HeartbeatSaves
<1>6. ASSUME NEW h \in Handlers, NEW w \in Ids, HeartbeatFinds(h, w) PROVE WorkerInv'
  <2>1. CASE InTable(w)
    <3> DEFINE new == [Off EXCEPT !.pc = "beat", !.id = w, !.copy = worker[w]]
    <3>1. new \in Task /\ new.pc = "beat" /\ new.id \in Ids /\ new.copy \in WorkerRow
      BY <2>1 DEF Off, Task, InTable
    <3>2. Does(h, new)
      BY <1>6, <2>1 DEF HeartbeatFinds
    <3> HIDE DEF new
    <3> QED BY <1>6, <3>1, <3>2, TaskStep DEF HeartbeatFinds
  <2>2. CASE ~InTable(w)
    BY <1>6, <2>2, TaskStep DEF HeartbeatFinds, Off, Task
  <2> QED BY <2>1, <2>2
<1>7. ASSUME NEW h \in Handlers, NEW w \in Ids, TouchRegisteredWorker(h, w) PROVE WorkerInv'
  <2>1. WorkerTypes'
    BY <1>7 DEF WorkerInv, WorkerTypes, TouchRegisteredWorker, Does, Off, Task
  <2>2. Spared'
    BY <1>7 DEF WorkerInv, WorkerTypes, Spared, InTable, TouchRegisteredWorker, Does, Off, Task
  <2>3. Detaching' /\ NoneNamesGone'
    BY <1>7 DEF WorkerInv, WorkerTypes, Detaching, Covered, NoneNamesGone, InTable,
                TouchRegisteredWorker, Does, Off
  <2> QED BY <2>1, <2>2, <2>3 DEF WorkerInv
<1>8. ASSUME NEW w \in Ids, JobEnds(w) PROVE WorkerInv'
  BY <1>8 DEF WorkerInv, WorkerTypes, Spared, Detaching, Covered, NoneNamesGone, InTable, JobEnds
<1>9. ASSUME NEW h \in Handlers, ListStale(h) PROVE WorkerInv'
  <2> DEFINE stale == Listed({w \in Ids : InTable(w) /\ worker[w].seen = "stale"})
             new == [Off EXCEPT !.pc = "purge", !.list = stale]
  <2>1. stale \subseteq Entry
    BY DEF Listed, InTable, Entry
  <2> HIDE DEF stale
  <2>2. new \in Task /\ new.pc = "purge"
    BY <2>1 DEF Off, Task
  <2>3. Does(h, new)
    BY <1>9 DEF ListStale, stale
  <2> HIDE DEF new
  <2> QED BY <1>9, <2>2, <2>3, TaskStep DEF ListStale
<1>10. ASSUME NEW h \in Handlers, HasRunningJobs(h) PROVE WorkerInv'
  <2>1. PICK e \in task[h].list :
          Does(h, IF e.id \in running THEN [task[h] EXCEPT !.list = Past(h, e.id)]
                  ELSE [task[h] EXCEPT !.pc = "remove", !.id = e.id, !.list = Past(h, e.id)])
    BY <1>10 DEF HasRunningJobs
  <2>2. task[h] \in Task /\ task[h].pc = "purge" /\ e \in Entry /\ Past(h, e.id) \subseteq Entry
    BY <1>10 DEF HasRunningJobs, WorkerInv, WorkerTypes, Task, Past
  <2>3. CASE e.id \in running
    <3> DEFINE new == [task[h] EXCEPT !.list = Past(h, e.id)]
    <3>1. new \in Task /\ new.pc = "purge"
      BY <2>2 DEF Task
    <3>2. Does(h, new)
      BY <2>1, <2>3
    <3> HIDE DEF new
    <3> QED BY <1>10, <3>1, <3>2, TaskStep DEF HasRunningJobs
  <2>4. CASE e.id \notin running
    <3> DEFINE new == [task[h] EXCEPT !.pc = "remove", !.id = e.id, !.list = Past(h, e.id)]
    <3>1. new \in Task /\ new.pc = "remove" /\ new.id = e.id
      BY <2>2 DEF Task, Entry
    <3>2. Does(h, new)
      BY <2>1, <2>4
    <3>3. e.id \in Ids /\ e.id \notin vouched
      BY <2>2, <2>4 DEF Entry, WorkerInv, Spared
    <3> HIDE DEF new
    <3> QED BY <1>10, <3>1, <3>2, <3>3, TaskStep DEF HasRunningJobs
  <2> QED BY <2>3, <2>4
<1>11. ASSUME NEW h \in Handlers, DeleteStale(h) PROVE WorkerInv'
  <2>1. WorkerTypes'
    BY <1>11 DEF WorkerInv, WorkerTypes, DeleteStale, Does, Task
  <2>2. Spared'
    BY <1>11 DEF WorkerInv, WorkerTypes, Spared, InTable, DeleteStale, Does, Task
  <2>3. Detaching' /\ NoneNamesGone'
    BY <1>11 DEF WorkerInv, WorkerTypes, Detaching, Covered, NoneNamesGone, InTable, DeleteStale,
                 Does, Task
  <2> QED BY <2>1, <2>2, <2>3 DEF WorkerInv
<1>12. CASE MarkDeleting
  BY <1>12 DEF WorkerInv, WorkerTypes, Spared, Detaching, Covered, NoneNamesGone, InTable, MarkDeleting
<1>13. ASSUME NEW h \in Handlers, ListByProject(h) PROVE WorkerInv'
  <2> DEFINE named == Listed({w \in Ids : InTable(w) /\ worker[w].named})
             new == [Off EXCEPT !.pc = "detach", !.list = named]
  <2>1. /\ named \subseteq Entry
        /\ \A w \in Ids : InTable(w) /\ worker[w].named =>
             [id |-> w, copy |-> worker[w]] \in named
    BY DEF Listed, InTable, Entry
  <2> HIDE DEF named
  <2>2. new \in Task /\ new.pc = "detach" /\ new.list = named
    BY <2>1 DEF Off, Task
  <2>3. Does(h, new)
    BY <1>13 DEF ListByProject, named
  <2>4. \A w \in Ids : InTable(w) /\ worker[w].named => \E e \in new.list : e.id = w
    BY <2>1, <2>2
  <2> HIDE DEF new
  <2> QED BY <1>13, <2>2, <2>3, <2>4, TaskStep DEF ListByProject
<1>14. ASSUME NEW h \in Handlers, RemoveQueue(h) PROVE WorkerInv'
  <2>1. PICK e \in task[h].list :
          /\ Writes(e.id, [e.copy EXCEPT !.named = FALSE])
          /\ Does(h, [task[h] EXCEPT !.list = Past(h, e.id)])
    BY <1>14 DEF RemoveQueue
  <2>2. e \in Entry /\ Past(h, e.id) \subseteq Entry
    BY DEF WorkerInv, WorkerTypes, Task, Past
  <2>3. /\ e.id \in Ids /\ [e.copy EXCEPT !.named = FALSE] \in WorkerRow
        /\ [e.copy EXCEPT !.named = FALSE].named = FALSE
    BY <2>2 DEF Entry, WorkerRow
  <2>4. /\ [task[h] EXCEPT !.list = Past(h, e.id)] \in Task
        /\ [task[h] EXCEPT !.list = Past(h, e.id)].pc = task[h].pc
        /\ [task[h] EXCEPT !.list = Past(h, e.id)].list = Past(h, e.id)
    BY <2>2 DEF WorkerInv, WorkerTypes, Task
  <2> QED BY <1>3, <1>14, <2>1, <2>3, <2>4 DEF RemoveQueue
<1>15. ASSUME NEW h \in Handlers, DropQueue(h) PROVE WorkerInv'
  BY <1>15 DEF WorkerInv, WorkerTypes, Spared, Detaching, Covered, NoneNamesGone, InTable, DropQueue,
               Does, Off, Task
<1>16. ASSUME NEW h \in Handlers, Stops(h) PROVE WorkerInv'
  BY <1>16 DEF WorkerInv, WorkerTypes, Spared, Detaching, Covered, NoneNamesGone, InTable, Stops,
               Does, Off, Task
<1>17. ASSUME NEW w \in Ids, FallsSilent(w) PROVE WorkerInv'
  BY <1>17 DEF WorkerInv, WorkerTypes, Spared, Detaching, Covered, NoneNamesGone, InTable,
               FallsSilent, WorkerRow
<1> QED
  BY <1>1, <1>2, <1>4, <1>5, <1>6, <1>7, <1>8, <1>9, <1>10, <1>11, <1>12, <1>13, <1>14, <1>15,
     <1>16, <1>17
  DEF WorkerNext, Registers, WorkerBeats, PurgeStaleWorkers, DetachQueueFromWorkers

\* A worker with a job keeps the row it claimed it with, and no row names the
\* queue after its cascade but by a late write, for any number of workers,
\* requests, purges and cascades (PurgeStaleWorkers, Heartbeat,
\* detachQueueFromWorkers).
THEOREM WorkersKeepHolding == WorkerSpec => []WorkersHold
<1>1. WorkerInit => WorkerInv
  BY WorkersAssumption
  DEF WorkerInit, WorkerInv, WorkerTypes, Spared, Detaching, NoneNamesGone, InTable, Off, Task
<1>2. WorkerInv /\ [WorkerNext]_workerVars => WorkerInv'
  BY WorkerStep
<1>3. WorkerInv => WorkersHold
  BY DEF WorkerInv, Spared, WorkersHold, HolderCanBeat
<1> QED BY <1>1, <1>2, <1>3, PTL DEF WorkerSpec

-----------------------------------------------------------------------------
(* PlatformRuntime *)

\* The loop has a job exactly while it runs or answers one, and the rest of a
\* round only between jobs.
LoopFits ==
  /\ loop \in [pc: {"select", "round", "job", "ack", "nack", "exited"},
              todo: SUBSET Duties, duty: Duties \cup {NoDuty}]
  /\ loop.duty \in Duties <=> loop.pc \in {"job", "ack", "nack"}
  /\ runtime \in {"off", "started", "stopping", "stopped"}
  /\ runtime \in {"off", "stopped"} => loop.pc = "exited"

Jobs == [status: {"none", "pending", "running", "delayed", "completed", "dlq"}, attempt: Nat]
RuntimeInv == LoopFits /\ platform \in [Duties -> Jobs] /\ JobsAnswered

LEMMA RuntimeStep ==
  ASSUME RuntimeInv, [RuntimeNext]_runtimeVars
  PROVE  RuntimeInv'
<1> USE RuntimeAssumption DEF RuntimeInv, LoopFits, JobsAnswered, Waiting, Cancelled
<1>1. CASE UNCHANGED runtimeVars
  BY <1>1 DEF runtimeVars
<1>2. CASE StartRuntime
  BY <1>2 DEF StartRuntime
<1>3. CASE WorkerLoop
  BY <1>3 DEF WorkerLoop
<1>4. CASE ProcessPlatformQueues
  BY <1>4 DEF ProcessPlatformQueues
<1>5. CASE ProcessQueue
  <2>1. PICK d \in loop.todo :
          IF platform[d].status = "pending" /\ ~Cancelled
          THEN /\ platform' = [platform EXCEPT ![d] = [status |-> "running", attempt |-> @.attempt + 1]]
               /\ \/ /\ loop' = [loop EXCEPT !.pc = "job", !.todo = @ \ {d}, !.duty = d]
                     /\ UNCHANGED <<lost, mishaps>>
                  \/ /\ Mishap /\ lost' = lost \cup {d}
                     /\ loop' = [loop EXCEPT !.todo = @ \ {d}]
          ELSE /\ loop' = [loop EXCEPT !.todo = @ \ {d}]
               /\ UNCHANGED <<platform, lost, mishaps>>
    BY <1>5 DEF ProcessQueue
  <2>2. d \in Duties /\ runtime' = runtime /\ loop.pc = "round"
    BY <1>5 DEF ProcessQueue
  <2>3. CASE platform[d].status = "pending" /\ ~Cancelled
    <3>1. [status |-> "running", attempt |-> platform[d].attempt + 1] \in Jobs
      BY <2>2 DEF Jobs
    <3>2. platform' \in [Duties -> Jobs] /\ \A e \in Duties \ {d} : platform'[e] = platform[e]
      BY <2>1, <2>2, <2>3, <3>1
    <3>3. CASE /\ loop' = [loop EXCEPT !.pc = "job", !.todo = @ \ {d}, !.duty = d]
               /\ UNCHANGED <<lost, mishaps>>
      BY <2>2, <2>3, <3>2, <3>3
    <3>4. CASE lost' = lost \cup {d} /\ loop' = [loop EXCEPT !.todo = @ \ {d}]
      BY <2>2, <3>2, <3>4
    <3> QED BY <2>1, <2>3, <3>3, <3>4
  <2>4. CASE ~(platform[d].status = "pending" /\ ~Cancelled)
    BY <2>1, <2>2, <2>4
  <2> QED BY <2>3, <2>4
<1>6. CASE RunHandler
  BY <1>6 DEF RunHandler
<1>7. ASSUME NEW status \in {"completed", "delayed", "dlq"}, Settle(status), loop.pc \in {"ack", "nack"}
      PROVE  RuntimeInv'
  <2>1. loop' = [loop EXCEPT !.pc = "round", !.duty = NoDuty] /\ runtime' = runtime
    BY <1>7 DEF Settle
  <2>2. CASE platform' = [platform EXCEPT ![loop.duty].status = status] /\ UNCHANGED <<lost, mishaps>>
    <3>1. loop.duty \in Duties /\ status # "running"
      BY <1>7
    <3>2. [platform[loop.duty] EXCEPT !.status = status] \in Jobs
      BY <3>1 DEF Jobs
    <3>3. /\ platform' \in [Duties -> Jobs] /\ platform'[loop.duty].status = status
          /\ \A d \in Duties \ {loop.duty} : platform'[d] = platform[d]
      BY <2>2, <3>1, <3>2 DEF Jobs
    <3> QED BY <1>7, <2>1, <2>2, <3>1, <3>3
  <2>3. CASE lost' = lost \cup {loop.duty} /\ UNCHANGED platform
    BY <1>7, <2>1, <2>3
  <2> QED BY <1>7, <2>2, <2>3 DEF Settle
<1>8. CASE AckJob
  BY <1>7, <1>8 DEF AckJob
<1>9. CASE NackJob
  BY <1>7, <1>9 DEF NackJob
<1>10. CASE StopRuntime
  BY <1>10 DEF StopRuntime
<1>11. ASSUME NEW d \in Duties, Enqueues(d) PROVE RuntimeInv'
  BY <1>11 DEF Enqueues, Jobs
<1>12. ASSUME NEW d \in Duties, DelayEnds(d) PROVE RuntimeInv'
  BY <1>12 DEF DelayEnds, Jobs
<1> QED
  BY <1>1, <1>2, <1>3, <1>4, <1>5, <1>6, <1>8, <1>9, <1>10, <1>11, <1>12 DEF RuntimeNext, ExecuteJob

\* A job of the platform that was claimed is answered before the next and before
\* Stop returns, unless the database failed, for any tasks, attempts, panics and
\* errors (executeJob, Stop).
THEOREM ClaimedJobsAnswered == RuntimeSpec => []JobsAnswered
<1>1. RuntimeInit => RuntimeInv
  BY RuntimeAssumption
  DEF RuntimeInit, RuntimeInv, LoopFits, JobsAnswered, Waiting, NoJob, Jobs
<1>2. RuntimeInv /\ [RuntimeNext]_runtimeVars => RuntimeInv'
  BY RuntimeStep
<1>3. RuntimeInv => JobsAnswered
  BY DEF RuntimeInv
<1> QED BY <1>1, <1>2, <1>3, PTL DEF RuntimeSpec

-----------------------------------------------------------------------------
(* RateGate *)

Pass == [at: Int, by: Nat]

\* Limiter k let at most n messages through from one time to another.
PassesIn(p, k, from, to) == {i \in DOMAIN p : p[i].by = k /\ p[i].at >= from /\ p[i].at < to}
AtMost(p, k, from, to, n) == Cardinality(PassesIn(p, k, from, to)) <= n
\* No message passes limiter k at that time or later.
Ended(p, k, time) == \A i \in DOMAIN p : p[i].by = k => p[i].at < time

\* What a list of passes says of the limiter that is the k-th, with a limit, the
\* start of its window and its count: as many as it counted in the window, in the
\* stretch of a window's length before its start at most the limit, and in no
\* other stretch of that length more than twice the limit.
Fits(p, k, limit, start, count) ==
  /\ limit > 0 /\ count <= limit
  /\ AtMost(p, k, start, start + Window, count)
  /\ AtMost(p, k, start - Window + 1, start, limit)
  /\ \A t \in Int : AtMost(p, k, t, t + Window, 2 * limit)
  /\ Ended(p, k, start + Window)

LEMMA WindowPositive == Window \in Int /\ Window > 0
BY GateAssumption DEF GateAssumption

LEMMA PassTypes ==
  ASSUME NEW p \in Seq(Pass)
  PROVE  /\ Len(p) \in Nat /\ DOMAIN p = 1..Len(p)
         /\ \A i \in DOMAIN p : p[i] \in Pass /\ p[i].at \in Int /\ p[i].by \in Nat
<1>1. Len(p) \in Nat /\ DOMAIN p = 1..Len(p) /\ \A i \in DOMAIN p : p[i] \in Pass
  OBVIOUS
<1> QED BY <1>1 DEF Pass

LEMMA MorePasses ==
  ASSUME NEW p \in Seq(Pass), NEW e \in Pass
  PROVE  /\ Append(p, e) \in Seq(Pass)
         /\ DOMAIN Append(p, e) = 1..(Len(p) + 1)
         /\ Append(p, e)[Len(p) + 1] = e
         /\ \A i \in DOMAIN p : i \in 1..(Len(p) + 1) /\ i # Len(p) + 1 /\ Append(p, e)[i] = p[i]
         /\ \A i \in 1..(Len(p) + 1) : i # Len(p) + 1 => i \in DOMAIN p
<1>1. Len(p) \in Nat /\ DOMAIN p = 1..Len(p)
  BY PassTypes
<1> QED BY <1>1

LEMMA PassesFinite ==
  ASSUME NEW p \in Seq(Pass), NEW k, NEW a \in Int, NEW b \in Int
  PROVE  IsFiniteSet(PassesIn(p, k, a, b)) /\ Cardinality(PassesIn(p, k, a, b)) \in Nat
<1> DEFINE s == PassesIn(p, k, a, b)
<1>1. IsFiniteSet(1..Len(p))
  BY PassTypes, FS_Interval
<1>2. s \in SUBSET (1..Len(p))
  BY PassTypes DEF PassesIn
<1> HIDE DEF s
<1>3. IsFiniteSet(s)
  BY <1>1, <1>2, FS_Subset
<1>4. Cardinality(s) \in Nat
  BY <1>3, FS_CardinalityType
<1> QED BY <1>3, <1>4 DEF s

\* A stretch of time within another has no more passes than it.
LEMMA Narrower ==
  ASSUME NEW p \in Seq(Pass), NEW k, NEW a \in Int, NEW b \in Int, NEW c \in Int,
         NEW d \in Int, NEW n \in Int, NEW m \in Int, AtMost(p, k, c, d, n), n <= m,
         \A i \in DOMAIN p : p[i].by = k /\ p[i].at >= a /\ p[i].at < b =>
           p[i].at >= c /\ p[i].at < d
  PROVE  AtMost(p, k, a, b, m)
<1> DEFINE A == PassesIn(p, k, a, b)
           B == PassesIn(p, k, c, d)
<1>1. A \in SUBSET B
  BY DEF PassesIn
<1>2. IsFiniteSet(B) /\ Cardinality(A) \in Nat /\ Cardinality(B) \in Nat
  BY PassesFinite
<1>3. Cardinality(B) <= n
  BY DEF AtMost
<1> HIDE DEF A, B
<1>4. Cardinality(A) <= Cardinality(B)
  BY <1>1, <1>2, FS_Subset
<1>5. Cardinality(A) <= m
  BY <1>2, <1>3, <1>4
<1> QED BY <1>5 DEF AtMost, A

\* Two stretches that meet have the passes of both.
LEMMA Joined ==
  ASSUME NEW p \in Seq(Pass), NEW k, NEW a \in Int, NEW b \in Int, NEW c \in Int,
         NEW n \in Int, NEW m \in Int, AtMost(p, k, a, b, n), AtMost(p, k, b, c, m)
  PROVE  AtMost(p, k, a, c, n + m)
<1> DEFINE A == PassesIn(p, k, a, b)
           B == PassesIn(p, k, b, c)
           C == PassesIn(p, k, a, c)
<1>1. /\ IsFiniteSet(A) /\ IsFiniteSet(B) /\ Cardinality(A) \in Nat /\ Cardinality(B) \in Nat
      /\ Cardinality(C) \in Nat
  BY PassesFinite
<1>2. C \in SUBSET (A \cup B)
  BY PassTypes DEF PassesIn
<1>3. Cardinality(A) <= n /\ Cardinality(B) <= m
  BY DEF AtMost
<1> HIDE DEF A, B, C
<1>4. /\ IsFiniteSet(A \cup B)
      /\ Cardinality(A \cup B) = Cardinality(A) + Cardinality(B) - Cardinality(A \cap B)
  BY <1>1, FS_Union
<1>5. IsFiniteSet(A \cap B)
  BY <1>1, FS_Intersection
<1>6. Cardinality(A \cap B) \in Nat /\ Cardinality(A \cup B) \in Nat
  BY <1>4, <1>5, FS_CardinalityType
<1>7. Cardinality(C) <= Cardinality(A \cup B)
  BY <1>2, <1>4, FS_Subset
<1>8. Cardinality(C) <= n + m
  BY <1>1, <1>3, <1>4, <1>6, <1>7
<1> QED BY <1>8 DEF AtMost, C

\* One more pass adds at most one to a stretch, and none to where it is not.
LEMMA OneMore ==
  ASSUME NEW p \in Seq(Pass), NEW e \in Pass, NEW k, NEW a \in Int, NEW b \in Int,
         NEW n \in Int, AtMost(p, k, a, b, n)
  PROVE  /\ AtMost(Append(p, e), k, a, b, n + 1)
         /\ e.by # k \/ e.at < a \/ e.at >= b => AtMost(Append(p, e), k, a, b, n)
<1> DEFINE q == Append(p, e)
           x == Len(p) + 1
           A == PassesIn(p, k, a, b)
           B == PassesIn(q, k, a, b)
<1>1. /\ q \in Seq(Pass) /\ DOMAIN q = 1..x /\ q[x] = e
      /\ \A i \in DOMAIN p : i \in 1..x /\ i # x /\ q[i] = p[i]
      /\ \A i \in 1..x : i # x => i \in DOMAIN p
  BY MorePasses
<1>2. IsFiniteSet(A) /\ Cardinality(A) \in Nat
  BY PassesFinite
<1>3. IsFiniteSet(B) /\ Cardinality(B) \in Nat
  <2> HIDE DEF q
  <2> QED BY <1>1, PassesFinite
<1>4. Cardinality(A) <= n
  BY DEF AtMost
<1> HIDE DEF q, x
<1>5. B \in SUBSET (A \cup {x})
  BY <1>1 DEF PassesIn
<1>6. e.by # k \/ ~(e.at >= a) \/ ~(e.at < b) => B \in SUBSET A
  BY <1>1 DEF PassesIn
<1>7. e.at < a \/ e.at >= b => ~(e.at >= a) \/ ~(e.at < b)
  BY DEF Pass
<1> HIDE DEF A, B
<1>8. IsFiniteSet(A \cup {x}) /\ Cardinality(A \cup {x}) \in Nat
      /\ Cardinality(A \cup {x}) <= Cardinality(A) + 1
  <2>1. /\ IsFiniteSet(A \cup {x})
        /\ Cardinality(A \cup {x}) = IF x \in A THEN Cardinality(A) ELSE Cardinality(A) + 1
    BY <1>2, FS_AddElement
  <2> QED BY <1>2, <2>1
<1>9. Cardinality(B) <= n + 1
  <2>1. Cardinality(B) <= Cardinality(A \cup {x})
    BY <1>5, <1>8, FS_Subset
  <2> QED BY <1>2, <1>3, <1>4, <1>8, <2>1
<1>10. B \in SUBSET A => Cardinality(B) <= n
  <2>1. ASSUME B \in SUBSET A PROVE Cardinality(B) <= Cardinality(A)
    BY <1>2, <2>1, FS_Subset
  <2> QED BY <1>2, <1>3, <1>4, <2>1
<1>11. AtMost(q, k, a, b, n + 1)
  BY <1>9 DEF AtMost, B
<1>12. B \in SUBSET A => AtMost(q, k, a, b, n)
  BY <1>10 DEF AtMost, B
<1> QED BY <1>6, <1>7, <1>11, <1>12 DEF q

LEMMA NonePassed ==
  ASSUME NEW p, NEW k, NEW a, NEW b,
         \A i \in DOMAIN p : ~(p[i].by = k /\ p[i].at >= a /\ p[i].at < b)
  PROVE  AtMost(p, k, a, b, 0)
<1>1. PassesIn(p, k, a, b) = {}
  BY DEF PassesIn
<1>2. Cardinality(PassesIn(p, k, a, b)) = 0
  BY <1>1, FS_EmptySet
<1> QED BY <1>2 DEF AtMost

\* A limiter with another message in its window.
LEMMA SameWindow ==
  ASSUME NEW p \in Seq(Pass), NEW e \in Pass, NEW limit \in Int, NEW start \in Int,
         NEW count \in Int, Fits(p, e.by, limit, start, count),
         e.at >= start, e.at < start + Window, count < limit
  PROVE  Fits(Append(p, e), e.by, limit, start, count + 1)
<1> DEFINE r == Append(p, e)
           k == e.by
           W == Window
           from == start - W + 1
           to == start + W
<1>1. e.at \in Int /\ k \in Nat /\ W \in Int /\ W > 0 /\ from \in Int /\ to \in Int
      /\ e.at >= start /\ e.at < to
  BY WindowPositive DEF Pass
<1>2. /\ r \in Seq(Pass) /\ DOMAIN r = 1..(Len(p) + 1) /\ r[Len(p) + 1] = e
      /\ \A i \in DOMAIN p : r[i] = p[i]
      /\ \A i \in 1..(Len(p) + 1) : i # Len(p) + 1 => i \in DOMAIN p
  BY MorePasses
<1>3. /\ AtMost(p, k, start, to, count) /\ AtMost(p, k, from, start, limit)
      /\ \A t \in Int : AtMost(p, k, t, t + W, 2 * limit)
      /\ Ended(p, k, to) /\ limit > 0
  BY DEF Fits
<1>4. \A t \in Int : t + W \in Int /\ (t + W > e.at => t >= from)
  BY <1>1
<1> HIDE DEF W, k, from, to
<1>5. AtMost(r, k, start, to, count + 1)
  BY <1>1, <1>3, OneMore
<1>6. AtMost(r, k, from, start, limit)
  BY <1>1, <1>3, OneMore
<1>7. Ended(r, k, to)
  BY <1>1, <1>2, <1>3 DEF Ended
<1> HIDE DEF r
<1>8. AtMost(r, k, from, to, limit + (count + 1))
  BY <1>1, <1>2, <1>5, <1>6, Joined
<1>9. ASSUME NEW t \in Int PROVE AtMost(r, k, t, t + W, 2 * limit)
  <2>0. 2 * limit \in Int
    OBVIOUS
  <2>1. AtMost(p, k, t, t + W, 2 * limit) /\ t + W \in Int /\ 2 * limit \in Int
    BY <1>3, <1>4, <2>0
  <2>2. CASE e.at < t \/ e.at >= t + W
    BY <2>1, <2>2, OneMore DEF r
  <2>3. CASE ~(e.at < t \/ e.at >= t + W)
    <3>1. t >= from /\ limit + (count + 1) \in Int /\ limit + (count + 1) <= 2 * limit
      BY <1>1, <1>4, <2>1, <2>3
    <3>2. \A i \in DOMAIN r : r[i].by = k /\ r[i].at >= t /\ r[i].at < t + W =>
            r[i].at >= from /\ r[i].at < to
      <4>1. \A i \in DOMAIN r : r[i].at \in Int
        BY <1>2, PassTypes
      <4> QED BY <1>1, <1>7, <3>1, <4>1 DEF Ended
    <3> QED BY <1>1, <1>2, <1>8, <2>1, <3>1, <3>2, Narrower
  <2> QED BY <2>2, <2>3
<1> QED BY <1>3, <1>5, <1>6, <1>7, <1>9 DEF Fits, r, k, W, from, to

\* A limiter whose next window begins with a message.
LEMMA NextWindow ==
  ASSUME NEW p \in Seq(Pass), NEW e \in Pass, NEW limit \in Int, NEW start \in Int,
         NEW count \in Int, Fits(p, e.by, limit, start, count), e.at - start >= Window
  PROVE  Fits(Append(p, e), e.by, limit, e.at, 1)
<1> DEFINE r == Append(p, e)
           k == e.by
           instant == e.at
           W == Window
           from == instant - W + 1
           to == start + W
<1>1. instant \in Int /\ k \in Nat /\ W \in Int /\ W > 0 /\ from \in Int /\ to \in Int
      /\ instant >= to /\ instant + W \in Int /\ instant < instant + W /\ from > start /\ from + W = instant + 1
  BY WindowPositive DEF Pass
<1>2. /\ r \in Seq(Pass) /\ DOMAIN r = 1..(Len(p) + 1) /\ r[Len(p) + 1] = e
      /\ \A i \in DOMAIN p : r[i] = p[i]
      /\ \A i \in 1..(Len(p) + 1) : i # Len(p) + 1 => i \in DOMAIN p
  BY MorePasses
<1>3. /\ AtMost(p, k, start, to, count) /\ count <= limit
      /\ \A t \in Int : AtMost(p, k, t, t + W, 2 * limit)
      /\ Ended(p, k, to) /\ limit > 0
  BY DEF Fits
<1>4. \A t \in Int : t + W \in Int /\ (t + W > instant => t > start)
  BY <1>1
<1>5. \A i \in DOMAIN p : p[i].at \in Int
  BY PassTypes
<1> HIDE DEF W, k, instant, from, to
<1>12. \A i \in DOMAIN p : p[i].by = k => p[i].at < instant /\ ~(p[i].at >= instant)
  <2>1. ASSUME NEW i \in DOMAIN p, p[i].by = k PROVE p[i].at < instant /\ ~(p[i].at >= instant)
    <3>1. p[i].at \in Int /\ p[i].at < to
      BY <1>3, <1>5, <2>1 DEF Ended
    <3> QED BY <1>1, <3>1
  <2> QED BY <2>1
<1>6. AtMost(r, k, instant, instant + W, 1)
  <2>1. \A i \in DOMAIN p : ~(p[i].by = k /\ p[i].at >= instant /\ p[i].at < instant + W)
    BY <1>12
  <2>2. AtMost(p, k, instant, instant + W, 0)
    BY <2>1, NonePassed
  <2>3. AtMost(r, k, instant, instant + W, 0 + 1)
    BY <1>1, <2>2, OneMore
  <2> QED BY <2>3
\* What was let through lately is in the window that is over.
<1>7. ASSUME NEW t \in Int, NEW u \in Int, t > start PROVE AtMost(p, k, t, u, limit)
  <2>1. \A i \in DOMAIN p : p[i].by = k /\ p[i].at >= t /\ p[i].at < u =>
          p[i].at >= start /\ p[i].at < to
    <3>1. ASSUME NEW i \in DOMAIN p, p[i].by = k, p[i].at >= t
          PROVE  p[i].at >= start /\ p[i].at < to
      <4>1. p[i].at \in Int /\ p[i].at < to
        BY <1>3, <1>5, <3>1 DEF Ended
      <4> QED BY <1>7, <3>1, <4>1
    <3> QED BY <3>1
  <2> QED BY <1>1, <1>3, <1>7, <2>1, Narrower
<1>8. AtMost(r, k, from, instant, limit)
  <2>1. AtMost(p, k, from, instant, limit)
    BY <1>1, <1>7
  <2>2. instant >= instant
    BY <1>1
  <2> QED BY <1>1, <2>1, <2>2, OneMore DEF instant
<1>9. Ended(r, k, instant + W)
  <2>1. ASSUME NEW i \in DOMAIN r, r[i].by = k PROVE r[i].at < instant + W
    <3>1. CASE i = Len(p) + 1
      BY <1>1, <1>2, <3>1 DEF instant
    <3>2. CASE i # Len(p) + 1
      <4>1. i \in DOMAIN p /\ r[i] = p[i]
        BY <1>2, <3>2
      <4>2. p[i].at < instant /\ p[i].at \in Int
        BY <1>5, <1>12, <2>1, <4>1
      <4> QED BY <1>1, <4>1, <4>2
    <3> QED BY <3>1, <3>2
  <2> QED BY <2>1 DEF Ended
<1>10. ASSUME NEW t \in Int PROVE AtMost(r, k, t, t + W, 2 * limit)
  <2>0. 2 * limit \in Int
    OBVIOUS
  <2>1. AtMost(p, k, t, t + W, 2 * limit) /\ t + W \in Int /\ 2 * limit \in Int
    BY <1>3, <1>4, <2>0
  <2>2. CASE instant < t \/ instant >= t + W
    BY <2>1, <2>2, OneMore DEF instant
  <2>3. CASE ~(instant < t \/ instant >= t + W)
    <3>1. t > start
      BY <1>1, <1>4, <2>1, <2>3
    <3>2. AtMost(p, k, t, t + W, limit)
      BY <1>7, <2>1, <3>1
    <3>3. AtMost(r, k, t, t + W, limit + 1)
      BY <2>1, <3>2, OneMore
    <3>4. limit + 1 \in Int /\ limit + 1 <= 2 * limit
      BY <1>3
    <3> QED BY <1>2, <2>1, <3>3, <3>4, Narrower
  <2> QED BY <2>2, <2>3
<1>11. 1 <= limit
  BY <1>3
<1> QED BY <1>3, <1>6, <1>8, <1>9, <1>10, <1>11 DEF Fits, r, k, W, instant, from, to

\* A limiter that another one's message passes by, and one that has just been made.
LEMMA OtherLimiter ==
  ASSUME NEW p \in Seq(Pass), NEW e \in Pass, NEW k, e.by # k, NEW limit \in Int,
         NEW start \in Int, NEW count \in Int, Fits(p, k, limit, start, count)
  PROVE  Fits(Append(p, e), k, limit, start, count)
<1> DEFINE r == Append(p, e)
<1>1. /\ Window \in Int /\ start + Window \in Int /\ start - Window + 1 \in Int
      /\ 2 * limit \in Int /\ \A t \in Int : t + Window \in Int
  BY WindowPositive
<1>2. AtMost(r, k, start, start + Window, count)
  BY <1>1, OneMore DEF Fits
<1>3. AtMost(r, k, start - Window + 1, start, limit)
  BY <1>1, OneMore DEF Fits
<1>4. ASSUME NEW t \in Int PROVE AtMost(r, k, t, t + Window, 2 * limit)
  <2>1. AtMost(p, k, t, t + Window, 2 * limit) /\ t + Window \in Int
    BY <1>1 DEF Fits
  <2> QED BY <1>1, <2>1, OneMore
<1>5. Ended(r, k, start + Window)
  BY MorePasses DEF Fits, Ended
<1> HIDE DEF r
<1>6. limit > 0 /\ count <= limit
  BY DEF Fits
<1> QED BY <1>2, <1>3, <1>4, <1>5, <1>6 DEF Fits, r

LEMMA NewLimiter ==
  ASSUME NEW p \in Seq(Pass), NEW k, \A i \in DOMAIN p : p[i].by # k,
         NEW limit \in Int, NEW start \in Int, limit > 0
  PROVE  Fits(p, k, limit, start, 0)
<1>1. \A a, b \in Int : AtMost(p, k, a, b, 0)
  BY NonePassed
<1>2. /\ Window \in Int /\ start + Window \in Int /\ start - Window + 1 \in Int
      /\ \A t \in Int : t + Window \in Int
  BY WindowPositive
<1>3. \A a, b \in Int, n \in Int : n >= 0 => AtMost(p, k, a, b, n)
  <2>1. ASSUME NEW a \in Int, NEW b \in Int, NEW n \in Int, n >= 0 PROVE AtMost(p, k, a, b, n)
    <3>1. 0 \in Int /\ 0 <= n
      BY <2>1
    <3> QED BY <1>1, <3>1, Narrower
  <2> QED BY <2>1
<1>4. 2 * limit \in Int /\ 2 * limit >= 0 /\ limit >= 0 /\ 0 <= limit
  OBVIOUS
<1>5. Ended(p, k, start + Window)
  BY DEF Ended
<1>6. \A t \in Int : AtMost(p, k, t, t + Window, 2 * limit)
  BY <1>2, <1>3, <1>4
<1>7. AtMost(p, k, start, start + Window, 0) /\ AtMost(p, k, start - Window + 1, start, limit)
  BY <1>1, <1>2, <1>3, <1>4
<1> QED BY <1>4, <1>5, <1>6, <1>7 DEF Fits

Limiter == [limit: Int, start: Int, count: Int]
Asked == [pc: {"idle", "find", "cache", "limiter", "allow"}, limit: Int, limiter: Nat]

GateTypes ==
  /\ clock \in Int /\ moves \in Nat
  /\ {limitsRow, limitsCache, setting} \subseteq Limits \cup {NoLimits}
  /\ limiters \in Seq(Limiter) /\ passed \in Seq(Pass)
  /\ at \in [Requests -> Asked]
  /\ \A q \in Requests :
       /\ at[q].pc \in {"cache", "limiter"} => at[q].limit \in Limits
       /\ at[q].pc = "allow" => at[q].limiter \in DOMAIN limiters

\* What is about to be cached, or has been, is the row, or will be before the lock is free.
LookupFits ==
  ~unseen =>
    /\ setting # NoLimits => limitsRow = setting
    /\ setting = NoLimits /\ limitsCache # NoLimits => limitsCache = limitsRow
    /\ \A q \in Requests : at[q].pc = "cache" => at[q].limit = limitsRow

\* Each limiter and what passed it.
LimitersFit ==
  /\ \A i \in DOMAIN passed : passed[i].by \in DOMAIN limiters
  /\ \A k \in DOMAIN limiters :
       /\ Fits(passed, k, limiters[k].limit, limiters[k].start, limiters[k].count)
       /\ limiters[k].start <= clock

\* How many limiters the requests at the gate can still cost without another
\* change of the limits: one with other limits has one made for it, and the next
\* one with the limits in force another; if nobody else is at the gate, the first
\* of them is not preceded by such a one.
Stale == {q \in Requests : at[q].pc = "limiter" /\ at[q].limit # InForce}
Newest(v) == limiters # <<>> /\ limiters[Len(limiters)].limit = v
Each == 2 * Cardinality(Requests) - 1
Owing ==
  IF Stale = Requests
  THEN IF \A q \in Requests : Newest(at[q].limit) THEN Each ELSE Each + 1
  ELSE 2 * Cardinality(Stale) + IF Newest(InForce) THEN 0 ELSE 1
Afforded ==
  /\ moves = 0 => /\ limiters = <<>> /\ InForce = NoLimits
                  /\ \A q \in Requests : at[q].pc \in {"idle", "find"}
  /\ moves > 0 => Len(limiters) + Owing <= 1 + Each * (moves - 1)

GateInv == GateTypes /\ LookupFits /\ LimitersFit /\ Afforded

LEMMA StaleCount ==
  /\ Cardinality(Requests) \in Nat /\ Cardinality(Requests) >= 1 /\ Each \in Int
  /\ IsFiniteSet(Stale) /\ Cardinality(Stale) \in Nat
  /\ Cardinality(Stale) <= Cardinality(Requests)
  /\ Stale # Requests => Cardinality(Stale) <= Cardinality(Requests) - 1
  /\ Stale = Requests => Cardinality(Stale) = Cardinality(Requests)
  /\ Cardinality(Stale) = 0 <=> Stale = {}
<1>1. IsFiniteSet(Requests) /\ Requests # {} /\ Stale \in SUBSET Requests
  BY GateAssumption DEF GateAssumption, Stale
<1>2. Cardinality(Requests) \in Nat /\ Cardinality(Requests) # 0
  BY <1>1, FS_CardinalityType, FS_EmptySet
<1>3. /\ IsFiniteSet(Stale) /\ Cardinality(Stale) <= Cardinality(Requests)
      /\ Cardinality(Requests) = Cardinality(Stale) => Requests = Stale
  BY <1>1, FS_Subset
<1>4. Cardinality(Stale) \in Nat /\ (Cardinality(Stale) = 0 <=> Stale = {})
  BY <1>3, FS_CardinalityType, FS_EmptySet
<1> HIDE DEF Stale
<1> QED BY <1>2, <1>3, <1>4 DEF Each

LEMMA OwingBounds ==
  /\ Owing \in Int /\ Owing >= 0 /\ Owing <= Each + 1
  /\ Stale # Requests => Owing <= Each
  /\ Stale = Requests => Owing >= Each
<1> USE StaleCount DEF Owing, Each
<1> HIDE DEF Stale
<1>1. CASE Stale = Requests
  BY <1>1
<1>2. CASE Stale # Requests
  BY <1>2
<1> QED BY <1>1, <1>2

\* A request that no longer has other limits owes nothing more.
LEMMA OwesLess ==
  ASSUME NEW q \in Requests, Stale' = Stale \ {q}, InForce' = InForce,
         \A v : Newest(v)' <=> Newest(v)
  PROVE  Owing' <= Owing
<1> DEFINE n == Cardinality(Requests)
           c == Cardinality(Stale)
           d == Cardinality(Stale')
           new == Newest(InForce)
<1>1. n \in Nat /\ n >= 1 /\ c \in Nat /\ c <= n /\ Each = 2 * n - 1 /\ IsFiniteSet(Stale)
      /\ (Stale # Requests => c <= n - 1) /\ Owing \in Int
      /\ (Stale = Requests => c = n /\ Owing >= Each)
  BY StaleCount, OwingBounds DEF Each
<1>2. d \in Nat /\ d <= n - 1 /\ d <= c /\ Stale' # Requests
  <2>1. Stale' # Requests
    OBVIOUS
  <2>2. Cardinality(Stale \ {q}) = IF q \in Stale THEN Cardinality(Stale) - 1 ELSE Cardinality(Stale)
    BY <1>1, FS_RemoveElement
  <2>3. (d \in Nat /\ (Stale' # Requests => d <= n - 1))
    <3>1. (Cardinality(Stale) \in Nat
            /\ (Stale # Requests => Cardinality(Stale) <= Cardinality(Requests) - 1))'
      BY StaleCount, PTL
    <3> QED BY <3>1
  <2>4. d <= c
    <3> HIDE DEF n
    <3> QED BY <1>1, <2>2
  <2> QED BY <2>1, <2>3, <2>4
<1>3. Owing' = 2 * d + IF new THEN 0 ELSE 1
  <2>1. Newest(InForce)' <=> new
    OBVIOUS
  <2> QED BY <1>2, <2>1 DEF Owing
<1>4. Stale # Requests => Owing = 2 * c + IF new THEN 0 ELSE 1
  BY DEF Owing
<1> HIDE DEF n, c, d, new
<1> QED BY <1>1, <1>2, <1>3, <1>4

\* The last limiter made is the one a request found or made for its own limits.
LEMMA PickAffords ==
  ASSUME GateTypes, Afforded, NEW q \in Requests, NEW v, at[q].pc = "limiter", at[q].limit = v,
         Stale' = Stale \ {q}, InForce' = InForce, UNCHANGED moves, Newest(v)',
         \/ limiters' = limiters /\ Newest(v)
         \/ Len(limiters') = Len(limiters) + 1 /\ ~Newest(v)
  PROVE  Afforded'
<1> DEFINE n == Cardinality(Requests)
           c == Cardinality(Stale)
           d == Cardinality(Stale')
<1>1. n \in Nat /\ n >= 1 /\ c \in Nat /\ c <= n /\ Each = 2 * n - 1 /\ IsFiniteSet(Stale)
      /\ (Stale # Requests => c <= n - 1) /\ Owing \in Int
      /\ (Stale = Requests => c = n)
  BY StaleCount, OwingBounds DEF Each
<1>2. moves > 0 /\ moves \in Nat /\ Len(limiters) \in Nat
  BY DEF Afforded, GateTypes
<1>3. Len(limiters) + Owing <= 1 + Each * (moves - 1)
  BY <1>2 DEF Afforded
<1>4. Stale' # Requests /\ d \in Nat /\ d = IF q \in Stale THEN c - 1 ELSE c
  <2>1. Cardinality(Stale \ {q}) = IF q \in Stale THEN Cardinality(Stale) - 1 ELSE Cardinality(Stale)
    BY <1>1, FS_RemoveElement
  <2>2. IsFiniteSet(Stale \ {q})
    BY <1>1, FS_RemoveElement
  <2>3. Cardinality(Stale \ {q}) \in Nat
    BY <2>2, FS_CardinalityType
  <2> QED BY <2>1, <2>3
<1>5. q \in Stale <=> v # InForce
  BY DEF Stale
<1>6. Newest(InForce)' <=> v = InForce
  BY DEF Newest
<1>7. Owing' = 2 * d + IF v = InForce THEN 0 ELSE 1
  BY <1>4, <1>6 DEF Owing
<1>8. Len(limiters') + Owing' <= Len(limiters) + Owing
  <2>1. CASE v = InForce
    <3>1. d = c /\ Owing' = 2 * c /\ Stale # Requests
      BY <1>4, <1>5, <1>7, <2>1
    <3>2. Owing = 2 * c + IF Newest(v) THEN 0 ELSE 1
      BY <2>1, <3>1 DEF Owing
    <3> HIDE DEF c
    <3> QED BY <1>1, <1>2, <3>1, <3>2
  <2>2. CASE v # InForce
    <3>1. d = c - 1 /\ Owing' = 2 * d + 1
      BY <1>4, <1>5, <1>7, <2>2
    <3>2. Stale # Requests => Owing >= 2 * c
      BY <1>1 DEF Owing
    <3>3. Stale = Requests => Owing = Each \/ Owing = Each + 1
      BY DEF Owing
    <3>4. Stale = Requests /\ ~Newest(v) => Owing = Each + 1
      BY DEF Owing
    <3> HIDE DEF c, d, n
    <3> QED BY <1>1, <1>2, <1>4, <3>1, <3>2, <3>3, <3>4
  <2> QED BY <2>1, <2>2
<1>9. Len(limiters') \in Int /\ Owing' \in Int /\ Each' = Each /\ Each \in Int
  BY <1>1, <1>2, <1>4, <1>7 DEF Each
<1> DEFINE most == 1 + Each * (moves - 1)
<1>10. most \in Int
  BY <1>1, <1>2
<1> HIDE DEF n, c, d, most
<1>11. Len(limiters') + Owing' <= most
  BY <1>1, <1>2, <1>3, <1>8, <1>9, <1>10 DEF most
<1> QED BY <1>2, <1>9, <1>11 DEF Afforded, most

\* Another change of the limits pays for what the requests at the gate owe then.
LEMMA MoveAffords ==
  ASSUME GateTypes, Afforded, moves' = moves + 1, UNCHANGED limiters,
         moves = 0 => Stale' = {},
         Stale' = Requests => UNCHANGED at
  PROVE  Afforded'
<1>1. /\ Cardinality(Requests) >= 1 /\ Cardinality(Requests) \in Nat /\ Requests # {}
      /\ Each \in Int /\ Each >= 1 /\ Each' = Each
      /\ Owing \in Int /\ Owing >= 0 /\ moves \in Nat /\ Len(limiters) \in Nat
  BY StaleCount, OwingBounds, GateAssumption DEF Each, GateTypes, GateAssumption
<1>2. /\ Owing' \in Int /\ Owing' <= Each + 1 /\ (Stale' # Requests => Owing' <= Each)
  <2>1. (Owing \in Int /\ Owing <= Each + 1 /\ (Stale # Requests => Owing <= Each))'
    BY OwingBounds, PTL
  <2> QED BY <1>1, <2>1
<1>3. CASE moves = 0
  <2>1. Stale' = {} /\ limiters' = <<>> /\ Len(limiters') = 0
    BY <1>3 DEF Afforded
  <2>2. Cardinality(Stale') = 0
    BY <2>1, FS_EmptySet
  <2>3. ~Newest(InForce)'
    BY <2>1 DEF Newest
  <2>4. Owing' = 1
    BY <1>1, <2>1, <2>2, <2>3 DEF Owing
  <2> QED BY <1>1, <1>3, <2>1, <2>4 DEF Afforded
<1>4. CASE moves > 0
  <2>1. Owing' <= Owing + Each
    <3>1. CASE Stale' # Requests \/ Owing >= 1
      BY <1>1, <1>2, <3>1
    <3>2. CASE Stale' = Requests /\ Owing = 0
      <4>1. Stale # Requests /\ Cardinality(Stale) = 0 /\ Newest(InForce)
        <5>1. Stale # Requests
          BY <1>1, <3>2, OwingBounds
        <5>2. 2 * Cardinality(Stale) + (IF Newest(InForce) THEN 0 ELSE 1) = 0
          BY <3>2, <5>1 DEF Owing
        <5>3. Cardinality(Stale) \in Nat
          BY StaleCount
        <5> QED BY <5>1, <5>2, <5>3
      <4>2. Stale = {}
        BY <4>1, StaleCount
      <4>3. \A q \in Requests : at[q].pc = "limiter" /\ at'[q] = at[q]
        BY <3>2 DEF Stale
      <4>4. \A q \in Requests : at[q].limit = InForce
        BY <4>2, <4>3 DEF Stale
      <4>5. \A q \in Requests : Newest(at[q].limit)'
        BY <4>1, <4>3, <4>4 DEF Newest
      <4>6. Owing' = Each
        BY <1>1, <3>2, <4>5 DEF Owing
      <4> QED BY <1>1, <3>2, <4>6
    <3> QED BY <1>1, <3>1, <3>2
  <2>2. Len(limiters) + Owing <= 1 + Each * (moves - 1)
    BY <1>4 DEF Afforded
  <2>3. Each * (moves - 1) + Each = Each * ((moves + 1) - 1)
    BY <1>1
  <2> DEFINE debt == Each * (moves - 1)
             next == Each * ((moves + 1) - 1)
  <2>4. debt \in Int /\ next \in Int
    BY <1>1
  <2>5. Len(limiters) + Owing' <= 1 + next
    <3> HIDE DEF debt, next
    <3>1. debt + Each = next /\ Len(limiters) + Owing <= 1 + debt
      BY <2>2, <2>3 DEF debt, next
    <3> QED BY <1>1, <1>2, <2>1, <2>4, <3>1
  <2> QED BY <1>1, <1>4, <2>5 DEF Afforded
<1> QED BY <1>1, <1>3, <1>4

\* What is written while the requests at the gate stay as they are.
LEMMA WriteAffords ==
  ASSUME GateTypes, Afforded, CountMoves, UNCHANGED <<limiters, at>>
  PROVE  Afforded'
<1>1. CASE InForce' = InForce
  <2>1. Stale' = Stale /\ \A v : Newest(v)' <=> Newest(v)
    BY <1>1 DEF Stale, Newest
  <2>2. Owing' = Owing
    BY <1>1, <2>1 DEF Owing, Each
  <2> QED BY <1>1, <2>2 DEF CountMoves, Afforded, Each
<1>2. CASE InForce' # InForce
  <2>1. moves' = moves + 1
    BY <1>2 DEF CountMoves
  <2>2. moves = 0 => Stale' = {}
    BY DEF Afforded, Stale
  <2> QED BY <2>1, <2>2, MoveAffords
<1> QED BY <1>1, <1>2

\* One request goes on, with limits in force or none.
LEMMA GoesOnAffords ==
  ASSUME GateTypes, Afforded, NEW q \in Requests, NEW r, at' = [at EXCEPT ![q] = r],
         r.pc # "limiter" \/ r.limit = InForce, InForce' = InForce, UNCHANGED moves,
         Len(limiters') = Len(limiters), \A v : Newest(v)' <=> Newest(v),
         moves = 0 => r.pc \in {"idle", "find"} /\ UNCHANGED limiters
  PROVE  Afforded'
<1>1. Stale' = Stale \ {q}
  BY DEF Stale, GateTypes
<1>2. Owing' <= Owing
  BY <1>1, OwesLess
<1>3. Owing \in Int /\ Owing' \in Int /\ Each \in Int /\ Each' = Each
      /\ moves \in Nat /\ Len(limiters) \in Nat
  <2>1. (Owing \in Int)'
    BY OwingBounds, PTL
  <2> QED BY <2>1, OwingBounds, StaleCount DEF Each, GateTypes
<1>4. CASE moves = 0
  BY <1>4 DEF Afforded, GateTypes
<1>5. CASE moves > 0
  <2> DEFINE most == 1 + Each * (moves - 1)
  <2>1. most \in Int /\ Len(limiters) + Owing <= most
    BY <1>3, <1>5 DEF Afforded
  <2>2. Len(limiters') + Owing' <= most
    <3> HIDE DEF most
    <3> QED BY <1>2, <1>3, <2>1
  <2> QED BY <1>3, <1>5, <2>2 DEF Afforded
<1> QED BY <1>3, <1>4, <1>5

LEMMA AskedForms ==
  /\ AtGate \in Asked /\ AtGate.pc = "idle"
  /\ [AtGate EXCEPT !.pc = "find"] \in Asked /\ [AtGate EXCEPT !.pc = "find"].pc = "find"
  /\ \A v \in Int : LET r == [AtGate EXCEPT !.pc = "cache", !.limit = v]
                    IN  r \in Asked /\ r.pc = "cache" /\ r.limit = v
  /\ \A v \in Int : LET r == [AtGate EXCEPT !.pc = "limiter", !.limit = v]
                    IN  r \in Asked /\ r.pc = "limiter" /\ r.limit = v
<1>1. AtGate \in Asked /\ AtGate.pc = "idle"
  BY DEF AtGate, Unlimited, Asked
<1> HIDE DEF AtGate
<1>2. [AtGate EXCEPT !.pc = "find"] \in Asked /\ [AtGate EXCEPT !.pc = "find"].pc = "find"
  BY <1>1 DEF Asked
<1>3. ASSUME NEW v \in Int, NEW pc \in {"cache", "limiter"}
      PROVE  /\ [AtGate EXCEPT !.pc = pc, !.limit = v] \in Asked
             /\ [AtGate EXCEPT !.pc = pc, !.limit = v].pc = pc
             /\ [AtGate EXCEPT !.pc = pc, !.limit = v].limit = v
  BY <1>1, <1>3 DEF Asked
<1> QED BY <1>1, <1>2, <1>3

LEMMA LimiterTypes ==
  ASSUME limiters \in Seq(Limiter)
  PROVE  /\ Len(limiters) \in Nat /\ DOMAIN limiters = 1..Len(limiters)
         /\ \A k \in DOMAIN limiters :
              /\ limiters[k] \in Limiter /\ limiters[k].limit \in Int
              /\ limiters[k].start \in Int /\ limiters[k].count \in Int
<1>1. /\ Len(limiters) \in Nat /\ DOMAIN limiters = 1..Len(limiters)
      /\ \A k \in DOMAIN limiters : limiters[k] \in Limiter
  OBVIOUS
<1> QED BY <1>1 DEF Limiter

LEMMA StartsFit == GateInit => GateInv
<1> SUFFICES ASSUME GateInit PROVE GateInv
  OBVIOUS
<1> USE GateAssumption DEF GateInit
<1>1. GateTypes
  BY DEF GateTypes, Asked, AtGate, Unlimited
<1>2. LookupFits /\ LimitersFit
  BY DEF LookupFits, LimitersFit, AtGate
<1>3. Afforded
  BY DEF Afforded, AtGate, InForce
<1> QED BY <1>1, <1>2, <1>3 DEF GateInv

LEMMA GetLimitsStep ==
  ASSUME GateInv, NEW q \in Requests, GetLimits(q) PROVE GateInv'
<1> DEFINE r == IF limitsCache # NoLimits
                THEN [AtGate EXCEPT !.pc = "limiter", !.limit = limitsCache]
                ELSE [AtGate EXCEPT !.pc = "find"]
<1> USE DEF GateInv
<1>1. /\ at' = [at EXCEPT ![q] = r]
      /\ UNCHANGED <<clock, limitsRow, limitsCache, setting, limiters, passed, moves, unseen>>
  BY DEF GetLimits, Moves
<1>2. /\ r \in Asked
      /\ \/ r.pc = "find"
         \/ r.pc = "limiter" /\ r.limit = limitsCache /\ r.limit \in Limits /\ r.limit = InForce
              /\ limitsCache # NoLimits
  <2>1. CASE limitsCache # NoLimits
    <3>1. limitsCache \in Limits /\ limitsCache \in Int /\ limitsCache = InForce
      BY <2>1, GateAssumption DEF GateTypes, GateAssumption, InForce
    <3>2. r = [AtGate EXCEPT !.pc = "limiter", !.limit = limitsCache]
      BY <2>1
    <3> HIDE DEF r
    <3> QED BY <2>1, <3>1, <3>2, AskedForms
  <2>2. CASE limitsCache = NoLimits
    BY <2>2, AskedForms
  <2> QED BY <2>1, <2>2
<1> HIDE DEF r
<1>3. GateTypes'
  BY <1>1, <1>2 DEF GateTypes
<1>4. LookupFits' /\ LimitersFit'
  BY <1>1, <1>2 DEF LookupFits, LimitersFit, GateTypes
<1>5. InForce' = InForce /\ \A v : Newest(v)' <=> Newest(v)
  BY <1>1 DEF InForce, Newest
<1>6. moves = 0 => r.pc \in {"idle", "find"}
  BY <1>2 DEF Afforded, InForce
<1>7. r.pc # "limiter" \/ r.limit = InForce
  BY <1>2
<1>8. Afforded'
  BY <1>1, <1>5, <1>6, <1>7, GoesOnAffords
<1> QED BY <1>3, <1>4, <1>8

LEMMA FindLimitsStep ==
  ASSUME GateInv, NEW q \in Requests, FindLimits(q) PROVE GateInv'
<1> USE DEF GateInv
<1>1. PICK r : /\ at' = [at EXCEPT ![q] = r]
               /\ \/ r = AtGate
                  \/ limitsRow # NoLimits /\ r = [AtGate EXCEPT !.pc = "cache", !.limit = limitsRow]
  BY DEF FindLimits, Moves
<1>2. UNCHANGED <<clock, limitsRow, limitsCache, setting, limiters, passed, moves, unseen>>
  BY DEF FindLimits
<1>3. /\ r \in Asked
      /\ \/ r.pc = "idle"
         \/ r.pc = "cache" /\ r.limit = limitsRow /\ r.limit \in Limits /\ limitsRow # NoLimits
  <2>1. CASE r = AtGate
    BY <2>1, AskedForms
  <2>2. CASE limitsRow # NoLimits /\ r = [AtGate EXCEPT !.pc = "cache", !.limit = limitsRow]
    <3>1. limitsRow \in Limits /\ limitsRow \in Int
      BY <2>2, GateAssumption DEF GateTypes, GateAssumption
    <3> QED BY <2>2, <3>1, AskedForms
  <2> QED BY <1>1, <2>1, <2>2
<1>4. GateTypes'
  BY <1>1, <1>2, <1>3 DEF GateTypes
<1>5. LookupFits' /\ LimitersFit'
  BY <1>1, <1>2, <1>3 DEF LookupFits, LimitersFit, GateTypes
<1>6. InForce' = InForce /\ \A v : Newest(v)' <=> Newest(v)
  BY <1>2 DEF InForce, Newest
<1>7. moves = 0 => r.pc \in {"idle", "find"}
  BY <1>3 DEF Afforded, InForce
<1>8. r.pc # "limiter"
  BY <1>3
<1>9. Afforded'
  BY <1>1, <1>2, <1>6, <1>7, <1>8, GoesOnAffords
<1> QED BY <1>4, <1>5, <1>9

LEMMA CacheLimitsStep ==
  ASSUME GateInv, NEW q \in Requests, CacheLimits(q) PROVE GateInv'
<1> USE DEF GateInv
<1>1. PICK r : at' = [at EXCEPT ![q] = r] /\ r = [at[q] EXCEPT !.pc = "limiter"]
  BY DEF CacheLimits, Moves
<1>2. /\ at[q].pc = "cache" /\ setting = NoLimits /\ limitsCache' = at[q].limit /\ CountMoves
      /\ UNCHANGED <<clock, limitsRow, setting, limiters, passed, unseen>>
  BY DEF CacheLimits
<1>3. /\ r \in Asked /\ r.pc = "limiter" /\ r.limit = at[q].limit /\ r.limit \in Limits
      /\ limitsCache' = r.limit /\ r.limit # NoLimits
  BY <1>1, <1>2, GateAssumption DEF Asked, GateTypes, GateAssumption
<1>4. GateTypes'
  BY <1>1, <1>2, <1>3 DEF GateTypes, CountMoves
<1>5. LookupFits' /\ LimitersFit'
  BY <1>1, <1>2, <1>3 DEF LookupFits, LimitersFit, GateTypes
<1>6. InForce' = r.limit
  BY <1>2, <1>3 DEF InForce
<1>7. moves # 0 /\ moves \in Nat
  BY <1>2 DEF Afforded, GateTypes
<1>8. CASE InForce' = InForce
  <2>1. \A v : Newest(v)' <=> Newest(v)
    BY <1>2 DEF Newest
  <2>2. UNCHANGED moves /\ Len(limiters') = Len(limiters) /\ r.limit = InForce
    BY <1>2, <1>6, <1>8 DEF CountMoves
  <2>3. Afforded'
    BY <1>1, <1>7, <1>8, <2>1, <2>2, GoesOnAffords
  <2> QED BY <1>4, <1>5, <2>3
<1>9. CASE InForce' # InForce
  <2>1. moves' = moves + 1
    BY <1>2, <1>9 DEF CountMoves
  <2>2. at'[q] = r
    BY <1>1 DEF GateTypes
  <2>3. Stale' # Requests
    BY <1>6, <2>2 DEF Stale
  <2>4. Afforded'
    BY <1>2, <1>7, <2>1, <2>3, MoveAffords
  <2> QED BY <1>4, <1>5, <2>4
<1> QED BY <1>8, <1>9

LEMMA WriteStep ==
  ASSUME GateInv, SetLimits \/ SetElsewhere \/ ForgetLimits PROVE GateInv'
<1> USE DEF GateInv
<1>1. CountMoves /\ UNCHANGED <<clock, limiters, at, passed>>
  BY DEF SetLimits, SetElsewhere, ForgetLimits
<1>2. Afforded'
  BY <1>1, WriteAffords
<1>3. /\ \/ limitsRow' \in Limits \cup {NoLimits} /\ setting' = limitsRow'
         \/ limitsRow' \in Limits \cup {NoLimits} /\ setting' = setting
         \/ limitsRow' = limitsRow /\ setting' = NoLimits
      /\ limitsCache' \in {limitsCache, setting}
  BY DEF SetLimits, SetElsewhere, ForgetLimits
<1>4. GateTypes'
  BY <1>1, <1>3 DEF GateTypes, CountMoves
<1>5. LimitersFit'
  BY <1>1 DEF LimitersFit
<1>6. LookupFits'
  <2>1. CASE SetLimits
    BY <2>1, GateAssumption DEF SetLimits, Looking, LookupFits, GateAssumption
  <2>2. CASE SetElsewhere
    BY <2>2 DEF SetElsewhere, Looking, LookupFits
  <2>3. CASE ForgetLimits
    BY <2>3 DEF ForgetLimits, Looking, LookupFits
  <2> QED BY <2>1, <2>2, <2>3
<1> QED BY <1>2, <1>4, <1>5, <1>6

LEMMA ClockStep ==
  ASSUME GateInv, ClockTicks PROVE GateInv'
<1> USE DEF GateInv
<1>1. /\ clock' = clock + 1 /\ clock \in Int
      /\ UNCHANGED <<limitsRow, limitsCache, setting, limiters, at, passed, moves, unseen>>
  BY DEF ClockTicks, GateTypes
<1>2. GateTypes'
  BY <1>1 DEF GateTypes
<1>3. LookupFits'
  BY <1>1 DEF LookupFits
<1>4. \A k \in DOMAIN limiters : limiters[k].start \in Int
  BY LimiterTypes DEF GateTypes
<1>5. \A k \in DOMAIN limiters : limiters[k].start <= clock + 1
  BY <1>1, <1>4 DEF LimitersFit
<1>6. LimitersFit'
  BY <1>1, <1>5 DEF LimitersFit
<1>7. Afforded'
  BY <1>1 DEF Afforded, Owing, Stale, Newest, InForce, Each
<1> QED BY <1>2, <1>3, <1>6, <1>7

LEMMA PickLimiterStep ==
  ASSUME GateInv, NEW q \in Requests, PickLimiter(q) PROVE GateInv'
<1> USE DEF GateInv
<1> DEFINE n == Len(limiters)
           v == at[q].limit
<1>1. /\ at[q].pc = "limiter" /\ v \in Int /\ at[q] \in Asked
      /\ UNCHANGED <<clock, limitsRow, limitsCache, setting, passed, moves, unseen>>
  BY DEF PickLimiter, GateTypes, Asked
<1>2. n \in Nat /\ DOMAIN limiters = 1..n
  BY LimiterTypes DEF GateTypes
<1>3. InForce' = InForce
  BY <1>1 DEF InForce
<1>4. CASE Moves(q, AtGate) /\ UNCHANGED limiters
  <2>1. at' = [at EXCEPT ![q] = AtGate] /\ AtGate \in Asked /\ AtGate.pc = "idle"
    BY <1>4, AskedForms DEF Moves
  <2>2. GateTypes'
    BY <1>1, <1>4, <2>1 DEF GateTypes
  <2>3. LookupFits' /\ LimitersFit'
    BY <1>1, <1>4, <2>1 DEF LookupFits, LimitersFit, GateTypes
  <2>4. \A u : Newest(u)' <=> Newest(u)
    BY <1>4 DEF Newest
  <2>5. AtGate.pc # "limiter" /\ AtGate.pc \in {"idle", "find"}
    BY <2>1
  <2>6. Afforded'
    BY <1>1, <1>3, <1>4, <2>1, <2>4, <2>5, GoesOnAffords
  <2> QED BY <2>2, <2>3, <2>6
<1>5. CASE ~(Moves(q, AtGate) /\ UNCHANGED limiters)
  <2> DEFINE l == [limit |-> v, start |-> clock, count |-> 0]
             r == [at[q] EXCEPT !.pc = "allow", !.limiter = Len(limiters')]
  <2>1. /\ v > 0 /\ Moves(q, r)
        /\ limiters' = IF n > 0 /\ limiters[n].limit = v THEN limiters ELSE Append(limiters, l)
    BY <1>5 DEF PickLimiter
  <2>2. at' = [at EXCEPT ![q] = r]
    BY <2>1 DEF Moves
  <2>3. l \in Limiter /\ l.limit = v /\ l.start = clock /\ l.count = 0
    BY <1>1 DEF Limiter, GateTypes
  <2> HIDE DEF l
  <2>4. /\ limiters' \in Seq(Limiter) /\ Len(limiters') \in DOMAIN limiters' /\ Len(limiters') \in Nat
        /\ DOMAIN limiters \subseteq DOMAIN limiters'
        /\ \A k \in DOMAIN limiters : limiters'[k] = limiters[k]
        /\ limiters' # <<>> /\ limiters'[Len(limiters')].limit = v
        /\ \/ limiters' = limiters /\ n > 0 /\ limiters[n].limit = v
           \/ Len(limiters') = n + 1 /\ ~(n > 0 /\ limiters[n].limit = v) /\ limiters'[n + 1] = l
                /\ DOMAIN limiters' = 1..(n + 1)
    <3>1. CASE n > 0 /\ limiters[n].limit = v
      <4>1. limiters' = limiters /\ limiters \in Seq(Limiter) /\ limiters # <<>> /\ n \in DOMAIN limiters
        BY <1>2, <2>1, <3>1 DEF GateTypes
      <4> QED BY <1>2, <3>1, <4>1
    <3>2. CASE ~(n > 0 /\ limiters[n].limit = v)
      <4>1. limiters' = Append(limiters, l) /\ limiters \in Seq(Limiter)
        BY <2>1, <3>2 DEF GateTypes
      <4>2. /\ Append(limiters, l) \in Seq(Limiter) /\ Len(Append(limiters, l)) = n + 1
            /\ DOMAIN Append(limiters, l) = 1..(n + 1) /\ Append(limiters, l)[n + 1] = l
            /\ \A k \in 1..n : Append(limiters, l)[k] = limiters[k]
        BY <1>2, <2>3, <4>1
      <4>3. 1..n \subseteq 1..(n + 1) /\ n + 1 \in 1..(n + 1) /\ n + 1 \in Nat
        BY <1>2
      <4>4. limiters' # <<>>
        BY <4>1, <4>2, <4>3
      <4> HIDE DEF n, v
      <4> QED BY <1>2, <2>3, <3>2, <4>1, <4>2, <4>3, <4>4
    <3> QED BY <3>1, <3>2
  <2>5. r \in Asked /\ r.pc = "allow" /\ r.limiter = Len(limiters') /\ r.limit = v
    BY <1>1, <2>4 DEF Asked
  <2> HIDE DEF r
  <2>6. GateTypes'
    <3>1. \A p \in Requests : at'[p] = IF p = q THEN r ELSE at[p]
      BY <2>2 DEF GateTypes
    <3>2. at' \in [Requests -> Asked]
      BY <2>2, <2>5 DEF GateTypes
    <3>3. ASSUME NEW p \in Requests
          PROVE  /\ at'[p].pc \in {"cache", "limiter"} => at'[p].limit \in Limits
                 /\ at'[p].pc = "allow" => at'[p].limiter \in DOMAIN limiters'
      BY <2>4, <2>5, <3>1 DEF GateTypes
    <3> QED BY <1>1, <2>4, <3>2, <3>3 DEF GateTypes
  <2>7. LookupFits'
    BY <1>1, <2>2, <2>5 DEF LookupFits, GateTypes
  <2>8. LimitersFit'
    <3>1. \A i \in DOMAIN passed : passed[i].by \in DOMAIN limiters'
      BY <2>4 DEF LimitersFit
    <3>2. ASSUME NEW k \in DOMAIN limiters'
          PROVE  /\ Fits(passed, k, limiters'[k].limit, limiters'[k].start, limiters'[k].count)
                 /\ limiters'[k].start <= clock
      <4>1. CASE k \in DOMAIN limiters
        BY <2>4, <4>1 DEF LimitersFit
      <4>2. CASE k \notin DOMAIN limiters
        <5>1. limiters'[k] = l
          BY <1>2, <2>4, <3>2, <4>2
        <5>2. \A i \in DOMAIN passed : passed[i].by # k
          BY <4>2 DEF LimitersFit
        <5>3. Fits(passed, k, v, clock, 0)
          BY <1>1, <2>1, <5>2, NewLimiter DEF GateTypes
        <5>4. clock <= clock
          BY DEF GateTypes
        <5> QED BY <2>3, <5>1, <5>3, <5>4
      <4> QED BY <4>1, <4>2
    <3> QED BY <1>1, <3>1, <3>2 DEF LimitersFit
  <2>9. Stale' = Stale \ {q}
    BY <1>3, <2>2, <2>5 DEF Stale, GateTypes
  <2>10. Newest(v) <=> n > 0 /\ limiters[n].limit = v
    BY <1>2 DEF Newest, GateTypes
  <2>11. Afforded'
    <3>1. PICK u : u = v
      OBVIOUS
    <3>2. Newest(u)'
      BY <2>4, <3>1 DEF Newest
    <3>3. \/ limiters' = limiters /\ Newest(u)
          \/ Len(limiters') = Len(limiters) + 1 /\ ~Newest(u)
      BY <2>4, <2>10, <3>1
    <3> QED BY <1>1, <1>3, <2>9, <3>1, <3>2, <3>3, PickAffords
  <2> QED BY <2>6, <2>7, <2>8, <2>11
<1> QED BY <1>4, <1>5

LEMMA AllowStep ==
  ASSUME GateInv, NEW q \in Requests, Allow(q) PROVE GateInv'
<1> USE DEF GateInv
<1> DEFINE k == at[q].limiter
           l == limiters[k]
           e == [at |-> clock, by |-> k]
<1>1. /\ at' = [at EXCEPT ![q] = AtGate] /\ AtGate \in Asked /\ AtGate.pc = "idle"
      /\ UNCHANGED <<clock, limitsRow, limitsCache, setting, moves, unseen>>
  BY AskedForms DEF Allow, Moves
<1>2. /\ k \in DOMAIN limiters /\ limiters \in Seq(Limiter) /\ passed \in Seq(Pass)
      /\ clock \in Int
  BY DEF Allow, GateTypes
<1>3. /\ Len(limiters) \in Nat /\ DOMAIN limiters = 1..Len(limiters)
      /\ \A j \in DOMAIN limiters :
           /\ limiters[j] \in Limiter /\ limiters[j].limit \in Int
           /\ limiters[j].start \in Int /\ limiters[j].count \in Int
  BY <1>2, LimiterTypes
<1>4. e \in Pass /\ e.at = clock /\ e.by = k
  BY <1>2, <1>3 DEF Pass
<1>5. l.start <= clock /\ Fits(passed, k, l.limit, l.start, l.count)
  BY <1>2 DEF LimitersFit
<1>6. PICK m : /\ m \in Limiter /\ m.limit = l.limit /\ m.start <= clock
               /\ limiters' = [limiters EXCEPT ![k] = m]
               /\ passed' \in {passed, Append(passed, e)}
               /\ Fits(passed', k, m.limit, m.start, m.count)
  <2>1. CASE /\ clock - l.start >= Window
             /\ limiters' = [limiters EXCEPT ![k].start = clock, ![k].count = 1]
             /\ passed' = Append(passed, e)
    <3>1. Fits(Append(passed, e), k, l.limit, clock, 1)
      BY <1>2, <1>3, <1>4, <1>5, <2>1, NextWindow
    <3>2. limiters' = [limiters EXCEPT ![k] = [l EXCEPT !.start = clock, !.count = 1]]
      BY <1>2, <1>3, <2>1
    <3>3. /\ [l EXCEPT !.start = clock, !.count = 1] \in Limiter
          /\ [l EXCEPT !.start = clock, !.count = 1].limit = l.limit
          /\ [l EXCEPT !.start = clock, !.count = 1].start = clock
          /\ [l EXCEPT !.start = clock, !.count = 1].count = 1
      <4>1. l \in Limiter
        BY <1>2, <1>3
      <4> HIDE DEF l
      <4>2. 1 \in Int
        OBVIOUS
      <4>3. [l EXCEPT !.start = clock, !.count = 1] \in Limiter
        BY <1>2, <4>1, <4>2 DEF Limiter
      <4>4. /\ [l EXCEPT !.start = clock, !.count = 1].limit = l.limit
            /\ [l EXCEPT !.start = clock, !.count = 1].start = clock
        BY <1>2, <4>1 DEF Limiter
      <4>5. [l EXCEPT !.start = clock, !.count = 1].count = 1
        BY <1>2, <4>1 DEF Limiter
      <4> QED BY <4>3, <4>4, <4>5
    <3>4. clock <= clock
      BY <1>2
    <3> HIDE DEF l, e
    <3> QED BY <2>1, <3>1, <3>2, <3>3, <3>4
  <2>2. CASE /\ clock - l.start < Window /\ l.count < l.limit
             /\ limiters' = [limiters EXCEPT ![k].count = @ + 1]
             /\ passed' = Append(passed, e)
    <3>1. clock >= l.start /\ clock < l.start + Window
      BY <1>2, <1>3, <1>5, <2>2, WindowPositive
    <3>2. Fits(Append(passed, e), k, l.limit, l.start, l.count + 1)
      BY <1>2, <1>3, <1>4, <1>5, <2>2, <3>1, SameWindow
    <3>3. limiters' = [limiters EXCEPT ![k] = [l EXCEPT !.count = l.count + 1]]
      BY <1>2, <1>3, <2>2
    <3>4. /\ [l EXCEPT !.count = l.count + 1] \in Limiter
          /\ [l EXCEPT !.count = l.count + 1].limit = l.limit
          /\ [l EXCEPT !.count = l.count + 1].start = l.start
          /\ [l EXCEPT !.count = l.count + 1].count = l.count + 1
      <4>1. l \in Limiter
        BY <1>2, <1>3
      <4> HIDE DEF l
      <4> QED BY <4>1 DEF Limiter
    <3> HIDE DEF l, e
    <3> QED BY <1>5, <2>2, <3>2, <3>3, <3>4
  <2>3. CASE UNCHANGED <<limiters, passed>>
    <3>1. limiters' = [limiters EXCEPT ![k] = l]
      BY <1>2, <2>3
    <3> HIDE DEF e
    <3> QED BY <1>2, <1>3, <1>5, <2>3, <3>1
  <2> QED BY <2>1, <2>2, <2>3 DEF Allow
<1> HIDE DEF k, l, e
<1>7. /\ limiters' \in Seq(Limiter) /\ Len(limiters') = Len(limiters)
      /\ DOMAIN limiters' = DOMAIN limiters
      /\ \A j \in DOMAIN limiters : limiters'[j] = IF j = k THEN m ELSE limiters[j]
  BY <1>2, <1>3, <1>6
<1>8. passed' \in Seq(Pass) /\ \A i \in DOMAIN passed' : passed'[i].by \in DOMAIN limiters
  <2>1. CASE passed' = passed
    BY <1>2, <2>1 DEF LimitersFit
  <2>2. CASE passed' = Append(passed, e)
    <3>1. passed' \in Seq(Pass) /\ \A i \in DOMAIN passed' : passed'[i] = e \/
            (i \in DOMAIN passed /\ passed'[i] = passed[i])
      BY <1>2, <1>4, <2>2, MorePasses
    <3> QED BY <1>2, <1>4, <3>1 DEF LimitersFit
  <2> QED BY <1>6, <2>1, <2>2
<1>9. GateTypes'
  BY <1>1, <1>7, <1>8 DEF GateTypes
<1>10. LookupFits'
  BY <1>1 DEF LookupFits, GateTypes
<1>11. LimitersFit'
  <2>1. ASSUME NEW j \in DOMAIN limiters
        PROVE  /\ Fits(passed', j, limiters'[j].limit, limiters'[j].start, limiters'[j].count)
               /\ limiters'[j].start <= clock
    <3>1. CASE j = k
      BY <1>6, <1>7, <3>1
    <3>2. CASE j # k
      <4>1. limiters'[j] = limiters[j]
        BY <1>7, <3>2
      <4>2. /\ Fits(passed, j, limiters[j].limit, limiters[j].start, limiters[j].count)
            /\ limiters[j].start <= clock
        BY DEF LimitersFit
      <4>3. CASE passed' = passed
        BY <4>1, <4>2, <4>3
      <4>4. CASE passed' = Append(passed, e)
        <5>1. Fits(Append(passed, e), j, limiters[j].limit, limiters[j].start, limiters[j].count)
          BY <1>2, <1>3, <1>4, <3>2, <4>2, OtherLimiter
        <5> QED BY <4>1, <4>2, <4>4, <5>1
      <4> QED BY <1>6, <4>3, <4>4
    <3> QED BY <3>1, <3>2
  <2> QED BY <1>1, <1>7, <1>8, <2>1 DEF LimitersFit
<1>12. Afforded'
  <2>1. InForce' = InForce
    BY <1>1 DEF InForce
  <2>2. moves # 0
    <3>1. at[q].pc = "allow"
      BY DEF Allow
    <3> QED BY <3>1 DEF Afforded
  <2>3. ASSUME NEW v PROVE Newest(v)' <=> Newest(v)
    <3>1. limiters' # <<>> /\ limiters # <<>> /\ Len(limiters) \in DOMAIN limiters
      BY <1>2, <1>3, <1>7
    <3>2. limiters'[Len(limiters)].limit = limiters[Len(limiters)].limit
      BY <1>6, <1>7, <3>1 DEF l
    <3> QED BY <1>7, <3>1, <3>2 DEF Newest
  <2>4. AtGate.pc # "limiter"
    BY <1>1
  <2> QED BY <1>1, <1>7, <2>1, <2>2, <2>3, <2>4, GoesOnAffords
<1> QED BY <1>9, <1>10, <1>11, <1>12

LEMMA GateStep == GateInv /\ [GateNext]_gateVars => GateInv'
<1> SUFFICES ASSUME GateInv, [GateNext]_gateVars PROVE GateInv'
  OBVIOUS
<1>1. CASE UNCHANGED gateVars
  BY <1>1 DEF gateVars, GateInv, GateTypes, LookupFits, LimitersFit, Afforded, Owing, Stale,
              Newest, InForce, Each
<1> QED
  BY <1>1, GetLimitsStep, FindLimitsStep, CacheLimitsStep, PickLimiterStep, AllowStep, WriteStep,
     ClockStep DEF GateNext

\* The limit in force is the one that was set, unless the row changed beside the
\* cache or during a lookup, for any number of messages at the gate (tenant
\* SetLimits, GetLimits).
THEOREM LimitsKeepHolding == GateSpec => []LimitsHold
<1>1. GateInv => LimitsHold
  BY DEF GateInv, LookupFits, LimitsHold
<1> QED BY <1>1, StartsFit, GateStep, PTL DEF GateSpec

\* No stretch of time as long as a window lets through more than two windows'
\* worth of a limiter, and each change of the limits makes at most two limiters
\* for a request that is at the gate, for any number of requests and any limits
\* (ProjectLimiter.Allow, FixedWindowLimiter.Allow).
THEOREM RateAlwaysHeld == GateSpec => []RateHeld
<1>1. GateInv => RateHeld
  <2> SUFFICES ASSUME GateInv PROVE RateHeld
    OBVIOUS
  <2> USE DEF GateInv
  <2>1. ASSUME NEW k \in DOMAIN limiters, NEW t \in 0..clock
        PROVE  Cardinality(Passes(k, t, t + Window)) <= 2 * limiters[k].limit
    <3>1. AtMost(passed, k, t, t + Window, 2 * limiters[k].limit)
      BY DEF LimitersFit, Fits
    <3> QED BY <3>1 DEF AtMost, PassesIn, Passes
  <2>2. CASE moves = 0
    BY <2>1, <2>2 DEF RateHeld, WindowHeld, FewLimiters, Afforded
  <2>3. CASE moves # 0
    <3>1. moves > 0 /\ moves \in Nat /\ Len(limiters) \in Nat /\ Owing \in Int /\ Owing >= 0
          /\ Each \in Int
      BY <2>3, OwingBounds, StaleCount DEF GateTypes
    <3> DEFINE most == 1 + Each * (moves - 1)
    <3>2. most \in Int /\ Len(limiters) + Owing <= most
      BY <3>1 DEF Afforded
    <3>3. Len(limiters) <= most
      <4> HIDE DEF most
      <4> QED BY <3>1, <3>2
    <3> QED BY <2>1, <2>3, <3>3 DEF RateHeld, WindowHeld, FewLimiters, Each
  <2> QED BY <2>2, <2>3
<1> QED BY <1>1, StartsFit, GateStep, PTL DEF GateSpec

-----------------------------------------------------------------------------
(* PlatformTick *)

Working == {"locked", "keyed", "insert"}
Work == [pc: {"idle", "due"} \cup Working, bucket: Nat]

TickTypes ==
  /\ now \in 0..Horizon
  /\ free \subseteq Tasks
  /\ left \in [Tasks -> Nat]
  /\ work \in [Instances -> [Tasks -> Work]]
  /\ rows \in [Keys -> {0, 1}]
  /\ ticked \subseteq Keys
  /\ faults \in Nat

\* The bucket of the tick that comes to instance i at the time n.
BucketAt(i, t, n) == (n + Skew[i]) \div Bucket[t]

\* Without a fault no time passes while a tick is worked on.
WorkIsNow ==
  \A i \in Instances, t \in Tasks :
    /\ Doing(i, t) # "idle" => (now + Skew[i]) % Schedule[t] = 0
    /\ Doing(i, t) \in Working => t \notin free /\ left[t] = LockTimeout[t]
    /\ Doing(i, t) \in {"keyed", "insert"} => work[i][t].bucket = BucketAt(i, t, now)

\* A lock that is held was taken at a tick, at the time n, by an instance i that
\* has the job of its tick or is about to make it.
TakenBy(t, i, n) ==
  /\ now + left[t] = n + LockTimeout[t]
  /\ (n + Skew[i]) % Schedule[t] = 0
  /\ \/ rows[<<t, BucketAt(i, t, n)>>] = 1
     \/ n = now /\ Doing(i, t) \in Working
LockIsATicks ==
  \A t \in Tasks : t \notin free => \E i \in Instances, n \in 0..now : TakenBy(t, i, n)

\* The tick of bucket b is settled, or is being worked on.
Settled(t, b) ==
  \/ rows[<<t, b>>] = 1
  \/ /\ ~Outlived(t)
     /\ \E c \in 0..(b - 1) : /\ rows[<<t, c>>] = 1
                              /\ (b - c) * Bucket[t] <= LockTimeout[t] + Bucket[t]
Worked(t, b) ==
  \E i \in Instances : Doing(i, t) # "idle" /\ b = BucketAt(i, t, now)
TicksMet ==
  \A t \in Tasks, b \in 0..LastBucket : <<t, b>> \in ticked => Settled(t, b) \/ Worked(t, b)

TickInv == TickTypes /\ (faults = 0 => WorkIsNow /\ LockIsATicks /\ TicksMet)

-----------------------------------------------------------------------------
(* Arithmetic of ticks and buckets *)

\* Quotient and remainder.
LEMMA Division ==
  ASSUME NEW a \in Nat, NEW d \in Nat \ {0}
  PROVE  /\ a \div d \in Nat /\ a = d * (a \div d) + (a % d)
         /\ d * (a \div d) <= a /\ a < d * (a \div d) + d
  BY SMT

\* Two ticks of a task are a period apart, or the same.
LEMMA PeriodApart ==
  ASSUME NEW x \in Nat, NEW y \in Nat, NEW d \in Nat \ {0},
         x % d = 0, y % d = 0, x < y
  PROVE  x + d <= y
  <1>1. x = d * (x \div d) /\ y = d * (y \div d) /\ x \div d \in Nat /\ y \div d \in Nat
    BY Division
  <1>2. x \div d < y \div d
    BY <1>1, SMT
  <1>3. d * (x \div d) + d <= d * (y \div d)
    BY <1>1, <1>2, SMT
  <1> QED BY <1>1, <1>3

\* A later time has a later bucket, or the same.
LEMMA BucketsGrow ==
  ASSUME NEW x \in Nat, NEW y \in Nat, NEW d \in Nat \ {0}, x <= y
  PROVE  x \div d <= y \div d
  <1>1. /\ x \div d \in Nat /\ d * (x \div d) <= x
        /\ y \div d \in Nat /\ y < d * (y \div d) + d
    BY Division
  <1>2. d * (x \div d) < d * (y \div d) + d
    BY <1>1
  <1> QED BY <1>1, <1>2, SMT

\* The distance of two buckets, by that of the times.
LEMMA BucketDistance ==
  ASSUME NEW x \in Nat, NEW y \in Nat, NEW d \in Nat \ {0}, NEW n \in Nat, y <= x + n + 1
  PROVE  (y \div d - x \div d) * d <= n + d
  <1> DEFINE p == x \div d
             q == y \div d
  <1>1. /\ p \in Nat /\ x < d * p + d
        /\ q \in Nat /\ d * q <= y
    BY Division
  <1>2. (q - p) * d = d * q - d * p
    BY <1>1, SMT
  <1>3. d * p \in Nat /\ d * q \in Nat
    BY <1>1, SMT
  <1> HIDE DEF p, q
  <1>4. d * q - d * p <= n + d
    BY <1>1, <1>3
  <1> QED BY <1>2, <1>4 DEF p, q

\* The bucket of every time up to the horizon is a key.
LEMMA BucketIsKey ==
  ASSUME NEW i \in Instances, NEW t \in Tasks, NEW n \in 0..Horizon
  PROVE  /\ BucketAt(i, t, n) \in 0..LastBucket /\ <<t, BucketAt(i, t, n)>> \in Keys
         /\ n + Skew[i] \in Nat
  <1>1. /\ n + Skew[i] \in Nat /\ Horizon + Skew[i] \in Nat /\ Bucket[t] \in Nat \ {0}
        /\ n + Skew[i] <= Horizon + Skew[i]
        /\ (Horizon + Skew[i]) \div Bucket[t] <= LastBucket /\ LastBucket \in Nat
    BY TickAssumption
  <1>2. /\ (n + Skew[i]) \div Bucket[t] <= (Horizon + Skew[i]) \div Bucket[t]
        /\ (n + Skew[i]) \div Bucket[t] \in Nat
        /\ (Horizon + Skew[i]) \div Bucket[t] \in Nat
    BY <1>1, BucketsGrow, Division
  <1>3. (n + Skew[i]) \div Bucket[t] \in 0..LastBucket
    BY <1>1, <1>2
  <1> QED BY <1>1, <1>3 DEF BucketAt, Keys

-----------------------------------------------------------------------------
(* Types *)

\* What one instance does for one task changes.
LEMMA WorkChanges ==
  ASSUME TickTypes, NEW i \in Instances, NEW t \in Tasks,
         NEW pc \in {"idle", "due"} \cup Working, NEW b \in Nat, Becomes(i, t, pc, b)
  PROVE  /\ work' \in [Instances -> [Tasks -> Work]]
         /\ work'[i][t].pc = pc /\ work'[i][t].bucket = b
         /\ \A k \in Instances, u \in Tasks :
              k # i \/ u # t => work'[k][u] = work[k][u]
  <1> DEFINE w == [pc |-> pc, bucket |-> b]
  <1>1. w \in Work /\ w.pc = pc /\ w.bucket = b
    BY DEF Work
  <1>2. work' = [work EXCEPT ![i] = [work[i] EXCEPT ![t] = w]]
    BY DEF Becomes, TickTypes
  <1> HIDE DEF w
  <1>3. /\ work' \in [Instances -> [Tasks -> Work]] /\ work'[i][t] = w
        /\ \A k \in Instances, u \in Tasks :
             k # i \/ u # t => work'[k][u] = work[k][u]
    BY <1>1, <1>2 DEF TickTypes
  <1> QED BY <1>1, <1>3

LEMMA AdvanceTypes ==
  ASSUME TickTypes, Advance
  PROVE  TickTypes'
  <1>1. now' \in 0..Horizon /\ now' = now + 1
    BY TickAssumption DEF Advance, TickTypes
  <1>2. left' \in [Tasks -> Nat]
    <2>1. \A t \in Tasks : left[t] \in Nat /\ (t \notin free => left[t] > 0)
      BY DEF Advance, TickTypes
    <2>2. \A t \in Tasks : (IF t \in free THEN left[t] ELSE left[t] - 1) \in Nat
      BY <2>1
    <2> QED BY <2>2 DEF Advance
  <1>3. work' \in [Instances -> [Tasks -> Work]]
    <2>1. [pc |-> "due", bucket |-> 0] \in Work
      BY DEF Work
    <2> QED BY <2>1 DEF Advance, TickTypes
  <1>4. ticked' \subseteq Keys
    <2>1. ASSUME NEW p \in Instances \X Tasks
          PROVE  <<p[2], (now + 1 + Skew[p[1]]) \div Bucket[p[2]]>> \in Keys
      BY <1>1, BucketIsKey DEF BucketAt
    <2> QED BY <2>1 DEF Advance, TickTypes
  <1>5. faults' \in Nat
    BY DEF Advance, Fault, TickTypes
  <1> QED BY <1>1, <1>2, <1>3, <1>4, <1>5 DEF TickTypes, Advance

LEMMA NextTypes ==
  ASSUME TickTypes, [Next]_vars
  PROVE  TickTypes'
  <1>1. ASSUME NEW i \in Instances, NEW t \in Tasks,
               \/ TryAcquireLock(i, t) \/ MakeKey(i, t) \/ FindByKey(i, t)
               \/ Insert(i, t) \/ Fails(i, t)
        PROVE  TickTypes'
    <2> USE DEF TickTypes
    <2>1. CASE TryAcquireLock(i, t)
      <3>1. LockTimeout[t] \in Nat
        BY TickAssumption
      <3>2. Becomes(i, t, "locked", 0) \/ Becomes(i, t, "idle", 0)
        BY <2>1 DEF TryAcquireLock
      <3>3. work' \in [Instances -> [Tasks -> Work]]
        BY <3>2, WorkChanges DEF Working
      <3> QED BY <2>1, <3>1, <3>3 DEF TryAcquireLock
    <2>2. CASE MakeKey(i, t)
      <3>1. IdempotencyKey(t, Clock(i)) \in Nat
        <4>1. BucketAt(i, t, now) \in 0..LastBucket
          BY BucketIsKey
        <4> QED BY <4>1, TickAssumption DEF BucketAt, IdempotencyKey, Clock
      <3>2. work' \in [Instances -> [Tasks -> Work]]
        BY <2>2, <3>1, WorkChanges DEF MakeKey, Working
      <3> QED BY <2>2, <3>2 DEF MakeKey
    <2>3. CASE FindByKey(i, t)
      <3>1. work[i][t].bucket \in Nat
        BY DEF Work
      <3>2. Becomes(i, t, "idle", 0) \/ Becomes(i, t, "insert", work[i][t].bucket)
        BY <2>3 DEF FindByKey
      <3>3. work' \in [Instances -> [Tasks -> Work]]
        BY <3>1, <3>2, WorkChanges DEF Working
      <3> QED BY <2>3, <3>3 DEF FindByKey
    <2>4. CASE Insert(i, t)
      <3>1. work' \in [Instances -> [Tasks -> Work]]
        BY <2>4, WorkChanges DEF Insert
      <3> QED BY <2>4, <3>1 DEF Insert
    <2>5. CASE Fails(i, t)
      <3>1. work' \in [Instances -> [Tasks -> Work]]
        BY <2>5, WorkChanges DEF Fails
      <3> QED BY <2>5, <3>1 DEF Fails, Fault
    <2> QED BY <1>1, <2>1, <2>2, <2>3, <2>4, <2>5
  <1>2. ASSUME NEW i \in Instances, CronStarts(i) \/ CronStops(i) \/ Dies(i)
        PROVE  TickTypes'
    <2>1. Idle \in Work
      BY DEF Idle, Work
    <2> QED BY <1>2, <2>1 DEF CronStarts, CronStops, Dies, Fault, TickTypes
  <1>3. ASSUME NEW t \in Tasks, LockExpires(t)
        PROVE  TickTypes'
    BY <1>3 DEF LockExpires, TickTypes
  <1>4. CASE Advance
    BY <1>4, AdvanceTypes
  <1>5. CASE UNCHANGED vars
    BY <1>5 DEF vars, TickTypes
  <1> QED BY <1>1, <1>2, <1>3, <1>4, <1>5 DEF Next

-----------------------------------------------------------------------------
(* The steps that are not faults *)

Met == WorkIsNow /\ LockIsATicks /\ TicksMet

\* A row that was made stays.
LEMMA SettledStays ==
  ASSUME NEW t \in Tasks, NEW b \in 0..LastBucket, Settled(t, b),
         \A c \in 0..LastBucket : rows[<<t, c>>] = 1 => rows'[<<t, c>>] = 1
  PROVE  Settled(t, b)'
  <1>1. CASE rows[<<t, b>>] = 1
    BY <1>1 DEF Settled
  <1>2. ASSUME ~Outlived(t), NEW c \in 0..(b - 1), rows[<<t, c>>] = 1,
               (b - c) * Bucket[t] <= LockTimeout[t] + Bucket[t]
        PROVE  Settled(t, b)'
    <2>1. c \in 0..LastBucket
      BY TickAssumption
    <2>2. rows'[<<t, c>>] = 1 /\ ~Outlived(t)'
      BY <1>2, <2>1 DEF Outlived
    <2> QED BY <1>2, <2>2 DEF Settled
  <1> QED BY <1>1, <1>2 DEF Settled

\* An instance finds the lock of the task taken: the job of its bucket has been
\* made or is about to be, or the tick is one that the long lock passes over.
LEMMA LockTaken ==
  ASSUME TickTypes, ClocksAgree, Met,
         NEW i \in Instances, NEW t \in Tasks, Doing(i, t) = "due", t \notin free
  PROVE  \/ Settled(t, BucketAt(i, t, now))
         \/ \E k \in Instances : /\ Doing(k, t) \in Working
                                 /\ BucketAt(k, t, now) = BucketAt(i, t, now)
  <1>1. PICK k \in Instances, n \in 0..now : TakenBy(t, k, n)
    BY DEF Met, LockIsATicks
  <1> DEFINE x == n + Skew[k]
             y == now + Skew[i]
             b == BucketAt(i, t, now)
             c == BucketAt(k, t, n)
  <1>2. /\ now \in Nat /\ n \in Nat /\ n <= now /\ left[t] \in Nat
        /\ Skew[i] \in Nat /\ Skew[k] \in Nat /\ LockTimeout[t] \in Nat
        /\ Schedule[t] \in Nat \ {0} /\ Bucket[t] \in Nat \ {0}
        /\ n \in 0..Horizon /\ now \in 0..Horizon
    BY TickAssumption DEF TickTypes
  <1>3. x \in Nat /\ y \in Nat /\ x % Schedule[t] = 0 /\ y % Schedule[t] = 0
    BY <1>1, <1>2 DEF TakenBy, Met, WorkIsNow
  <1>4. /\ now <= n + LockTimeout[t] /\ Skew[i] <= Skew[k] + 1
        /\ Skew[k] < Skew[i] + Schedule[t] /\ Skew[i] < Skew[k] + Schedule[t]
    BY <1>1, <1>2 DEF TakenBy, ClocksAgree
  <1>5. ~(y < x)
    <2>1. y < x => y + Schedule[t] <= x
      BY <1>2, <1>3, PeriodApart
    <2> QED BY <1>2, <1>4, <2>1
  <1>6. CASE rows[<<t, c>>] = 1
    <2>1. b \in 0..LastBucket /\ c \in 0..LastBucket /\ b \in Nat /\ c \in Nat
      <3>1. BucketAt(i, t, now) \in 0..LastBucket
        BY <1>2, BucketIsKey
      <3>2. BucketAt(k, t, n) \in 0..LastBucket
        BY <1>2, BucketIsKey
      <3> QED BY <3>1, <3>2, TickAssumption
    <2>2. c <= b
      <3> HIDE DEF x, y
      <3>1. x <= y
        BY <1>3, <1>5
      <3>2. x \div Bucket[t] <= y \div Bucket[t]
        BY <1>2, <1>3, <3>1, BucketsGrow
      <3> QED BY <3>2 DEF BucketAt, x, y
    <2>3. CASE c = b
      BY <1>6, <2>3 DEF Settled
    <2>4. CASE c # b
      <3>1. x < y
        <4>1. x # y
          BY <2>4 DEF BucketAt
        <4> QED BY <1>3, <1>5, <4>1
      <3>2. x + Schedule[t] <= y
        BY <1>2, <1>3, <3>1, PeriodApart
      <3>3. ~Outlived(t)
        <4>1. ~(LockTimeout[t] + Skew[i] < Schedule[t] + Skew[k])
          BY <1>2, <1>4, <3>2
        <4> QED BY <4>1 DEF Outlived
      <3>4. (b - c) * Bucket[t] <= LockTimeout[t] + Bucket[t]
        <4>1. y <= x + LockTimeout[t] + 1
          BY <1>2, <1>4
        <4> HIDE DEF x, y
        <4>2. (y \div Bucket[t] - x \div Bucket[t]) * Bucket[t] <= LockTimeout[t] + Bucket[t]
          BY <1>2, <1>3, <4>1, BucketDistance
        <4> QED BY <4>2 DEF BucketAt, x, y
      <3>5. c \in 0..(b - 1)
        BY <2>1, <2>2, <2>4
      <3> QED BY <1>6, <3>3, <3>4, <3>5 DEF Settled
    <2> QED BY <2>3, <2>4
  <1>7. CASE n = now /\ Doing(k, t) \in Working
    <2>1. x = y
      <3>1. x < y => x + Schedule[t] <= y
        BY <1>2, <1>3, PeriodApart
      <3> QED BY <1>2, <1>3, <1>4, <1>5, <1>7, <3>1
    <2> QED BY <1>7, <2>1 DEF BucketAt
  <1> QED BY <1>1, <1>6, <1>7 DEF TakenBy

\* A step of one instance for one task on which it is working.
LEMMA StepMeets ==
  ASSUME TickTypes, Met, NEW i \in Instances, NEW t \in Tasks, Doing(i, t) # "idle",
         now' = now, ticked' = ticked,
         \A k \in Instances, u \in Tasks : k # i \/ u # t => work'[k][u] = work[k][u],
         \A key \in Keys : rows[key] = 1 => rows'[key] = 1,
         \A u \in Tasks : u # t => left'[u] = left[u] /\ (u \in free' <=> u \in free),
         \A k \in Instances : Doing(k, t)' \in Working =>
           /\ t \notin free' /\ left'[t] = LockTimeout[t]
           /\ k = i => Doing(i, t)' = "locked" \/ work'[i][t].bucket = BucketAt(i, t, now),
         t \notin free' => \E k \in Instances, n \in 0..now : TakenBy(t, k, n)',
         \/ Doing(i, t)' # "idle"
         \/ Settled(t, BucketAt(i, t, now))'
         \/ \E k \in Instances : /\ k # i /\ Doing(k, t) # "idle"
                                 /\ BucketAt(k, t, now) = BucketAt(i, t, now)
  PROVE  Met'
  <1>1. WorkIsNow'
    <2> SUFFICES ASSUME NEW k \in Instances, NEW u \in Tasks
                 PROVE  /\ Doing(k, u)' # "idle" => (now' + Skew[k]) % Schedule[u] = 0
                        /\ Doing(k, u)' \in Working =>
                             u \notin free' /\ left'[u] = LockTimeout[u]
                        /\ Doing(k, u)' \in {"keyed", "insert"} =>
                             work'[k][u].bucket = BucketAt(k, u, now')
      BY DEF WorkIsNow
    <2>1. CASE k = i /\ u = t
      BY <2>1 DEF Met, WorkIsNow, Working, BucketAt
    <2>2. CASE k # i /\ u = t
      BY <2>2 DEF Met, WorkIsNow, Working, BucketAt, Doing
    <2>3. CASE u # t
      BY <2>3 DEF Met, WorkIsNow, Working, BucketAt, Doing
    <2> QED BY <2>1, <2>2, <2>3
  <1>2. LockIsATicks'
    <2> SUFFICES ASSUME NEW u \in Tasks, u \notin free'
                 PROVE  \E k \in Instances, n \in 0..now' : TakenBy(u, k, n)'
      BY DEF LockIsATicks
    <2>1. CASE u = t
      BY <2>1
    <2>2. CASE u # t
      <3>1. PICK k \in Instances, n \in 0..now : TakenBy(u, k, n)
        BY <2>2 DEF Met, LockIsATicks
      <3>2. <<u, BucketAt(k, u, n)>> \in Keys
        BY <3>1, BucketIsKey, TickAssumption DEF TickTypes
      <3>3. TakenBy(u, k, n)'
        BY <2>2, <3>1, <3>2 DEF TakenBy, BucketAt, Doing
      <3> QED BY <3>3
    <2> QED BY <2>1, <2>2
  <1>3. TicksMet'
    <2> SUFFICES ASSUME NEW u \in Tasks, NEW b \in 0..LastBucket, <<u, b>> \in ticked
                 PROVE  Settled(u, b)' \/ Worked(u, b)'
      BY DEF TicksMet
    <2>1. \A c \in 0..LastBucket : rows[<<u, c>>] = 1 => rows'[<<u, c>>] = 1
      BY DEF Keys
    <2>2. CASE Settled(u, b)
      BY <2>1, <2>2, SettledStays
    <2>3. CASE Worked(u, b)
      <3>1. PICK k \in Instances : Doing(k, u) # "idle" /\ b = BucketAt(k, u, now)
        BY <2>3 DEF Worked
      <3>2. CASE k # i \/ u # t
        BY <3>1, <3>2 DEF Worked, Doing, BucketAt
      <3>3. CASE k = i /\ u = t
        <4>1. CASE Doing(i, t)' # "idle"
          BY <3>1, <3>3, <4>1 DEF Worked, BucketAt
        <4>2. CASE Settled(t, BucketAt(i, t, now))'
          BY <3>1, <3>3, <4>2 DEF Settled, BucketAt
        <4>3. CASE \E j \in Instances : /\ j # i /\ Doing(j, t) # "idle"
                                        /\ BucketAt(j, t, now) = BucketAt(i, t, now)
          BY <3>1, <3>3, <4>3 DEF Worked, Doing, BucketAt
        <4> QED BY <4>1, <4>2, <4>3
      <3> QED BY <3>2, <3>3
    <2> QED BY <2>2, <2>3 DEF Met, TicksMet
  <1> QED BY <1>1, <1>2, <1>3 DEF Met

\* The lock does not change.
LEMMA UnlockedStepMeets ==
  ASSUME TickTypes, Met, NEW i \in Instances, NEW t \in Tasks, Doing(i, t) \in Working,
         now' = now, ticked' = ticked, free' = free, left' = left,
         \A k \in Instances, u \in Tasks : k # i \/ u # t => work'[k][u] = work[k][u],
         \A key \in Keys : rows[key] = 1 => rows'[key] = 1,
         \/ /\ Doing(i, t)' \in {"keyed", "insert"}
            /\ work'[i][t].bucket = BucketAt(i, t, now)
         \/ /\ Doing(i, t)' = "idle"
            /\ rows'[<<t, BucketAt(i, t, now)>>] = 1
  PROVE  Met'
  <1>1. t \notin free' /\ left'[t] = LockTimeout[t] /\ Doing(i, t) # "idle"
    BY DEF Met, WorkIsNow, Working
  <1>2. \E k \in Instances, n \in 0..now : TakenBy(t, k, n)'
    <2>1. PICK k \in Instances, n \in 0..now : TakenBy(t, k, n)
      BY <1>1 DEF Met, LockIsATicks
    <2>2. now + left[t] = n + LockTimeout[t] /\ (n + Skew[k]) % Schedule[t] = 0
      BY <2>1 DEF TakenBy
    <2>3. CASE rows[<<t, BucketAt(k, t, n)>>] = 1
      <3>1. n \in 0..Horizon
        BY TickAssumption DEF TickTypes
      <3>2. <<t, BucketAt(k, t, n)>> \in Keys
        BY <2>1, <3>1, BucketIsKey
      <3>3. TakenBy(t, k, n)'
        BY <2>2, <2>3, <3>2 DEF TakenBy, BucketAt
      <3> QED BY <3>3
    <2>4. CASE n = now /\ Doing(k, t) \in Working /\ k # i
      <3>1. TakenBy(t, k, n)'
        BY <2>2, <2>4 DEF TakenBy, Doing
      <3> QED BY <3>1
    <2>5. CASE n = now /\ k = i
      <3>1. TakenBy(t, i, now)'
        BY <2>2, <2>5 DEF TakenBy, Working, BucketAt
      <3>2. now \in 0..now
        BY DEF TickTypes
      <3> QED BY <2>5, <3>1
    <2> QED BY <2>1, <2>3, <2>4, <2>5 DEF TakenBy
  <1>3. \A k \in Instances : Doing(k, t)' \in Working =>
           /\ t \notin free' /\ left'[t] = LockTimeout[t]
           /\ k = i => Doing(i, t)' = "locked" \/ work'[i][t].bucket = BucketAt(i, t, now)
    BY <1>1 DEF Working
  <1>4. \/ Doing(i, t)' # "idle"
        \/ Settled(t, BucketAt(i, t, now))'
    BY DEF Settled, BucketAt
  <1> QED BY <1>1, <1>2, <1>3, <1>4, StepMeets

LEMMA TryAcquireLockMeets ==
  ASSUME TickTypes, ClocksAgree, Met, NEW i \in Instances, NEW t \in Tasks,
         TryAcquireLock(i, t)
  PROVE  Met'
  <1>1. /\ Doing(i, t) = "due" /\ now' = now /\ ticked' = ticked /\ rows' = rows
        /\ (now + Skew[i]) % Schedule[t] = 0 /\ now \in 0..now
    BY DEF TryAcquireLock, Met, WorkIsNow, TickTypes
  <1>2. CASE t \in free /\ Becomes(i, t, "locked", 0)
             /\ free' = free \ {t} /\ left' = [left EXCEPT ![t] = LockTimeout[t]]
    <2>1. /\ Doing(i, t)' = "locked"
          /\ \A k \in Instances, u \in Tasks : k # i \/ u # t => work'[k][u] = work[k][u]
      BY <1>2, WorkChanges DEF Doing, Working
    <2>2. /\ t \notin free' /\ left'[t] = LockTimeout[t]
          /\ \A u \in Tasks : u # t => left'[u] = left[u] /\ (u \in free' <=> u \in free)
      BY <1>2 DEF TickTypes
    <2>3. TakenBy(t, i, now)'
      BY <1>1, <2>1, <2>2 DEF TakenBy, Working
    <2> QED BY <1>1, <2>1, <2>2, <2>3, StepMeets
  <1>3. CASE t \notin free /\ Becomes(i, t, "idle", 0) /\ UNCHANGED <<free, left>>
    <2>1. /\ Doing(i, t)' = "idle"
          /\ \A k \in Instances, u \in Tasks : k # i \/ u # t => work'[k][u] = work[k][u]
      BY <1>3, WorkChanges DEF Doing
    <2>2. \A k \in Instances : Doing(k, t) \in Working => k # i
      BY <1>1 DEF Working
    <2>3. \A k \in Instances : Doing(k, t)' \in Working =>
             /\ t \notin free' /\ left'[t] = LockTimeout[t]
             /\ k = i => Doing(i, t)' = "locked" \/ work'[i][t].bucket = BucketAt(i, t, now)
      BY <1>3, <2>1, <2>2 DEF Met, WorkIsNow, Working, Doing
    <2>4. \E k \in Instances, n \in 0..now : TakenBy(t, k, n)'
      <3>1. PICK k \in Instances, n \in 0..now : TakenBy(t, k, n)
        BY <1>3 DEF Met, LockIsATicks
      <3>2. TakenBy(t, k, n)'
        BY <1>1, <1>3, <2>1, <2>2, <3>1 DEF TakenBy, BucketAt, Doing
      <3> QED BY <3>2
    <2>5. \/ Settled(t, BucketAt(i, t, now))'
          \/ \E k \in Instances : /\ k # i /\ Doing(k, t) # "idle"
                                  /\ BucketAt(k, t, now) = BucketAt(i, t, now)
      <3>1. CASE Settled(t, BucketAt(i, t, now))
        BY <1>1, <3>1 DEF Settled, BucketAt, Outlived
      <3>2. CASE \E k \in Instances : /\ Doing(k, t) \in Working
                                      /\ BucketAt(k, t, now) = BucketAt(i, t, now)
        BY <2>2, <3>2 DEF Working
      <3> QED BY <1>1, <1>3, <3>1, <3>2, LockTaken
    <2> QED BY <1>1, <1>3, <2>1, <2>3, <2>4, <2>5, StepMeets
  <1> QED BY <1>2, <1>3 DEF TryAcquireLock

LEMMA WorkingMeets ==
  ASSUME TickTypes, Met, NEW i \in Instances, NEW t \in Tasks,
         MakeKey(i, t) \/ FindByKey(i, t) \/ Insert(i, t)
  PROVE  Met'
  <1> DEFINE b == BucketAt(i, t, now)
  <1>1. b \in Nat /\ <<t, b>> \in Keys
    BY BucketIsKey, TickAssumption DEF TickTypes
  <1>2. CASE MakeKey(i, t)
    <2>1. Becomes(i, t, "keyed", b)
      BY <1>2 DEF MakeKey, IdempotencyKey, Clock, BucketAt
    <2>2. /\ Doing(i, t)' = "keyed" /\ work'[i][t].bucket = b
          /\ \A k \in Instances, u \in Tasks : k # i \/ u # t => work'[k][u] = work[k][u]
      BY <1>1, <2>1, WorkChanges DEF Doing, Working
    <2> QED BY <1>2, <2>2, UnlockedStepMeets DEF MakeKey, Working
  <1>3. CASE FindByKey(i, t)
    <2>1. work[i][t].bucket = b /\ rows[<<t, b>>] \in {0, 1}
      BY <1>1, <1>3 DEF FindByKey, Met, WorkIsNow, TickTypes
    <2>2. CASE rows[<<t, b>>] > 0 /\ Becomes(i, t, "idle", 0)
      <3>1. /\ Doing(i, t)' = "idle" /\ rows[<<t, b>>] = 1
            /\ \A k \in Instances, u \in Tasks : k # i \/ u # t => work'[k][u] = work[k][u]
        BY <2>1, <2>2, WorkChanges DEF Doing
      <3> QED BY <1>3, <3>1, UnlockedStepMeets DEF FindByKey, Working
    <2>3. CASE Becomes(i, t, "insert", b)
      <3>1. /\ Doing(i, t)' = "insert" /\ work'[i][t].bucket = b
            /\ \A k \in Instances, u \in Tasks : k # i \/ u # t => work'[k][u] = work[k][u]
        BY <1>1, <2>3, WorkChanges DEF Doing, Working
      <3> QED BY <1>3, <3>1, UnlockedStepMeets DEF FindByKey, Working
    <2> QED BY <1>3, <2>1, <2>2, <2>3 DEF FindByKey
  <1>4. CASE Insert(i, t)
    <2>1. work[i][t].bucket = b
      BY <1>4 DEF Insert, Met, WorkIsNow
    <2>2. /\ rows'[<<t, b>>] = 1
          /\ \A key \in Keys : rows[key] = 1 => rows'[key] = 1
      BY <1>1, <1>4, <2>1 DEF Insert, TickTypes
    <2>3. /\ Doing(i, t)' = "idle"
          /\ \A k \in Instances, u \in Tasks : k # i \/ u # t => work'[k][u] = work[k][u]
      BY <1>4, WorkChanges DEF Insert, Doing
    <2> QED BY <1>4, <2>2, <2>3, UnlockedStepMeets DEF Insert, Working
  <1> QED BY <1>2, <1>3, <1>4

LEMMA AdvanceMeets ==
  ASSUME TickTypes, Met, Advance, faults = 0, faults' = 0
  PROVE  Met'
  <1>1. /\ \A i \in Instances, t \in Tasks : Doing(i, t) = "idle"
        /\ now' = now + 1 /\ now \in Nat /\ now' \in Nat /\ free' = free /\ rows' = rows
        /\ now' \in 0..Horizon
    BY TickAssumption DEF Advance, Fault, TickTypes
  <1>2. ASSUME NEW i \in Instances, NEW t \in Tasks
        PROVE  IF Ticks(i, t, now') THEN Doing(i, t)' = "due" ELSE Doing(i, t)' = "idle"
    BY <1>1 DEF Advance, Doing
  <1>3. WorkIsNow'
    BY <1>2 DEF WorkIsNow, Working, Ticks
  <1>4. LockIsATicks'
    <2> SUFFICES ASSUME NEW t \in Tasks, t \notin free
                 PROVE  \E i \in Instances, n \in 0..now' : TakenBy(t, i, n)'
      BY <1>1 DEF LockIsATicks
    <2>1. PICK i \in Instances, n \in 0..now : TakenBy(t, i, n)
      BY DEF Met, LockIsATicks
    <2>2. left'[t] = left[t] - 1 /\ left[t] \in Nat
      BY DEF Advance, TickTypes
    <2>3. n \in 0..now' /\ now' + left'[t] = n + LockTimeout[t]
      <3>1. now + left[t] = n + LockTimeout[t] /\ LockTimeout[t] \in Nat
        BY <2>1, TickAssumption DEF TakenBy
      <3>2. now' = now + 1 /\ now \in Nat /\ n \in 0..now
        BY <1>1
      <3> QED BY <2>2, <3>1, <3>2
    <2>4. rows[<<t, BucketAt(i, t, n)>>] = 1 /\ (n + Skew[i]) % Schedule[t] = 0
      BY <1>1, <2>1 DEF TakenBy, Working
    <2>5. TakenBy(t, i, n)'
      BY <1>1, <2>3, <2>4 DEF TakenBy, BucketAt
    <2> QED BY <2>3, <2>5
  <1>5. TicksMet'
    <2> SUFFICES ASSUME NEW t \in Tasks, NEW b \in 0..LastBucket, <<t, b>> \in ticked'
                 PROVE  Settled(t, b)' \/ Worked(t, b)'
      BY DEF TicksMet
    <2>1. CASE <<t, b>> \in ticked
      <3>1. Settled(t, b)
        BY <1>1, <2>1 DEF Met, TicksMet, Worked
      <3> QED BY <1>1, <3>1, SettledStays
    <2>2. CASE \E p \in Instances \X Tasks :
                 /\ Ticks(p[1], p[2], now + 1)
                 /\ <<t, b>> = <<p[2], (now + 1 + Skew[p[1]]) \div Bucket[p[2]]>>
      <3>1. PICK p \in Instances \X Tasks :
                   /\ Ticks(p[1], p[2], now + 1)
                   /\ <<t, b>> = <<p[2], (now + 1 + Skew[p[1]]) \div Bucket[p[2]]>>
        BY <2>2
      <3>2. p[1] \in Instances /\ p[2] = t /\ b = (now + 1 + Skew[p[1]]) \div Bucket[t]
        BY <3>1
      <3>3. Doing(p[1], t)' = "due" /\ b = BucketAt(p[1], t, now)'
        BY <1>1, <1>2, <3>1, <3>2 DEF BucketAt
      <3> QED BY <3>2, <3>3 DEF Worked
    <2> QED BY <2>1, <2>2 DEF Advance
  <1> QED BY <1>3, <1>4, <1>5 DEF Met

LEMMA LockExpiresMeets ==
  ASSUME TickTypes, Met, NEW t \in Tasks, LockExpires(t)
  PROVE  Met'
  <1>1. /\ now' = now /\ work' = work /\ rows' = rows /\ left' = left /\ ticked' = ticked
        /\ \A u \in Tasks : u # t => (u \in free' <=> u \in free)
        /\ t \in free' /\ left[t] = 0 /\ LockTimeout[t] # 0
    BY TickAssumption DEF LockExpires
  <1>2. WorkIsNow'
    <2>1. ASSUME NEW i \in Instances, NEW u \in Tasks, Doing(i, u) \in Working
          PROVE  u # t
      BY <1>1, <2>1 DEF Met, WorkIsNow
    <2> QED BY <1>1, <2>1 DEF Met, WorkIsNow, Doing, BucketAt
  <1>3. LockIsATicks'
    <2> SUFFICES ASSUME NEW u \in Tasks, u \notin free'
                 PROVE  \E i \in Instances, n \in 0..now : TakenBy(u, i, n)'
      BY <1>1 DEF LockIsATicks
    <2>1. PICK i \in Instances, n \in 0..now : TakenBy(u, i, n)
      BY <1>1 DEF Met, LockIsATicks
    <2>2. TakenBy(u, i, n)'
      BY <1>1, <2>1 DEF TakenBy, BucketAt, Doing
    <2> QED BY <2>2
  <1>4. TicksMet'
    BY <1>1 DEF Met, TicksMet, Settled, Worked, Outlived, BucketAt, Doing
  <1> QED BY <1>2, <1>3, <1>4 DEF Met

LEMMA NextMeets ==
  ASSUME TickTypes, ClocksAgree, Met, faults = 0, faults' = 0, [Next]_vars
  PROVE  Met'
  <1>1. ASSUME NEW i \in Instances, NEW t \in Tasks,
               \/ TryAcquireLock(i, t) \/ MakeKey(i, t) \/ FindByKey(i, t) \/ Insert(i, t)
        PROVE  Met'
    BY <1>1, TryAcquireLockMeets, WorkingMeets
  <1>2. ASSUME NEW i \in Instances
        PROVE  ~Dies(i) /\ \A t \in Tasks : ~Fails(i, t)
    BY DEF Dies, Fails, Fault
  <1>3. CASE UNCHANGED <<now, free, left, work, rows, ticked>>
    <2>1. WorkIsNow' /\ TicksMet'
      BY <1>3 DEF Met, WorkIsNow, TicksMet, Settled, Worked, Outlived, BucketAt, Doing
    <2>2. LockIsATicks'
      BY <1>3 DEF Met, LockIsATicks, TakenBy, BucketAt, Doing
    <2> QED BY <2>1, <2>2 DEF Met
  <1>4. ASSUME NEW i \in Instances, CronStarts(i) \/ CronStops(i)
        PROVE  Met'
    BY <1>3, <1>4 DEF CronStarts, CronStops
  <1>5. CASE UNCHANGED vars
    BY <1>3, <1>5 DEF vars
  <1> QED BY <1>1, <1>2, <1>4, <1>5, AdvanceMeets, LockExpiresMeets DEF Next

\* On every run the job table has at most one row for a key, and, as long as
\* nothing has failed and the clocks agree, each tick of the cron has its job or
\* came while the lock of an earlier one was held.
LEMMA TickInvariant == ClocksAgree => (Spec => []TickInv)
  <1> SUFFICES ASSUME ClocksAgree PROVE Spec => []TickInv
    OBVIOUS
  <1>1. Init => TickInv
    <2> SUFFICES ASSUME Init PROVE TickInv
      OBVIOUS
    <2>1. Idle \in Work
      BY DEF Idle, Work
    <2>2. TickTypes
      BY <2>1, TickAssumption DEF Init, TickTypes
    <2>3. Met
      BY DEF Init, Met, WorkIsNow, LockIsATicks, TicksMet, Doing, Idle, Working
    <2> QED BY <2>2, <2>3 DEF TickInv, Met
  <1>2. TickInv /\ [Next]_vars => TickInv'
    <2> SUFFICES ASSUME TickInv, [Next]_vars PROVE TickInv'
      OBVIOUS
    <2>1. TickTypes'
      BY NextTypes DEF TickInv
    <2>2. faults' = 0 => faults = 0
      <3>1. faults' = faults \/ faults' = faults + 1
        BY DEF Next, vars, Advance, Fault, LockExpires, CronStarts, CronStops, Dies,
               TryAcquireLock, MakeKey, FindByKey, Insert, Fails
      <3> QED BY <3>1 DEF TickInv, TickTypes
    <2>3. faults' = 0 => Met'
      BY <2>2, NextMeets DEF TickInv, Met
    <2> QED BY <2>1, <2>3 DEF TickInv, Met
  <1> QED BY <1>1, <1>2, PTL DEF Spec

\* A tick of the cron makes one job, never two, and is skipped only while the lock
\* of an earlier tick that has its job is held (runPlatformTask: the lock in Redis,
\* the idempotency key of the bucket and the unique index on it).
THEOREM TickMakesOneJob == ClocksAgree => (Spec => []EachTickOnce)
  <1> SUFFICES ASSUME ClocksAgree PROVE Spec => []EachTickOnce
    OBVIOUS
  <1>1. TickInv => EachTickOnce
    <2> SUFFICES ASSUME TickInv PROVE EachTickOnce
      OBVIOUS
    <2>1. OnePerBucket
      BY DEF OnePerBucket, TickInv, TickTypes
    <2>2. SkippedOnlyWhileLocked
      <3> SUFFICES ASSUME faults = 0, NEW key \in ticked, Over(key)
                   PROVE  \/ rows[key] = 1
                          \/ /\ ~Outlived(key[1])
                             /\ \E b \in 0..(key[2] - 1) :
                                  /\ rows[<<key[1], b>>] = 1
                                  /\ (key[2] - b) * Bucket[key[1]]
                                       <= LockTimeout[key[1]] + Bucket[key[1]]
        BY DEF SkippedOnlyWhileLocked
      <3>1. PICK t \in Tasks, c \in 0..LastBucket : key = <<t, c>>
        BY DEF TickInv, TickTypes, Keys
      <3>2. key[1] = t /\ key[2] = c
        BY <3>1
      <3>3. ~Worked(t, c)
        BY <3>2 DEF Over, Worked
      <3>4. Settled(t, c)
        BY <3>1, <3>3 DEF TickInv, TicksMet
      <3> QED BY <3>1, <3>2, <3>4 DEF Settled
    <2> QED BY <2>1, <2>2 DEF EachTickOnce
  <1> QED BY <1>1, TickInvariant, PTL

\* However far the clocks are apart, whatever fails, and whoever ticks: a bucket
\* never has two jobs (IdempotencyKey and the unique index of the job table).
THEOREM OneJobPerBucket == Spec => []OnePerBucket
  <1>1. Init => TickTypes
    <2> SUFFICES ASSUME Init PROVE TickTypes
      OBVIOUS
    <2>1. Idle \in Work
      BY DEF Idle, Work
    <2> QED BY <2>1, TickAssumption DEF Init, TickTypes
  <1>2. TickTypes /\ [Next]_vars => TickTypes'
    BY NextTypes
  <1>3. TickTypes => OnePerBucket
    BY DEF TickTypes, OnePerBucket
  <1> QED BY <1>1, <1>2, <1>3, PTL DEF Spec

-----------------------------------------------------------------------------
(* Meter *)

SnapAt == {"idle", "check", "reset", "zero", "copy", "gauge", "sum"}
MeterTypes ==
  /\ phase \in {"off", "registered", "failed", "up", "unsnapped", "find", "save", "reset",
                "stopped", "exited"}
  /\ row \in {"none", "active", "inactive"} /\ gauge \in Int /\ loose \subseteq {"row", "gauge"}
  /\ snap \in [pc: SnapAt, sum: SUBSET (1..recorded), load: Nat, due: BOOLEAN]
  /\ beat \in [pc: {"idle", "save"}, due: BOOLEAN]
  /\ counter \in [exists: BOOLEAN, ids: SUBSET (1..recorded)]
  /\ totals \in [exists: BOOLEAN, ids: SUBSET (1..recorded)]
  /\ load \in Nat /\ recorded \in Nat /\ once \subseteq 1..recorded
  /\ (counter.exists \/ counter.ids = {}) /\ (totals.exists \/ totals.ids = {})

\* What is under way or due once it has been stopped is known to be, and so is a
\* row or a gauge that was not cleared.
StopsKnown ==
  /\ phase \in {"unsnapped", "find", "save", "reset", "stopped"} =>
       (snap.pc # "idle" \/ snap.due => "gauge" \in loose)
  /\ phase \in {"find", "save", "reset", "stopped"} =>
       (beat.pc # "idle" \/ beat.due => "row" \in loose)
  /\ phase \in {"reset", "stopped", "exited"} /\ row = "active" => "row" \in loose
  /\ phase \in {"stopped", "exited"} /\ gauge # NoGauge => "gauge" \in loose

\* The counter goes on from the sums in Redis, and counts nothing that has been
\* aggregated, unless it is about to start again.
SumsGoOn ==
  /\ twice = {} /\ \A e \in written : (e \in once) # (e \in totals.ids)
  /\ totals.ids \subseteq counter.ids
  /\ totals.exists \/ snap.pc \in {"zero", "copy", "gauge", "sum"} => counter.ids \cap once = {}
  /\ snap.pc \in {"reset", "zero"} => ~totals.exists
  /\ snap.pc \in {"gauge", "sum"} =>
       totals.ids \subseteq snap.sum /\ snap.sum \subseteq counter.ids

MeterInv == MeterTypes /\ StopsKnown /\ (~overlapped => SumsGoOn)

\* The parts of the loop and of the sums that a step leaves alone.
LEMMA SnapFits ==
  ASSUME MeterTypes, NEW pc \in SnapAt, SnapGoes(pc)
  PROVE  /\ snap' \in [pc: SnapAt, sum: SUBSET (1..recorded), load: Nat, due: BOOLEAN]
         /\ snap'.pc = pc /\ snap'.sum = snap.sum /\ snap'.due = snap.due
  BY DEF MeterTypes, SnapGoes

\* A write of the sums, done or failed, of events that have been recorded.
LEMMA WriteFits ==
  ASSUME MeterTypes, NEW pc \in SnapAt, NEW ids \in SUBSET (1..recorded), WriteTotals(ids, pc)
  PROVE  /\ MeterTypes' /\ snap'.pc = pc /\ snap'.sum = snap.sum /\ snap'.due = snap.due
         /\ UNCHANGED <<counter, once, twice, overlapped, instance, gauge>>
         /\ \/ totals' = [exists |-> TRUE, ids |-> ids] /\ written' = written \cup ids
            \/ UNCHANGED <<totals, written>>
  <1>1. /\ SnapGoes(pc)
        /\ UNCHANGED <<counter, recorded, once, twice, overlapped, instance, load, channel, gauge>>
        /\ \/ totals' = [exists |-> TRUE, ids |-> ids] /\ written' = written \cup ids
           \/ UNCHANGED <<totals, written>>
    BY DEF WriteTotals
  <1>2. /\ snap' \in [pc: SnapAt, sum: SUBSET (1..recorded), load: Nat, due: BOOLEAN]
        /\ snap'.pc = pc /\ snap'.sum = snap.sum /\ snap'.due = snap.due
    BY <1>1, SnapFits
  <1>3. totals' \in [exists: BOOLEAN, ids: SUBSET (1..recorded)] /\ (totals'.exists \/ totals'.ids = {})
    <2>1. CASE totals' = [exists |-> TRUE, ids |-> ids]
      BY <2>1
    <2>2. CASE totals' = totals
      BY <2>2 DEF MeterTypes
    <2> QED BY <1>1, <2>1, <2>2
  <1>4. MeterTypes'
    BY <1>1, <1>2, <1>3 DEF MeterTypes, instance
  <1> QED BY <1>1, <1>2, <1>4

\* A step of a snapshot, the sums aside.
LEMMA SnapshotKeeps ==
  ASSUME MeterTypes, StopsKnown, Running, SyncStatsToRedis
  PROVE  MeterTypes' /\ StopsKnown'
  <1>1. CASE Tick
    <2>1. snap' \in [pc: SnapAt, sum: SUBSET (1..recorded), load: Nat, due: BOOLEAN]
      BY <1>1 DEF Tick, Resting, SnapAt
    <2>2. snap'.due = FALSE /\ snap.pc = "idle"
      BY <1>1 DEF Tick, Resting
    <2>3. MeterTypes'
      BY <1>1, <2>1 DEF Tick, MeterTypes, telemetry, instance
    <2> QED BY <1>1, <2>2, <2>3 DEF Tick, StopsKnown, instance
  <1>2. CASE CheckAndReset
    <2>1. CASE snap.pc = "check" /\ CheckAndReset
      <3>1. PICK pc \in {"copy", "reset"} : SnapGoes(pc)
        BY <2>1 DEF CheckAndReset, ResetForProject
      <3>2. UNCHANGED <<counter, totals, recorded, once, instance, load, gauge>>
        BY <2>1 DEF CheckAndReset, ResetForProject
      <3>3. /\ snap' \in [pc: SnapAt, sum: SUBSET (1..recorded), load: Nat, due: BOOLEAN]
            /\ snap'.due = snap.due
        BY <3>1, SnapFits DEF SnapAt
      <3> QED BY <2>1, <3>2, <3>3 DEF MeterTypes, StopsKnown, instance
    <2>2. CASE ResetForProject
      <3>1. /\ snap' \in [pc: SnapAt, sum: SUBSET (1..recorded), load: Nat, due: BOOLEAN]
            /\ snap'.due = snap.due /\ snap.pc = "reset"
        BY <2>2, SnapFits DEF ResetForProject, SnapAt
      <3>2. counter' \in [exists: BOOLEAN, ids: SUBSET (1..recorded)] /\ counter'.ids = {}
        BY <2>2 DEF ResetForProject, MeterTypes
      <3> QED BY <2>2, <3>1, <3>2 DEF ResetForProject, MeterTypes, StopsKnown, instance
    <2>3. CASE snap.pc = "zero" /\ WriteTotals({}, "copy")
      <3>1. /\ MeterTypes' /\ snap'.due = snap.due
            /\ UNCHANGED <<instance, gauge>>
        BY <2>3, WriteFits DEF SnapAt
      <3> QED BY <2>3, <3>1 DEF StopsKnown, instance
    <2> QED BY <1>2, <2>1, <2>2, <2>3 DEF CheckAndReset
  <1>3. CASE ReadFigures
    <2>1. /\ snap' \in [pc: SnapAt, sum: SUBSET (1..recorded), load: Nat, due: BOOLEAN]
          /\ snap'.due = snap.due /\ snap.pc = "copy"
      BY <1>3 DEF ReadFigures, MeterTypes, SnapAt
    <2> QED BY <1>3, <2>1 DEF ReadFigures, MeterTypes, StopsKnown, telemetry, instance
  <1>4. CASE WriteGauges
    <2>1. /\ snap' \in [pc: SnapAt, sum: SUBSET (1..recorded), load: Nat, due: BOOLEAN]
          /\ snap'.due = snap.due /\ snap.pc = "gauge"
      BY <1>4, SnapFits DEF WriteGauges, SnapAt
    <2>2. gauge' \in Int
      BY <1>4 DEF WriteGauges, MeterTypes
    <2>3. MeterTypes'
      BY <1>4, <2>1, <2>2 DEF WriteGauges, MeterTypes, telemetry, instance
    <2>4. phase # "exited"
      BY DEF Running
    <2> QED BY <1>4, <2>1, <2>3, <2>4 DEF WriteGauges, StopsKnown, instance
  <1>5. CASE WriteSums
    <2>1. snap.sum \in SUBSET (1..recorded) /\ "idle" \in SnapAt
      BY DEF MeterTypes, SnapAt
    <2>2. /\ MeterTypes' /\ snap'.due = snap.due
          /\ UNCHANGED <<instance, gauge>> /\ snap.pc = "sum"
      BY <1>5, <2>1, WriteFits DEF WriteSums
    <2> QED BY <2>2 DEF StopsKnown, instance
  <1> QED BY <1>1, <1>2, <1>3, <1>4, <1>5 DEF SyncStatsToRedis

\* A step of the start, of the heartbeat or of the shutdown, the sums aside.
LEMMA LifeKeeps ==
  ASSUME MeterTypes, StopsKnown,
         \/ Register \/ StartSnapshots \/ Heartbeat
         \/ StopSnapshots \/ StopHeartbeat \/ Deregister \/ Exit
  PROVE  MeterTypes' /\ StopsKnown'
  <1> USE DEF MeterTypes, StopsKnown, telemetry
  <1>1. CASE Register
    BY <1>1 DEF Register
  <1>2. CASE StartSnapshots
    BY <1>2 DEF StartSnapshots
  <1>3. CASE Heartbeat
    <2>1. CASE beat.pc = "idle" /\ Heartbeat
      <3>0. beat' = [pc |-> "save", due |-> FALSE] \/ beat' = [beat EXCEPT !.due = FALSE]
        BY <1>3, <2>1 DEF Heartbeat
      <3>1. /\ beat' \in [pc: {"idle", "save"}, due: BOOLEAN]
            /\ phase \in {"registered", "up", "unsnapped"} \/ beat.due = TRUE
            /\ UNCHANGED <<row, phase, loose, snap, gauge>>
        <4>1. beat' \in [pc: {"idle", "save"}, due: BOOLEAN]
          <5>1. CASE beat' = [pc |-> "save", due |-> FALSE]
            BY <5>1
          <5>2. CASE beat' = [beat EXCEPT !.due = FALSE]
            BY <5>2
          <5> QED BY <3>0, <5>1, <5>2
        <4>2. phase \in {"registered", "up", "unsnapped"} \/ beat.due = TRUE
          <5>1. beat.due \in BOOLEAN /\ beat.pc # "save"
            BY <2>1
          <5>2. phase \in {"registered", "up", "unsnapped"} \/ beat.due
            BY <1>3, <5>1, Zenon DEF Heartbeat
          <5> QED BY <5>1, <5>2
        <4>3. UNCHANGED <<row, phase, loose, snap, gauge>>
          BY <1>3, <2>1 DEF Heartbeat
        <4> QED BY <4>1, <4>2, <4>3
      <3>2. UNCHANGED <<telemetry, load, channel>>
        BY <1>3 DEF Heartbeat
      <3>3. MeterTypes'
        BY <3>1, <3>2
      <3>4. phase \in {"find", "save", "reset", "stopped"} => "row" \in loose
        BY <3>1
      <3>5. StopsKnown'
        BY <3>1, <3>4
      <3> QED BY <3>3, <3>5
    <2>2. CASE beat.pc = "save" /\ Heartbeat
      <3>1. /\ beat' \in [pc: {"idle", "save"}, due: BOOLEAN] /\ beat'.due = beat.due
            /\ row' \in {row, "active"} /\ phase # "exited"
            /\ UNCHANGED <<phase, loose, snap, gauge>>
        BY <1>3, <2>2 DEF Heartbeat, Running
      <3> QED BY <1>3, <2>2, <3>1 DEF Heartbeat
    <2> QED BY <1>3, <2>1, <2>2 DEF Heartbeat
  <1>4. CASE StopSnapshots
    <2>1. PICK d \in BOOLEAN :
            /\ snap' = [snap EXCEPT !.due = d]
            /\ loose' = loose \cup (IF d \/ snap.pc # "idle" THEN {"gauge"} ELSE {})
      BY <1>4 DEF StopSnapshots
    <2>2. /\ snap' \in [pc: SnapAt, sum: SUBSET (1..recorded), load: Nat, due: BOOLEAN]
          /\ snap'.due = d /\ snap'.pc = snap.pc
      BY <2>1
    <2> QED BY <1>4, <2>1, <2>2 DEF StopSnapshots
  <1>5. CASE StopHeartbeat
    <2>1. PICK d \in BOOLEAN :
            /\ beat' = [beat EXCEPT !.due = d]
            /\ loose' = loose \cup (IF d \/ beat.pc # "idle" THEN {"row"} ELSE {})
      BY <1>5 DEF StopHeartbeat
    <2>2. /\ beat' \in [pc: {"idle", "save"}, due: BOOLEAN]
          /\ beat'.due = d /\ beat'.pc = beat.pc
      BY <2>1
    <2> QED BY <1>5, <2>1, <2>2 DEF StopHeartbeat
  <1>6. CASE Deregister
    <2>1. /\ UNCHANGED <<telemetry, beat, load, channel, snap>>
          /\ loose \subseteq loose' /\ loose' \subseteq loose \cup {"row", "gauge"}
      BY <1>6 DEF Deregister, Breaks
    <2>2. CASE phase = "find"
      BY <1>6, <2>1, <2>2 DEF Deregister, Breaks
    <2>3. CASE phase = "save"
      BY <1>6, <2>1, <2>3 DEF Deregister, Breaks
    <2>4. CASE phase = "reset"
      <3>1. NoGauge \in Int
        BY DEF NoGauge
      <3> QED BY <1>6, <2>1, <2>4, <3>1 DEF Deregister, Breaks
    <2> QED BY <1>6, <2>2, <2>3, <2>4 DEF Deregister
  <1>7. CASE Exit
    <2>1. snap' \in [pc: SnapAt, sum: SUBSET (1..recorded), load: Nat, due: BOOLEAN]
      BY <1>7 DEF Exit, Resting, SnapAt
    <2> QED BY <1>7, <2>1 DEF Exit
  <1> QED BY <1>1, <1>2, <1>3, <1>4, <1>5, <1>6, <1>7

\* A step that touches neither the counter nor the sums, and leaves the snapshot
\* where it is or ends it.
LEMMA SumsRest ==
  ASSUME SumsGoOn, UNCHANGED <<counter, totals, written, once, twice>>,
         \/ snap'.pc = snap.pc /\ snap'.sum = snap.sum
         \/ snap'.pc = "idle"
  PROVE  SumsGoOn'
  BY DEF SumsGoOn

LEMMA SnapshotCounts ==
  ASSUME MeterTypes, SumsGoOn, SyncStatsToRedis, ~overlapped'
  PROVE  SumsGoOn'
  <1>1. CASE Tick
    <2>1. /\ UNCHANGED <<counter, totals, written, once, twice>>
          /\ snap.pc = "idle" /\ snap'.pc = (IF counter.exists THEN "check" ELSE "copy")
      BY <1>1 DEF Tick, telemetry, Resting
    <2> QED BY <2>1 DEF SumsGoOn, MeterTypes
  <1>2. CASE CheckAndReset
    <2>1. CASE snap.pc = "check" /\ CheckAndReset
      <3>1. UNCHANGED <<counter, totals, written, once, twice>>
        BY <2>1 DEF CheckAndReset, ResetForProject
      <3>2. SnapGoes(IF totals.exists THEN "copy" ELSE "reset")
        BY <2>1 DEF CheckAndReset, ResetForProject
      <3>3. snap'.pc = (IF totals.exists THEN "copy" ELSE "reset") /\ snap'.sum = snap.sum
        BY <3>2 DEF SnapGoes, MeterTypes
      <3> QED BY <3>1, <3>3 DEF SumsGoOn
    <2>2. CASE ResetForProject
      <3>1. /\ UNCHANGED <<totals, written, once, twice>> /\ counter'.ids = {}
            /\ snap'.pc = "zero" /\ snap.pc = "reset"
        BY <2>2 DEF ResetForProject, SnapGoes, MeterTypes
      <3>2. totals.ids = {}
        BY <3>1 DEF SumsGoOn, MeterTypes
      <3> QED BY <3>1, <3>2 DEF SumsGoOn
    <2>3. CASE snap.pc = "zero" /\ WriteTotals({}, "copy")
      <3>1. /\ UNCHANGED <<counter, once, twice>> /\ snap'.pc = "copy"
            /\ \/ totals' = [exists |-> TRUE, ids |-> {}] /\ written' = written \cup {}
               \/ UNCHANGED <<totals, written>>
        BY <2>3, WriteFits DEF SnapAt
      <3>2. totals.ids = {} /\ ~totals.exists
        BY <2>3 DEF SumsGoOn, MeterTypes
      <3>3. totals'.ids = {} /\ written' = written
        BY <3>1, <3>2
      <3> QED BY <2>3, <3>1, <3>2, <3>3 DEF SumsGoOn
    <2> QED BY <1>2, <2>1, <2>2, <2>3 DEF CheckAndReset
  <1>3. CASE ReadFigures
    <2>1. /\ UNCHANGED <<counter, totals, written, once, twice>>
          /\ snap'.pc = "gauge" /\ snap'.sum = counter.ids /\ snap.pc = "copy"
      BY <1>3 DEF ReadFigures, telemetry, MeterTypes
    <2> QED BY <2>1 DEF SumsGoOn
  <1>4. CASE WriteGauges
    <2>1. /\ UNCHANGED <<counter, totals, written, once, twice>>
          /\ snap'.pc = "sum" /\ snap'.sum = snap.sum /\ snap.pc = "gauge"
      BY <1>4 DEF WriteGauges, SnapGoes, telemetry, MeterTypes
    <2> QED BY <2>1 DEF SumsGoOn
  <1>5. CASE WriteSums
    <2>1. snap.sum \in SUBSET (1..recorded) /\ "idle" \in SnapAt /\ snap.pc = "sum"
      BY <1>5 DEF MeterTypes, SnapAt, WriteSums
    <2>2. /\ UNCHANGED <<counter, once, twice>> /\ snap'.pc = "idle"
          /\ \/ totals' = [exists |-> TRUE, ids |-> snap.sum] /\ written' = written \cup snap.sum
             \/ UNCHANGED <<totals, written>>
      BY <1>5, <2>1, WriteFits DEF WriteSums
    <2>3. CASE totals' = [exists |-> TRUE, ids |-> snap.sum] /\ written' = written \cup snap.sum
      <3>1. totals'.ids = snap.sum
        BY <2>3
      <3> QED BY <2>1, <2>2, <2>3, <3>1 DEF SumsGoOn
    <2>4. CASE UNCHANGED <<totals, written>>
      BY <2>1, <2>2, <2>4 DEF SumsGoOn
    <2> QED BY <2>2, <2>3, <2>4
  <1> QED BY <1>1, <1>2, <1>3, <1>4, <1>5 DEF SyncStatsToRedis

LEMMA RecordKeeps ==
  ASSUME MeterInv, Record
  PROVE  MeterInv'
  <1>1. CASE recorded' = recorded + 1 /\ Record
    <2>1. counter' = [exists |-> TRUE, ids |-> counter.ids \cup {recorded'}]
      BY <1>1 DEF Record, MeterInv, MeterTypes
    <2>2. counter'.exists = TRUE /\ counter'.ids = counter.ids \cup {recorded'}
      BY <2>1
    <2>3. /\ recorded' \in Nat /\ 1..recorded \subseteq 1..recorded'
          /\ recorded' \in 1..recorded' /\ recorded' \notin 1..recorded
      BY <1>1 DEF MeterInv, MeterTypes
    <2>4. UNCHANGED <<instance, totals, written, once, twice, overlapped, load, gauge, snap>>
      BY <1>1 DEF Record
    <2>5. MeterTypes'
      <3>1. counter' \in [exists: BOOLEAN, ids: SUBSET (1..recorded')]
        BY <2>1, <2>3 DEF MeterInv, MeterTypes
      <3>2. /\ snap \in [pc: SnapAt, sum: SUBSET (1..recorded'), load: Nat, due: BOOLEAN]
            /\ totals \in [exists: BOOLEAN, ids: SUBSET (1..recorded')]
            /\ once \subseteq 1..recorded'
        BY <2>3 DEF MeterInv, MeterTypes
      <3> QED BY <2>2, <2>3, <2>4, <3>1, <3>2 DEF MeterInv, MeterTypes, instance
    <2>6. ~overlapped => SumsGoOn'
      BY <2>2, <2>3, <2>4 DEF MeterInv, MeterTypes, SumsGoOn
    <2> QED BY <2>4, <2>5, <2>6 DEF MeterInv, StopsKnown, instance
  <1>2. CASE ~counter.exists /\ counter' = [counter EXCEPT !.exists = TRUE] /\ UNCHANGED recorded
    <2>1. UNCHANGED <<instance, totals, written, once, twice, overlapped, load, gauge, snap, recorded>>
      BY <1>2 DEF Record
    <2>2. /\ counter'.ids = counter.ids /\ counter' \in [exists: BOOLEAN, ids: SUBSET (1..recorded)]
          /\ counter'.exists
      BY <1>2 DEF MeterInv, MeterTypes
    <2> QED BY <2>1, <2>2 DEF MeterInv, MeterTypes, StopsKnown, SumsGoOn, instance
  <1> QED BY <1>1, <1>2 DEF Record

LEMMA AggregateKeeps ==
  ASSUME MeterInv, Aggregate
  PROVE  MeterInv'
  <1>1. /\ totals.exists /\ totals'.exists = FALSE /\ totals'.ids = {}
        /\ totals' \in [exists: BOOLEAN, ids: SUBSET (1..recorded)]
        /\ once' = once \cup totals.ids /\ twice' = twice \cup (totals.ids \cap once)
        /\ UNCHANGED <<counter, recorded, written, instance, load, channel, gauge, snap>>
    BY DEF Aggregate
  <1>2. ~overlapped' => ~overlapped /\ snap.pc \in {"idle", "check"}
    BY DEF Aggregate
  <1>3. MeterTypes' /\ StopsKnown'
    <2>1. once' \subseteq 1..recorded
      BY <1>1 DEF MeterInv, MeterTypes
    <2>2. MeterTypes'
      BY <1>1, <2>1 DEF MeterInv, MeterTypes, instance
    <2>3. StopsKnown'
      BY <1>1 DEF MeterInv, StopsKnown, instance
    <2> QED BY <2>2, <2>3
  <1>4. ASSUME ~overlapped' PROVE SumsGoOn'
    <2>1. totals.ids \cap once = {}
      BY <1>1, <1>2, <1>4 DEF MeterInv, SumsGoOn
    <2> QED BY <1>1, <1>2, <1>4, <2>1 DEF MeterInv, SumsGoOn
  <1> QED BY <1>3, <1>4 DEF MeterInv

LEMMA MeterStep ==
  ASSUME MeterInv, [MeterNext]_meterVars
  PROVE  MeterInv'
  <1>1. CASE Connections
    <2>1. load' \in Nat
      BY <1>1, MeterAssumption DEF Connections
    <2> QED BY <1>1, <2>1
         DEF Connections, MeterInv, MeterTypes, StopsKnown, SumsGoOn, telemetry, instance
  <1>2. CASE CreateChannel
    BY <1>2 DEF CreateChannel, MeterInv, MeterTypes, StopsKnown, SumsGoOn, telemetry, instance
  <1>3. CASE Running /\ SyncStatsToRedis
    <2>1. ~overlapped' => ~overlapped
      BY <1>3 DEF SyncStatsToRedis, Tick, CheckAndReset, ResetForProject, WriteTotals,
                  ReadFigures, WriteGauges, WriteSums, telemetry
    <2> QED BY <1>3, <2>1, SnapshotKeeps, SnapshotCounts DEF MeterInv
  <1>4. CASE \/ Register \/ StartSnapshots \/ Heartbeat
             \/ StopSnapshots \/ StopHeartbeat \/ Deregister \/ Exit
    <2>1. UNCHANGED telemetry
      BY <1>4 DEF Register, StartSnapshots, Heartbeat, StopSnapshots, StopHeartbeat, Deregister, Exit
    <2>2. \/ snap'.pc = snap.pc /\ snap'.sum = snap.sum
          \/ snap'.pc = "idle"
      BY <1>4 DEF Register, StartSnapshots, Heartbeat, StopSnapshots, StopHeartbeat, Deregister,
                  Exit, Resting, MeterInv, MeterTypes
    <2>3. ~overlapped' => SumsGoOn'
      BY <2>1, <2>2, SumsRest DEF MeterInv, telemetry
    <2> QED BY <1>4, <2>3, LifeKeeps DEF MeterInv
  <1>5. CASE UNCHANGED meterVars
    BY <1>5 DEF meterVars, telemetry, instance, MeterInv, MeterTypes, StopsKnown, SumsGoOn
  <1> QED BY <1>1, <1>2, <1>3, <1>4, <1>5, RecordKeeps, AggregateKeeps DEF MeterNext

LEMMA MeterInvariant == MeterSpec => []MeterInv
  <1>1. MeterInit => MeterInv
    <2> SUFFICES ASSUME MeterInit PROVE MeterInv
      OBVIOUS
    <2>1. MeterTypes
      BY DEF MeterInit, MeterTypes, SnapAt, Resting, NoGauge
    <2> QED BY <2>1 DEF MeterInit, MeterInv, StopsKnown, SumsGoOn, Resting
  <1> QED BY <1>1, MeterStep, PTL DEF MeterSpec

\* An event that got into Redis is aggregated once or is still there, for any
\* number of events and of snapshots (checkAndResetAccumulatingStats starts the
\* counter again as soon as the keys are gone).
THEOREM EventsCountedOnce == MeterSpec => []CountedExactly
  <1>1. MeterInv => CountedExactly
    BY DEF MeterInv, SumsGoOn, CountedExactly
  <1> QED BY <1>1, MeterInvariant, PTL

\* A shutdown that nothing disturbs leaves no active row and no gauge behind
\* (Shutdown: the snapshots stop before the instance is deregistered).
THEOREM ShutdownClears == MeterSpec => []LeavesNothing
  <1>1. MeterInv => LeavesNothing
    BY DEF MeterInv, StopsKnown, LeavesNothing
  <1> QED BY <1>1, MeterInvariant, PTL
=============================================================================
