--------------------------- MODULE QueueLifecycle ---------------------------
(***************************************************************************)
(* Deletion of a queue and of its tenant: the status of their rows, the    *)
(* write barrier of the guard, and the cascades that delete what belongs   *)
(* to them, started by a request or resumed by the platform's maintenance  *)
(* task.  Rows are read and written one statement at a time, and a process *)
(* may die between any two.                                                *)
(*                                                                         *)
(* Reads that directly follow each other in a handler are one step.  A job *)
(* is active (pending, scheduled or running), done (completed or           *)
(* cancelled), dlq (out of attempts) or gone; JobQueue has the rest of its *)
(* row, and every way a running job stays active (claims, leases,          *)
(* reclaims): single statements that find no job that is not active.       *)
(***************************************************************************)
EXTENDS Naturals, FiniteSets

CONSTANTS
  Queues,       \* queue names of one tenant
  Jobs,
  Home,         \* the queue each job is for
  Requests,     \* handlers in flight, and the goroutines they leave behind
  Schedulers,   \* scheduler loops, one per server instance
  Maintenance,  \* the platform task that resumes cascades
  Instances,    \* server instances, for their caches of tenants
  None,
  Batch,        \* rows deleted by one statement
  IdBound,      \* bound on the queue rows ever created
  CrashBound    \* bound on the processes that die

VARIABLES
  tenant,    \* the status of the tenant's row
  cached,    \* the instances whose tenant service holds the tenant
  queue,     \* the row of each queue name
  ids,       \* the last id given to a row
  job,
  op,        \* what each process is in the middle of
  crashes,
  forced,    \* history: the queues marked by a deletion with force
  overtaken  \* history: a step has written over what was no longer as checked

vars == <<tenant, cached, queue, ids, job, op, crashes, forced, overtaken>>

Procs == Requests \cup Schedulers \cup {Maintenance}

ASSUME LifecycleAssumption ==
  /\ Home \in [Jobs -> Queues]
  /\ Maintenance \notin Requests \cup Schedulers /\ Requests \cap Schedulers = {}
  /\ None \notin Queues \cup Jobs
  /\ IsFiniteSet(Jobs) /\ IsFiniteSet(Queues)
  /\ Batch \in Nat \ {0} /\ IdBound \in Nat /\ CrashBound \in Nat

NoRow == [id |-> 0, status |-> "none"]
QueueRow == {NoRow} \cup [id: 1..IdBound, status: {"active", "deleting"}]
Listed == [q: Queues, row: QueueRow]
JobStatus == {"unborn", "active", "done", "dlq", "gone"}
\* due: jobs still to promote; todo: queues still to mark; rest: queues still
\* to delete.
Idle == [pc |-> "idle", q |-> None, row |-> NoRow, job |-> None, force |-> FALSE,
         busy |-> FALSE, due |-> {}, todo |-> {}, rest |-> {}]

Op == [pc: {"idle", "ensure", "create", "insert", "find", "publish", "settle", "retry",
            "due", "promote", "count", "mark", "cancel", "jobs", "row", "close", "list",
            "tenant", "rows", "resume"},
       q: Queues \cup {None}, row: QueueRow, job: Jobs \cup {None}, force: BOOLEAN,
       busy: BOOLEAN, due: SUBSET Jobs, todo: SUBSET Listed, rest: SUBSET Listed]

At(p, pc) == op[p].pc = pc
Becomes(p, new) == op' = [op EXCEPT ![p] = new]
Goes(p, pc) == op' = [op EXCEPT ![p].pc = pc]
\* What a process does when it is through with a queue's cascade.
Through(p) == IF p = Maintenance THEN [Idle EXCEPT !.pc = "resume", !.rest = op[p].rest]
                                 ELSE Idle
\* What is left to a process that has the jobs in due still to promote: to a
\* handler, that has none, nothing.
Left(due) == IF due = {} THEN Idle ELSE [Idle EXCEPT !.pc = "due", !.due = due]

Present(j) == job[j] \in {"active", "done", "dlq"}
JobsOf(q) == {j \in Jobs : Home[j] = q /\ Present(j)}
Active(q) == {j \in Jobs : Home[j] = q /\ job[j] = "active"}
\* The row with its new status.
Deleting(row) == [row EXCEPT !.status = "deleting"]

\* AssertQueueWritable: a missing row is writable.
AssertQueueWritable(q) == tenant # "deleting" /\ queue[q].status # "deleting"

\* What a handler that adds a job to queue q relies on when it writes.
Writable(q) == tenant # "deleting" /\ queue[q].status = "active"
Overtakes(late) == overtaken' = (overtaken \/ late)
\* A cascade for this queue name, or for the tenant, is going on.
Cascading(q) == \E p \in Procs : \/ op[p].pc \in {"cancel", "jobs", "row"} /\ op[p].q = q
                                \/ \E e \in op[p].rest : e.q = q
TenantCascading == \E p \in Procs : op[p].pc \in {"list", "tenant", "rows"}

\* Save: every column by id, inserting the row if it is gone.  The name is
\* unique, so that the row of a queue created since makes it fail.
SaveRow(q, row) ==
  queue' = [queue EXCEPT ![q] = IF @.id \in {0, row.id} THEN row ELSE @]
Saved(q, row) == queue[q].id \in {0, row.id}

-----------------------------------------------------------------------------
Init ==
  /\ tenant = "active"
  /\ cached = {}
  /\ queue = [q \in Queues |-> NoRow]
  /\ ids = 0
  /\ job = [j \in Jobs |-> "unborn"]
  /\ op = [p \in Procs |-> Idle]
  /\ crashes = 0
  /\ forced = {}
  /\ overtaken = FALSE

-----------------------------------------------------------------------------
(* Handlers that write to a queue *)

\* Enqueue: the barrier.
Enqueue(p, j) ==
  /\ At(p, "idle") /\ job[j] = "unborn" /\ \A r \in Procs : op[r].job # j
  /\ AssertQueueWritable(Home[j])
  /\ Becomes(p, [Idle EXCEPT !.pc = "ensure", !.q = Home[j], !.job = j])
  /\ UNCHANGED <<tenant, cached, queue, ids, job, crashes, forced, overtaken>>

\* Upsert of a queue by its owner, which does not ask for the tenant.
UpsertQueue(p, q) ==
  /\ At(p, "idle")
  /\ Becomes(p, [Idle EXCEPT !.pc = "ensure", !.q = q])
  /\ UNCHANGED <<tenant, cached, queue, ids, job, crashes, forced, overtaken>>

\* A handler goes on once it has its queue.
Ensured(p) == IF op[p].job = None THEN Becomes(p, Idle) ELSE Goes(p, "insert")

\* queueService.Ensure looks the queue up.
EnsureFind(p) ==
  /\ At(p, "ensure")
  /\ CASE queue[op[p].q].status = "active"   -> Ensured(p)
       [] queue[op[p].q].status = "deleting" -> Becomes(p, Idle)
       [] queue[op[p].q].status = "none"     -> Goes(p, "create")
  /\ UNCHANGED <<tenant, cached, queue, ids, job, crashes, forced, overtaken>>

\* It creates the row, or takes the one that is there by now whatever its
\* status.
EnsureCreate(p) ==
  LET q == op[p].q
  IN /\ At(p, "create")
     /\ \/ /\ queue[q] = NoRow /\ ids < IdBound
           /\ ids' = ids + 1
           /\ queue' = [queue EXCEPT ![q] = [id |-> ids + 1, status |-> "active"]]
           /\ forced' = forced \ {q}
           /\ Overtakes(tenant = "deleting" \/ Cascading(q))
        \/ /\ queue[q] # NoRow
           /\ UNCHANGED <<ids, queue, forced, overtaken>>
     /\ Ensured(p)
     /\ UNCHANGED <<tenant, cached, job, crashes>>

\* The insert; a job that is claimable is then published.
Insert(p) ==
  /\ At(p, "insert")
  /\ job' = [job EXCEPT ![op[p].job] = "active"]
  /\ \/ Goes(p, "publish")
     \/ Becomes(p, Idle)
  /\ Overtakes(~Writable(op[p].q))
  /\ UNCHANGED <<tenant, cached, queue, ids, crashes, forced>>

\* publishToBroker saves the job as it was when it was published, whatever
\* has become of its row; if the broker has failed it saves nothing.
PublishSave(p) ==
  /\ At(p, "publish")
  /\ \/ /\ job' = [job EXCEPT ![op[p].job] = "active"]
        /\ Overtakes(job[op[p].job] # "active")
     \/ UNCHANGED <<job, overtaken>>
  /\ Becomes(p, Left(op[p].due))
  /\ UNCHANGED <<tenant, cached, queue, ids, crashes, forced>>

\* Ack, Nack and Cancel: barrier and row.
SettleRead(p, j) ==
  /\ At(p, "idle") /\ job[j] = "active"
  /\ AssertQueueWritable(Home[j])
  /\ Becomes(p, [Idle EXCEPT !.pc = "settle", !.q = Home[j], !.job = j])
  /\ UNCHANGED <<tenant, cached, queue, ids, job, crashes, forced, overtaken>>

\* Ack and Cancel save the row as done, a Nack as dlq or as waiting for its
\* next attempt.
SettleSave(p) ==
  /\ At(p, "settle")
  /\ \/ /\ \E s \in {"active", "done", "dlq"} : job' = [job EXCEPT ![op[p].job] = s]
        /\ Becomes(p, Idle)
     \/ /\ job' = [job EXCEPT ![op[p].job] = "active"]
        /\ Goes(p, "find")
  /\ Overtakes(job[op[p].job] # "active")
  /\ UNCHANGED <<tenant, cached, queue, ids, crashes, forced>>

\* If the next attempt is due at once, Nack looks the queue up and publishes
\* the job.
NackFind(p) ==
  /\ At(p, "find")
  /\ IF queue[op[p].q] = NoRow THEN Becomes(p, Idle) ELSE Goes(p, "publish")
  /\ UNCHANGED <<tenant, cached, queue, ids, job, crashes, forced, overtaken>>

\* Retry of a job that is out of attempts: barrier and row.
RetryRead(p, j) ==
  /\ At(p, "idle") /\ job[j] = "dlq"
  /\ AssertQueueWritable(Home[j])
  /\ Becomes(p, [Idle EXCEPT !.pc = "retry", !.q = Home[j], !.job = j])
  /\ UNCHANGED <<tenant, cached, queue, ids, job, crashes, forced, overtaken>>

\* The row is saved as waiting.
RetrySave(p) ==
  /\ At(p, "retry")
  /\ job' = [job EXCEPT ![op[p].job] = "active"]
  /\ Becomes(p, Idle)
  /\ Overtakes(job[op[p].job] # "dlq" \/ ~Writable(op[p].q))
  /\ UNCHANGED <<tenant, cached, queue, ids, crashes, forced>>

-----------------------------------------------------------------------------
(* The scheduler loop and the purge, which do not ask the guard *)

\* PublishDueScheduled lists the jobs that are due in active queues.
FindDueScheduled(p, due) ==
  /\ At(p, "idle") /\ due # {} /\ tenant = "active"
  /\ \A j \in due : job[j] = "active" /\ queue[Home[j]].status = "active"
  /\ Becomes(p, Left(due))
  /\ UNCHANGED <<tenant, cached, queue, ids, job, crashes, forced, overtaken>>

\* It comes to the next and looks its queue up: without one it goes on.
NextDue(p) ==
  /\ At(p, "due")
  /\ \E j \in op[p].due :
       Becomes(p, IF queue[Home[j]] = NoRow
                  THEN Left(op[p].due \ {j})
                  ELSE [Idle EXCEPT !.pc = "promote", !.q = Home[j], !.job = j,
                                    !.due = op[p].due \ {j}])
  /\ UNCHANGED <<tenant, cached, queue, ids, job, crashes, forced, overtaken>>

\* It saves the row listed as pending, inserting it again if it is gone; if
\* that fails it goes on with the others.
Promote(p) ==
  /\ At(p, "promote")
  /\ \/ /\ job' = [job EXCEPT ![op[p].job] = "active"]
        /\ Goes(p, "publish")
        /\ Overtakes(job[op[p].job] # "active")
     \/ Becomes(p, Left(op[p].due)) /\ UNCHANGED <<job, overtaken>>
  /\ UNCHANGED <<tenant, cached, queue, ids, crashes, forced>>

\* PurgeTerminalJobs deletes finished jobs that are past their retention.
PurgeTerminalJobs ==
  /\ \E old \in SUBSET {j \in Jobs : job[j] \in {"done", "dlq"}} :
       /\ old # {} /\ Cardinality(old) <= Batch
       /\ job' = [j \in Jobs |-> IF j \in old THEN "gone" ELSE job[j]]
  /\ UNCHANGED <<tenant, cached, queue, ids, op, crashes, forced, overtaken>>

-----------------------------------------------------------------------------
(* Deletion of a queue *)

\* RequestDeleteQueue: the row; a queue being deleted is left to its cascade.
DeleteQueue(p, q, force) ==
  /\ At(p, "idle") /\ queue[q].status = "active"
  /\ Becomes(p, [Idle EXCEPT !.pc = "count", !.q = q, !.row = queue[q], !.force = force])
  /\ UNCHANGED <<tenant, cached, queue, ids, job, crashes, forced, overtaken>>

\* Mutant: the request is not refused.
CountActive_Anyway(p) ==
  /\ At(p, "count")
  /\ Becomes(p, [op[p] EXCEPT !.pc = "mark", !.busy = Active(op[p].q) # {}])
  /\ UNCHANGED <<tenant, cached, queue, ids, job, crashes, forced, overtaken>>
\* CountActiveByQueue: active jobs make the request fail, unless with force.
CountActive(p) ==
  /\ At(p, "count")
  /\ IF Active(op[p].q) # {} /\ ~op[p].force
     THEN Becomes(p, Idle)
     ELSE Becomes(p, [op[p] EXCEPT !.pc = "mark", !.busy = Active(op[p].q) # {}])
  /\ UNCHANGED <<tenant, cached, queue, ids, job, crashes, forced, overtaken>>

\* The row is saved with its new status.
MarkQueue(p) ==
  LET q == op[p].q
  IN /\ At(p, "mark")
     /\ SaveRow(q, Deleting(op[p].row))
     /\ IF Saved(q, op[p].row)
        THEN Goes(p, IF op[p].force /\ op[p].busy THEN "cancel" ELSE "jobs")
        ELSE Becomes(p, Idle)
     /\ forced' = IF op[p].force /\ Saved(q, op[p].row) THEN forced \cup {q} ELSE forced
     /\ Overtakes(/\ Saved(q, op[p].row)
                  /\ queue[q] # op[p].row \/ (Active(q) # {} /\ ~op[p].busy))
     /\ UNCHANGED <<tenant, cached, ids, job, crashes>>

\* ForceCancelActiveByQueue.
ForceCancel(p) ==
  LET q == op[p].q
  IN /\ At(p, "cancel")
     /\ job' = [j \in Jobs |-> IF j \in Active(q) THEN "done" ELSE job[j]]
     /\ Goes(p, "jobs")
     /\ Overtakes(Active(q) # {} /\ queue[q].status # "deleting")
     /\ UNCHANGED <<tenant, cached, queue, ids, crashes, forced>>

\* One DELETE ... LIMIT on the jobs in set jobs.
DeleteBatch(jobs) ==
  \E gone \in SUBSET jobs :
    /\ gone # {}
    /\ Cardinality(gone) = IF Cardinality(jobs) < Batch THEN Cardinality(jobs) ELSE Batch
    /\ job' = [j \in Jobs |-> IF j \in gone THEN "gone" ELSE job[j]]

\* Mutant: one batch is taken for all.
DeleteJobs_Once(p) ==
  LET q == op[p].q
  IN /\ At(p, "jobs")
     /\ \/ /\ DeleteBatch(JobsOf(q))
           /\ Goes(p, "row")
           /\ Overtakes(queue[q].status # "deleting")
        \/ /\ JobsOf(q) = {}
           /\ Goes(p, "row")
           /\ UNCHANGED <<job, overtaken>>
     /\ UNCHANGED <<tenant, cached, queue, ids, crashes, forced>>
\* cascadeQueue: batches until nothing is left.
DeleteJobs(p) ==
  LET q == op[p].q
  IN /\ At(p, "jobs")
     /\ \/ /\ DeleteBatch(JobsOf(q))
           /\ UNCHANGED op
           /\ Overtakes(queue[q].status # "deleting")
        \/ /\ JobsOf(q) = {}
           /\ Goes(p, "row")
           /\ UNCHANGED <<job, overtaken>>
     /\ UNCHANGED <<tenant, cached, queue, ids, crashes, forced>>

\* It ends with the row of that name.  (The lists of queues in the rows of
\* workers, from which the name is taken before, are left out.)
DeleteRow(p) ==
  LET q == op[p].q
  IN /\ At(p, "row")
     /\ queue' = [queue EXCEPT ![q] = NoRow]
     /\ Becomes(p, Through(p))
     /\ Overtakes(queue[q].status = "active")
     /\ UNCHANGED <<tenant, cached, ids, job, crashes, forced>>

-----------------------------------------------------------------------------
(* Deletion of the tenant *)

\* DeleteTenant on instance i: Get, from the cache or the row, then the row.
DeleteTenant(p, i) ==
  /\ At(p, "idle") /\ tenant = "active"
  /\ cached' = cached \cup {i}
  /\ Becomes(p, [Idle EXCEPT !.pc = "close"])
  /\ UNCHANGED <<tenant, queue, ids, job, crashes, forced, overtaken>>

\* RequestDeleteTenant saves the row with its new status.
MarkTenant(p) ==
  /\ At(p, "close")
  /\ tenant' = "deleting"
  /\ Goes(p, "list")
  /\ Overtakes(tenant # "active")
  /\ UNCHANGED <<cached, queue, ids, job, crashes, forced>>

\* cascadeTenant lists the queues.
ListQueues(p) ==
  LET rows == {e \in Listed : e.row = queue[e.q] /\ e.row # NoRow}
  IN /\ At(p, "list")
     /\ Becomes(p, [Idle EXCEPT !.pc = "tenant", !.rest = rows,
                                !.todo = {e \in rows : e.row.status # "deleting"}])
     /\ UNCHANGED <<tenant, cached, queue, ids, job, crashes, forced, overtaken>>

\* Each is marked by saving the row listed; an error is ignored.
TenantMarks(p) ==
  /\ At(p, "tenant")
  /\ \E e \in op[p].todo :
       /\ SaveRow(e.q, Deleting(e.row))
       /\ op' = [op EXCEPT ![p].todo = @ \ {e}]
       /\ Overtakes(Saved(e.q, e.row) /\ (queue[e.q] # e.row \/ tenant # "deleting"))
  /\ UNCHANGED <<tenant, cached, ids, job, crashes, forced>>

\* DeleteByProject, until nothing is left.
\* Mutant: the jobs are left to the cascades of the queues.
DeleteAllJobs_Left(p) ==
  /\ At(p, "tenant") /\ op[p].todo = {}
  /\ Goes(p, "rows")
  /\ UNCHANGED <<tenant, cached, queue, ids, job, crashes, forced, overtaken>>
DeleteAllJobs(p) ==
  LET all == {j \in Jobs : Present(j)}
  IN /\ At(p, "tenant") /\ op[p].todo = {}
     /\ \/ /\ DeleteBatch(all)
           /\ UNCHANGED op
           /\ Overtakes(tenant # "deleting")
        \/ /\ all = {}
           /\ Goes(p, "rows")
           /\ UNCHANGED <<job, overtaken>>
     /\ UNCHANGED <<tenant, cached, queue, ids, crashes, forced>>

\* The queues listed are deleted by name.
TenantDeletesRow(p) ==
  /\ At(p, "rows")
  /\ \E e \in op[p].rest :
       /\ queue' = [queue EXCEPT ![e.q] = NoRow]
       /\ op' = [op EXCEPT ![p].rest = @ \ {e}]
       /\ Overtakes(queue[e.q].status = "active")
  /\ UNCHANGED <<tenant, cached, ids, job, crashes, forced>>

\* At last the tenant's own row.
DropTenant(p) ==
  /\ At(p, "rows") /\ op[p].rest = {}
  /\ tenant' = "none"
  /\ Becomes(p, Idle)
  /\ Overtakes(tenant = "active")
  /\ UNCHANGED <<cached, queue, ids, job, crashes, forced>>

-----------------------------------------------------------------------------
(* The maintenance task *)

\* ResumePendingCascades lists the queues being deleted.
\* Mutant: a queue is resumed only as long as it has jobs.
ListDeleting_WithJobs ==
  /\ At(Maintenance, "idle")
  /\ Becomes(Maintenance,
       [Idle EXCEPT !.pc = "resume",
                    !.rest = {e \in Listed : /\ e.row = queue[e.q] /\ JobsOf(e.q) # {}
                                             /\ e.row.status = "deleting"}])
  /\ UNCHANGED <<tenant, cached, queue, ids, job, crashes, forced, overtaken>>
ListDeleting ==
  /\ At(Maintenance, "idle")
  /\ Becomes(Maintenance,
       [Idle EXCEPT !.pc = "resume",
                    !.rest = {e \in Listed : e.row = queue[e.q] /\ e.row.status = "deleting"}])
  /\ UNCHANGED <<tenant, cached, queue, ids, job, crashes, forced, overtaken>>

\* It runs their cascades one after the other, without looking again.
ResumeQueue ==
  /\ At(Maintenance, "resume")
  /\ \E e \in op[Maintenance].rest :
       Becomes(Maintenance, [op[Maintenance] EXCEPT
                               !.pc = "jobs", !.q = e.q, !.rest = @ \ {e}])
  /\ UNCHANGED <<tenant, cached, queue, ids, job, crashes, forced, overtaken>>

\* Then the tenant's.
ResumeTenant ==
  /\ At(Maintenance, "resume") /\ op[Maintenance].rest = {}
  /\ Becomes(Maintenance, IF tenant = "deleting" THEN [Idle EXCEPT !.pc = "list"] ELSE Idle)
  /\ UNCHANGED <<tenant, cached, queue, ids, job, crashes, forced, overtaken>>

-----------------------------------------------------------------------------
(* Tenants, and the death of processes *)

\* Ensure: an upsert that makes the row active, unless the tenant is cached.
EnsureTenant(i) ==
  /\ i \notin cached
  /\ cached' = cached \cup {i}
  /\ tenant' = "active"
  /\ Overtakes(tenant = "deleting" \/ TenantCascading)
  /\ UNCHANGED <<queue, ids, job, op, crashes, forced>>

\* Get caches the row it finds, and nothing takes it out again.
GetTenant(i) ==
  /\ i \notin cached /\ tenant # "none"
  /\ cached' = cached \cup {i}
  /\ UNCHANGED <<tenant, queue, ids, job, op, crashes, forced, overtaken>>

\* A process dies, its cache with it, or gives up on an error.
Crash(p) ==
  /\ crashes < CrashBound /\ ~At(p, "idle")
  /\ crashes' = crashes + 1
  /\ Becomes(p, Idle)
  /\ \E lost \in SUBSET cached : cached' = cached \ lost
  /\ UNCHANGED <<tenant, queue, ids, job, forced, overtaken>>

CascadeStep(p) ==
  \/ DeleteJobs(p) \/ DeleteRow(p)
  \/ ListQueues(p) \/ TenantMarks(p) \/ DeleteAllJobs(p)
  \/ TenantDeletesRow(p) \/ DropTenant(p)

Maintain == CascadeStep(Maintenance) \/ ListDeleting \/ ResumeQueue \/ ResumeTenant

\* The handler of DELETE /queues/:queueName up to its cascade.
RequestDeleteQueue(p) ==
  \/ \E q \in Queues, force \in BOOLEAN : DeleteQueue(p, q, force)
  \/ CountActive(p) \/ MarkQueue(p) \/ ForceCancel(p)

Handle(p) ==
  \/ \E j \in Jobs : Enqueue(p, j) \/ SettleRead(p, j) \/ RetryRead(p, j)
  \/ \E q \in Queues : UpsertQueue(p, q)
  \/ EnsureFind(p) \/ EnsureCreate(p) \/ Insert(p) \/ PublishSave(p)
  \/ SettleSave(p) \/ NackFind(p) \/ RetrySave(p)
  \/ RequestDeleteQueue(p)
  \/ \E i \in Instances : DeleteTenant(p, i)
  \/ MarkTenant(p)

PublishDueScheduled(p) ==
  \/ \E due \in SUBSET Jobs : FindDueScheduled(p, due)
  \/ NextDue(p) \/ Promote(p) \/ PublishSave(p)

Next ==
  \/ \E p \in Requests : Handle(p) \/ CascadeStep(p)
  \/ \E p \in Schedulers : PublishDueScheduled(p)
  \/ PurgeTerminalJobs
  \/ Maintain
  \/ \E i \in Instances : EnsureTenant(i) \/ GetTenant(i)
  \/ \E p \in Procs : Crash(p)

Spec == Init /\ [][Next]_vars

\* The task runs every minute and goes on; requests need not.
FairSpec == Spec /\ WF_vars(Maintain)

-----------------------------------------------------------------------------
(* Properties *)

\* Type invariant.
TypeOK ==
  /\ tenant \in {"none", "active", "deleting"}
  /\ cached \subseteq Instances
  /\ queue \in [Queues -> QueueRow]
  /\ ids \in 0..IdBound
  /\ \A q \in Queues : queue[q].id <= ids
  /\ job \in [Jobs -> JobStatus]
  /\ op \in [Procs -> Op]
  /\ crashes \in 0..CrashBound
  /\ forced \subseteq Queues
  /\ overtaken \in BOOLEAN

\* Every job has its queue: whatever dies between the statements of a cascade
\* and whichever cascades run at once, the row of a queue goes only after its
\* jobs.  (Not so once a step has written past what it had checked: a handler
\* asks the guard's barrier at its start and not again, the scheduler loop
\* saves the rows it has listed without asking it, and a row that is gone by
\* then is inserted once more.)
NoOrphans == ~overtaken => \A j \in Jobs : Present(j) => queue[Home[j]] # NoRow

\* A job that is not finished is deleted only for its tenant or by force:
\* "queue has active jobs; use force=true to delete".
OnlyByForce ==
  [][\A j \in Jobs :
       job[j] = "active" /\ job'[j] = "gone" =>
         tenant = "deleting" \/ Home[j] \in forced \/ overtaken']_vars

\* A tenant's row goes last: nothing that belongs to it is left.
TenantGoesLast ==
  [][tenant = "deleting" /\ tenant' = "none" =>
       \/ overtaken'
       \/ \A q \in Queues : queue[q] = NoRow /\ JobsOf(q) = {}]_vars

\* What is being deleted does not stay so for ever, whoever dies on the way
\* and whatever overtakes whom: ResumePendingCascades.
DeletionEnds ==
  /\ \A q \in Queues : queue[q].status = "deleting" ~> queue[q].status # "deleting"
  /\ tenant = "deleting" ~> tenant # "deleting"
=============================================================================
