------------------------------ MODULE JobQueue ------------------------------
(***************************************************************************)
(* The job table of the queue subsystem and every statement and handler    *)
(* that writes it.                                                         *)
(*                                                                         *)
(* PostgreSQL executes one statement atomically; the handlers of           *)
(* router/service.go and job/service.go do not run in a transaction.  A    *)
(* handler that reads a row, decides, and writes the row back is therefore *)
(* two steps here, and what it writes back is the copy it read: Update is  *)
(* gorm's Save, which writes every column of the row, and inserts the row  *)
(* again if it was deleted in between.  ClaimPending, ReclaimExpired,      *)
(* ExtendLease and the purge are single statements and single steps.       *)
(*                                                                         *)
(* A job's row is Unborn before its id is generated and Gone after it has  *)
(* been deleted.  Instants are kept only as far as the code compares them  *)
(* with the clock: schedule_at is none, future or due, the lease           *)
(* (started_at against the visibility timeout) none, fresh or expired.     *)
(***************************************************************************)
EXTENDS Naturals, FiniteSets

CONSTANTS
  Jobs,          \* job ids that will be generated
  Workers,       \* worker ids that requests carry
  Registered,    \* the workers that have a row in queue_workers
  Procs,         \* request goroutines: one request each at a time
  Schedulers,    \* scheduler loops, one per server instance
  PlatformJobs,  \* jobs of project 0, which has no row in tenants
  KeyOf,         \* the idempotency key each job is enqueued with, or NoKey
  NoKey,
  NoWorker,      \* the empty worker_id
  MaxAttempts,   \* jobs.max_attempts, copied from the queue
  BatchSize,     \* batch_size of a pull
  ClaimBound,    \* bound on the claims of one job (keeps the model finite)
  Unborn, Gone

VARIABLES
  row,     \* the jobs table: row[j]
  op,      \* what each goroutine is in the middle of
  due,     \* the rows PublishDueScheduled has read and not yet come to
  claims,  \* history: how often ClaimPending returned the job
  held,    \* history: the workers to whom the job was handed out and who have
           \* neither answered nor let their lease run out
  overwritten  \* history: the jobs whose row was written over by a handler
               \* that had read it before its last change

vars == <<row, op, due, claims, held, overwritten>>

Active == {"pending", "scheduled", "running"}
Terminal == {"completed", "cancelled", "failed", "dlq"}
Row == [status: Active \cup Terminal, worker: Workers \cup {NoWorker},
        attempt: Nat, sched: {"none", "future", "due"},
        lease: {"none", "fresh", "expired"}, terminal: BOOLEAN]

Idle == [pc |-> "idle"]
Busy == [pc: {"create", "publish", "ack", "nack", "retried", "cancel", "retry"},
         job: Jobs, by: Workers \cup {NoWorker}, copy: Row]
Loops == Procs \cup Schedulers

ASSUME ConstantsAssumption ==
  /\ Registered \subseteq Workers
  /\ PlatformJobs \subseteq Jobs
  /\ MaxAttempts \in Nat \ {0}
  /\ BatchSize \in Nat \ {0}
  /\ ClaimBound \in Nat
  /\ NoWorker \notin Workers
  /\ {Unborn, Gone} \cap Row = {}
  /\ Unborn # Gone

-----------------------------------------------------------------------------
(* The job entity: domain/queue/job/model.go *)

NewJob(sched) ==
  [status |-> IF sched = "future" THEN "scheduled" ELSE "pending",
   worker |-> NoWorker, attempt |-> 0, sched |-> sched, lease |-> "none",
   terminal |-> FALSE]

IsTerminal(r) == r.status \in Terminal
\* Mutant: one attempt too few.
CanRetry_OneShort(r) == r.attempt + 1 < MaxAttempts
CanRetry(r) == r.attempt < MaxAttempts
IsClaimable(r) == \/ r.status = "pending" /\ r.sched # "future"
                  \/ r.status = "scheduled" /\ r.sched = "due"

MarkCompleted(r) == [r EXCEPT !.status = "completed", !.terminal = TRUE]
MarkDLQ(r) == [r EXCEPT !.status = "dlq", !.terminal = TRUE]
MarkCancelled(r) == [r EXCEPT !.status = "cancelled", !.terminal = TRUE]
\* Mutant: the worker is not cleared.
MarkRetry_KeepsWorker(r) == [r EXCEPT !.status = "pending", !.sched = "future",
                              !.lease = "none", !.terminal = FALSE]
MarkRetry(r) == [r EXCEPT !.status = "pending", !.sched = "future",
                          !.lease = "none", !.worker = NoWorker,
                          !.terminal = FALSE]
MarkPendingForSchedule(r) == [r EXCEPT !.status = "pending", !.terminal = FALSE]
MarkRetryFromControl(r) == [r EXCEPT !.status = "pending", !.sched = "none",
                                     !.lease = "none", !.worker = NoWorker,
                                     !.terminal = FALSE]

-----------------------------------------------------------------------------
(* The table *)

InDB(j) == row[j] \notin {Unborn, Gone}
Has(j, statuses) == InDB(j) /\ row[j].status \in statuses

\* The unique index on (project_id, queue_name, idempotency_key).
KeyTaken(j) == /\ KeyOf[j] # NoKey
               /\ \E i \in Jobs \ {j} : InDB(i) /\ KeyOf[i] = KeyOf[j]

\* The jobs some goroutine holds a copy of: those whose row a handler may
\* have locked, so that FOR UPDATE SKIP LOCKED may leave them out.
Copied == {j \in Jobs : \/ \E p \in Loops : op[p] # Idle /\ op[p].job = j
                        \/ \E s \in Schedulers : \E d \in due[s] : d.job = j}

\* The rows c and r are one version of a job: what ExtendLease and the clock
\* do to the lease while it runs is no change to it.
SameRow(c, r) ==
  /\ c.status = r.status /\ c.worker = r.worker /\ c.attempt = r.attempt
  /\ c.sched = r.sched /\ c.terminal = r.terminal
  /\ r.status # "running" => c.lease = r.lease

\* repository.Update: every column, and an insert when the row is gone.
\* The unique index can refuse only the insert.  The code compares nothing:
\* whether the row is still the copy o.copy is only recorded.
Save(o, r) ==
  /\ InDB(o.job) \/ ~KeyTaken(o.job)
  /\ row' = [row EXCEPT ![o.job] = r]
  /\ overwritten' = IF InDB(o.job) /\ SameRow(o.copy, row[o.job])
                    THEN overwritten ELSE overwritten \cup {o.job}

Step(p, newpc, r) ==
  op' = [op EXCEPT ![p] = [pc |-> newpc, job |-> op[p].job,
                           by |-> op[p].by, copy |-> r]]
Finish(p) == op' = [op EXCEPT ![p] = Idle]

\* A handler admitted by its checks: it holds its own copy of the row.
Read(p, newpc, j, w) ==
  /\ p \in Procs
  /\ op[p] = Idle
  /\ InDB(j)
  /\ op' = [op EXCEPT ![p] = [pc |-> newpc, job |-> j, by |-> w,
                              copy |-> row[j]]]
  /\ UNCHANGED <<row, due, claims, held, overwritten>>

-----------------------------------------------------------------------------
Init ==
  /\ row = [j \in Jobs |-> Unborn]
  /\ op = [p \in Loops |-> Idle]
  /\ due = [s \in Schedulers |-> {}]
  /\ claims = [j \in Jobs |-> 0]
  /\ held = [j \in Jobs |-> {}]
  /\ overwritten = {}

\* Enqueue up to the insert: no job has the key yet, an id is generated.
EnqueueBegin(p, j) ==
  /\ p \in Procs
  /\ op[p] = Idle
  /\ row[j] = Unborn
  /\ j \notin Copied
  /\ ~KeyTaken(j)
  /\ \E sched \in {"none", "future", "due"} :
       op' = [op EXCEPT ![p] = [pc |-> "create", job |-> j, by |-> NoWorker,
                                copy |-> NewJob(sched)]]
  /\ UNCHANGED <<row, due, claims, held, overwritten>>

\* jobRepo.Create; a claimable job goes on to the broker.
EnqueueCreate(p) ==
  /\ op[p].pc = "create"
  /\ ~KeyTaken(op[p].job)
  /\ row' = [row EXCEPT ![op[p].job] = op[p].copy]
  /\ IF IsClaimable(op[p].copy) THEN Step(p, "publish", op[p].copy)
                                ELSE Finish(p)
  /\ UNCHANGED <<due, claims, held, overwritten>>

\* publishToBroker: once the broker has the message, the whole copy is saved
\* to record its sequence number.
PublishSave(p) ==
  /\ op[p].pc = "publish"
  /\ Save(op[p], op[p].copy)
  /\ Finish(p)
  /\ UNCHANGED <<due, claims, held>>

\* The broker or the database refuses (a second job with the same key is
\* refused by the unique index): the handler returns the error.
Fail(p) ==
  /\ op[p].pc \notin {"idle", "retried"}
  /\ Finish(p)
  /\ UNCHANGED <<row, due, claims, held, overwritten>>

-----------------------------------------------------------------------------
(* Workers *)

\* Mutant: the lease of every running job is extended.
RunningOf_Anyone(w) == {j \in Jobs \ PlatformJobs : Has(j, {"running"})}
RunningOf(w) ==
  {j \in Jobs \ PlatformJobs : Has(j, {"running"}) /\ row[j].worker = w}

\* ExtendLease: started_at = now for every row the worker runs.  No worker
\* is registered in project 0.
Heartbeat(w) ==
  /\ w \in Registered
  /\ row' = [j \in Jobs |-> IF j \in RunningOf(w)
                            THEN [row[j] EXCEPT !.lease = "fresh"] ELSE row[j]]
  /\ held' = [j \in Jobs |-> IF j \in RunningOf(w) THEN held[j] \cup {w}
                                                   ELSE held[j]]
  /\ UNCHANGED <<op, due, claims, overwritten>>

Claimable(Q, skip) ==
  {j \in Q \ skip : Has(j, {"pending", "scheduled"}) /\ row[j].sched # "future"}

\* ClaimPending for worker w on one of the two projects' queues: the first
\* BatchSize rows, those without a schedule_at before the others.
FirstClaimable(S, Q, skip) ==
  /\ S # {}
  /\ S \subseteq Claimable(Q, skip)
  /\ Cardinality(S) <= BatchSize
  /\ S = Claimable(Q, skip) \/ Cardinality(S) = BatchSize
  /\ \A j \in S, i \in Claimable(Q, skip) \ S :
       row[j].sched = "none" \/ row[i].sched = "due"

\* The rows S go to worker w; of the rows touched the lease starts again.
HandOut(S, touched, w) ==
  /\ row' = [j \in Jobs |->
               CASE j \in S ->
                      [row[j] EXCEPT !.status = "running", !.worker = w,
                         !.attempt = row[j].attempt + 1, !.lease = "fresh"]
                 [] j \in touched \ S -> [row[j] EXCEPT !.lease = "fresh"]
                 [] OTHER -> row[j]]
  /\ claims' = [j \in Jobs |-> IF j \in S THEN claims[j] + 1 ELSE claims[j]]
  /\ held' = [j \in Jobs |-> IF j \in S \cup touched THEN held[j] \cup {w}
                                                     ELSE held[j]]

\* Dequeue: the claim, and the heartbeat that touchRegisteredWorker makes of
\* it at once, which extends every lease of a registered worker.
Dequeue(Q, w) ==
  \E skip \in SUBSET Copied, S \in SUBSET Jobs :
    /\ FirstClaimable(S, Q, skip)
    /\ \A j \in S : claims[j] < ClaimBound
    /\ HandOut(S, IF w \in Registered /\ S \cap PlatformJobs = {}
                  THEN RunningOf(w) ELSE {}, w)
    /\ UNCHANGED <<op, due, overwritten>>
\* A worker pulls from its project's queue; the runtime of a server, whose
\* worker id is its instance, from those of project 0.
Pull(w) == \E Q \in {PlatformJobs, Jobs \ PlatformJobs} : Dequeue(Q, w)

\* Ack and Nack are admitted for a running row that names the worker or none.
OwnedBy(j, w) == Has(j, {"running"}) /\ row[j].worker \in {w, NoWorker}
Release(p) == held' = [held EXCEPT ![op[p].job] = @ \ {op[p].by}]

AckRead(p, j, w) == OwnedBy(j, w) /\ Read(p, "ack", j, w)
AckSave(p) ==
  /\ op[p].pc = "ack"
  /\ Save(op[p], MarkCompleted(op[p].copy))
  /\ Release(p)
  /\ Finish(p)
  /\ UNCHANGED <<due, claims>>

\* A failed attempt goes back with a delay while attempts remain, and to the
\* dead-letter state when they are used up.
NackRead(p, j, w) == OwnedBy(j, w) /\ Read(p, "nack", j, w)
NackRetry(p) ==
  /\ op[p].pc = "nack"
  /\ CanRetry(op[p].copy)
  /\ Save(op[p], MarkRetry(op[p].copy))
  /\ Release(p)
  /\ Step(p, "retried", MarkRetry(op[p].copy))
  /\ UNCHANGED <<due, claims>>
NackDLQ(p) ==
  /\ op[p].pc = "nack"
  /\ ~CanRetry(op[p].copy)
  /\ Save(op[p], MarkDLQ(op[p].copy))
  /\ Release(p)
  /\ Finish(p)
  /\ UNCHANGED <<due, claims>>
\* After the save Nack asks whether the delay is over already: if so the job
\* is published, and saved, once more.
NackFinish(p) ==
  /\ op[p].pc = "retried"
  /\ IF IsClaimable(op[p].copy) THEN Step(p, "publish", op[p].copy)
                                ELSE Finish(p)
  /\ UNCHANGED <<row, due, claims, held, overwritten>>

-----------------------------------------------------------------------------
(* Control requests *)

CancelRead(p, j) ==
  /\ Has(j, (Active \cup Terminal) \ {"completed", "cancelled", "dlq"})
  /\ Read(p, "cancel", j, NoWorker)
CancelSave(p) ==
  /\ op[p].pc = "cancel"
  /\ Save(op[p], MarkCancelled(op[p].copy))
  /\ Finish(p)
  /\ UNCHANGED <<due, claims, held>>

\* Mutant: every finished job can be retried.
RetryRead_AnyTerminal(p, j) == Has(j, Terminal) /\ Read(p, "retry", j, NoWorker)
RetryRead(p, j) == Has(j, {"failed", "dlq"}) /\ Read(p, "retry", j, NoWorker)
RetrySave(p) ==
  /\ op[p].pc = "retry"
  /\ Save(op[p], MarkRetryFromControl(op[p].copy))
  /\ Finish(p)
  /\ UNCHANGED <<due, claims, held>>

-----------------------------------------------------------------------------
(* The scheduler loop of every instance, and the leader's part of it *)

\* Neither query sees project 0: both join the tenants table.
\* Mutant: the query does not compare schedule_at with the clock.
Due_Early == {j \in Jobs \ PlatformJobs : Has(j, {"scheduled"})}
\* Mutant: the query looks for pending rows.
Due_Pending == {j \in Jobs \ PlatformJobs :
                  Has(j, {"pending"}) /\ row[j].sched = "due"}
Due == {j \in Jobs \ PlatformJobs :
          Has(j, {"scheduled"}) /\ row[j].sched = "due"}

FindDueScheduled(s) ==
  /\ op[s] = Idle
  /\ due[s] = {}
  /\ Due # {}
  /\ due' = [due EXCEPT ![s] = {[job |-> j, copy |-> row[j]] : j \in Due}]
  /\ UNCHANGED <<row, op, claims, held, overwritten>>

Promote(s) ==
  /\ op[s] = Idle
  /\ \E d \in due[s] :
       /\ due' = [due EXCEPT ![s] = @ \ {d}]
       /\ Save(d, MarkPendingForSchedule(d.copy))
       /\ op' = [op EXCEPT ![s] = [pc |-> "publish", job |-> d.job,
                                   by |-> NoWorker,
                                   copy |-> MarkPendingForSchedule(d.copy)]]
  /\ UNCHANGED <<claims, held>>

\* The queue is not found or the save is refused: on to the next job.
PromoteSkips(s) ==
  /\ op[s] = Idle
  /\ \E d \in due[s] : due' = [due EXCEPT ![s] = @ \ {d}]
  /\ UNCHANGED <<row, op, claims, held, overwritten>>

\* Mutant: a job without remaining attempts is left to its worker.
Expired_Retryable == {j \in Jobs \ PlatformJobs : /\ Has(j, {"running"})
                        /\ row[j].lease = "expired" /\ CanRetry(row[j])}
Expired == {j \in Jobs \ PlatformJobs :
              Has(j, {"running"}) /\ row[j].lease = "expired"}

ReclaimExpired ==
  \E skip \in SUBSET Copied :
    LET S == Expired \ skip IN
    /\ S # {}
    /\ row' = [j \in Jobs |->
                 IF j \in S THEN [row[j] EXCEPT !.status = "pending",
                                    !.worker = NoWorker, !.lease = "none"]
                            ELSE row[j]]
    /\ UNCHANGED <<op, due, claims, held, overwritten>>

\* PurgeTerminalBefore, once the retention of a finished job is over.
Purge(j) ==
  /\ Has(j, Terminal)
  /\ row[j].terminal
  /\ row' = [row EXCEPT ![j] = Gone]
  /\ UNCHANGED <<op, due, claims, held, overwritten>>

-----------------------------------------------------------------------------
(* Time, and the death of a server process *)

Arrive(r) == IF r.sched = "future" THEN [r EXCEPT !.sched = "due"] ELSE r

\* The schedule_at of job j passes, in the row and in every copy of it.
ScheduleArrives(j) ==
  /\ \/ InDB(j) /\ row[j].sched = "future"
     \/ \E p \in Loops : op[p] # Idle /\ op[p].job = j
                           /\ op[p].copy.sched = "future"
  /\ row' = IF InDB(j) THEN [row EXCEPT ![j] = Arrive(@)] ELSE row
  /\ op' = [p \in Loops |->
              IF op[p] # Idle /\ op[p].job = j
              THEN [op[p] EXCEPT !.copy = Arrive(@)] ELSE op[p]]
  /\ UNCHANGED <<due, claims, held, overwritten>>

LeaseExpires(j) ==
  /\ Has(j, {"running"})
  /\ row[j].lease = "fresh"
  /\ row' = [row EXCEPT ![j].lease = "expired"]
  /\ held' = [held EXCEPT ![j] = @ \ {row[j].worker}]
  /\ UNCHANGED <<op, due, claims, overwritten>>

Crash(p) ==
  /\ op[p] # Idle \/ (p \in Schedulers /\ due[p] # {})
  /\ Finish(p)
  /\ due' = [s \in Schedulers |-> IF s = p THEN {} ELSE due[s]]
  /\ UNCHANGED <<row, claims, held, overwritten>>

-----------------------------------------------------------------------------
(* What the routes of the API and the loops of a server do, step by step *)

Enqueue(p) == EnqueueCreate(p) \/ \E j \in Jobs : EnqueueBegin(p, j)
Ack(p) == AckSave(p) \/ \E j \in Jobs, w \in Workers : AckRead(p, j, w)
Nack(p) ==
  \/ NackRetry(p) \/ NackDLQ(p) \/ NackFinish(p)
  \/ \E j \in Jobs, w \in Workers : NackRead(p, j, w)
Cancel(p) == CancelSave(p) \/ \E j \in Jobs : CancelRead(p, j)
Retry(p) == RetrySave(p) \/ \E j \in Jobs : RetryRead(p, j)

SchedulerLoop ==
  \/ \E s \in Schedulers : FindDueScheduled(s) \/ Promote(s) \/ PromoteSkips(s)
  \/ ReclaimExpired

Next ==
  \/ \E p \in Procs : Enqueue(p) \/ Ack(p) \/ Nack(p) \/ Cancel(p) \/ Retry(p)
  \/ \E p \in Loops : PublishSave(p) \/ Fail(p) \/ Crash(p)
  \/ \E w \in Workers : Pull(w) \/ Heartbeat(w)
  \/ SchedulerLoop
  \/ \E j \in Jobs : Purge(j) \/ ScheduleArrives(j) \/ LeaseExpires(j)

Spec == Init /\ [][Next]_vars

Continue(p) ==
  \/ EnqueueCreate(p) \/ PublishSave(p)
  \/ AckSave(p)
  \/ NackRetry(p) \/ NackDLQ(p) \/ NackFinish(p)
  \/ CancelSave(p) \/ RetrySave(p)

\* The goroutines of a running server go on; the scheduler loops tick, and
\* the leader's reclaims what has expired.  Clients and workers owe nothing.
Fairness ==
  /\ \A p \in Loops : WF_vars(Continue(p) \/ Fail(p))
  /\ \A s \in Schedulers : /\ WF_vars(FindDueScheduled(s))
                            /\ WF_vars(Promote(s) \/ PromoteSkips(s))
                            /\ SF_vars(Promote(s))
  /\ \A j \in Jobs : SF_vars(ReclaimExpired /\ row'[j] # row[j])
FairSpec == Spec /\ Fairness

-----------------------------------------------------------------------------
(* Properties *)

\* Every row, every in-flight copy and every row waiting to be promoted has
\* the columns of a job; the history counts claims and holders.
TypeOK ==
  /\ row \in [Jobs -> Row \cup {Unborn, Gone}]
  /\ op \in [Loops -> Busy \cup {Idle}]
  /\ due \in [Schedulers -> SUBSET [job: Jobs, copy: Row]]
  /\ claims \in [Jobs -> Nat]
  /\ held \in [Jobs -> SUBSET Workers]
  /\ overwritten \subseteq Jobs

\* ValidateTerminalInvariant: terminal_at is set exactly in a terminal state.
\* The purge finds nothing else, and a stale terminal_at on a live row would
\* make it delete work.
StampedWhenTerminal(r) == r.terminal <=> IsTerminal(r)
\* A running row names its worker and has a started_at, a finished one names
\* the worker that finished it, a waiting row neither: otherwise no ack is
\* accepted, anyone's is (the legacy rule of assertJobWorker), or neither
\* ExtendLease nor ReclaimExpired ever touches the row again.
NamesItsWorker(r) ==
  /\ r.status = "running" => r.worker # NoWorker /\ r.lease # "none"
  /\ r.status \in {"completed", "dlq"} => r.worker # NoWorker
  /\ r.status \in {"pending", "scheduled"} => r.worker = NoWorker /\ r.lease = "none"
\* A scheduled row has a schedule_at, so that FindDueScheduled can find it.
ScheduledHasInstant(r) == r.status = "scheduled" => r.sched # "none"

Consistent(r) ==
  StampedWhenTerminal(r) /\ NamesItsWorker(r) /\ ScheduledHasInstant(r)

\* The row invariant survives every interleaving of the read-modify-write
\* handlers, whatever rows they overwrite.
RowsConsistent == \A j \in Jobs : InDB(j) => Consistent(row[j])

\* A job claimed n times reaches the dead-letter state only with its attempts
\* used up, and an attempt is never counted that no worker was given: stale
\* writes can lose attempts but never invent them.
Earned(r, n) == r.attempt <= n /\ (r.status = "dlq" => r.attempt >= MaxAttempts)
AttemptsEarned == \A j \in Jobs : InDB(j) => Earned(row[j], claims[j])

\* ClaimPending "atomically claims": a job is handed to one worker at a time.
SingleHolder == \A j \in Jobs : Cardinality(held[j]) <= 1

\* While the lease runs the row names the worker that has the job, and a job
\* whose lease is over, or that waits, is with nobody: claims, renewals,
\* answers, cancels, reclaims and retries overlap in every order, and only a
\* handler that writes an outdated copy over the row of this very job can make
\* it lie.
RowNamesHolder ==
  \A j \in Jobs \ overwritten : InDB(j) =>
    /\ row[j].status = "running" =>
         held[j] = IF row[j].lease = "fresh" THEN {row[j].worker} ELSE {}
    /\ row[j].status \in {"pending", "scheduled"} => held[j] = {}

\* The delay of a nack or of a delayed enqueue is cut short by nothing but
\* such a write: until its instant arrives the job is neither promoted nor
\* handed out.
DelayKept ==
  [][\A j \in Jobs :
       (j \notin overwritten' /\ InDB(j) /\ row[j].sched = "future" /\ row'[j] # Gone) =>
         \/ row'[j] = Arrive(row[j])
         \/ row'[j].sched = "future"
              /\ row'[j].status \in {row[j].status, "cancelled"}]_vars

\* The detailed queue implements the abstract one: a job waits, is with one
\* worker, or is done for good, until its row is overwritten.
Place(j) ==
  IF j \in overwritten THEN "overwritten"
  ELSE CASE row[j] = Unborn -> "unborn"
         [] row[j] = Gone -> "gone"
         [] Has(j, {"pending", "scheduled"}) -> "waiting"
         [] Has(j, {"running"}) -> "held"
         [] OTHER -> row[j].status
Holder(j) == IF j \notin overwritten /\ Has(j, {"running"}) THEN row[j].worker
                                                            ELSE NoWorker
Grants(j) == IF j \in overwritten THEN 0 ELSE claims[j]
Lease == INSTANCE JobLease WITH place <- [j \in Jobs |-> Place(j)],
                                holder <- [j \in Jobs |-> Holder(j)],
                                grants <- [j \in Jobs |-> Grants(j)]
ImplementsLease == Lease!Spec

\* "ReclaimExpired returns running jobs whose visibility lease expired to
\* pending": those of the tenants' projects, which its query joins.
Overdue(j) == Has(j, {"running"}) /\ row[j].lease = "expired"
ExpiredIsReclaimed == \A j \in Jobs \ PlatformJobs : Overdue(j) ~> ~Overdue(j)

\* A tenant's scheduled job whose instant has come does not stay scheduled.
Late(j) == Has(j, {"scheduled"}) /\ row[j].sched = "due"
DueIsPromoted == \A j \in Jobs \ PlatformJobs : Late(j) ~> ~Late(j)
=============================================================================
