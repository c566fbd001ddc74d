------------------------ MODULE QueueLifecycleProofs ------------------------
(***************************************************************************)
(* The row of a queue goes only after its jobs, for any number of queues,  *)
(* jobs, requests, instances and deaths, until a step has written over     *)
(* what was no longer as its process had checked; no job that is at work   *)
(* goes but by force or with its tenant, and the tenant's row goes last.   *)
(***************************************************************************)
EXTENDS QueueLifecycle, TLAPS

\* What a process has in hand is what its place in the code needs.
Fit(o) ==
  /\ o.row.id <= ids
  /\ o.pc \in {"count", "mark"} => o.row # NoRow
  /\ \A e \in o.todo : e \in o.rest /\ e.row # NoRow
  /\ \A e \in o.rest : e.row.id <= ids
  /\ o.pc # "tenant" => o.todo = {}
  /\ o.job \in Jobs => o.q = Home[o.job]
  /\ o.pc = "resume" => o.job = None
  /\ o.pc \in {"insert", "find", "publish", "settle", "retry", "promote"} => o.job \in Jobs
  /\ o.pc \in {"ensure", "create", "count", "mark", "cancel", "jobs", "row"} => o.q \in Queues

\* A queue that a cascade deals with is not active again, and nothing is left
\* in it when its row is deleted.
Barred(o) ==
  /\ o.pc \in {"cancel", "jobs", "row"} => queue[o.q].status # "active"
  /\ o.pc = "row" => \A j \in Jobs : Home[j] = o.q => ~Present(j)
  /\ \A e \in o.rest : e \notin o.todo => queue[e.q].status # "active"
  /\ \A e \in o.todo : queue[e.q].id \in {0, e.row.id}
  /\ o.pc = "rows" => \A e \in o.rest, j \in Jobs : Home[j] = e.q => ~Present(j)

\* TypeOK but for what the processes have in hand.
Stored ==
  /\ tenant \in {"none", "active", "deleting"}
  /\ cached \subseteq Instances
  /\ queue \in [Queues -> QueueRow]
  /\ ids \in 0..IdBound
  /\ \A q \in Queues : queue[q].id <= ids
  /\ job \in [Jobs -> JobStatus]
  /\ crashes \in 0..CrashBound
  /\ forced \subseteq Queues
  /\ overtaken \in BOOLEAN

Typed == /\ Stored
         /\ op \in [Procs -> Op]
         /\ \A p \in Procs : Fit(op[p])
IInv == /\ Typed
        /\ NoOrphans
        /\ ~overtaken => \A p \in Procs : Barred(op[p])

\* The step leaves the cascades that are going on undisturbed: a queue becomes
\* active only without one, jobs come only to active queues, and rows with
\* jobs stay.
Mild ==
  /\ \A q \in Queues :
       \/ ~Cascading(q)
       \/ /\ queue'[q].status = "active" => queue[q].status = "active"
          /\ queue'[q].id \in {0, queue[q].id}
  /\ \A j \in Jobs : Present(j)' => Present(j) \/ queue[Home[j]].status = "active"
  /\ \A j \in Jobs : Present(j)' => queue'[Home[j]] # NoRow

\* A good step of process p, which has o in hand after it.
Stepped(p, o) ==
  /\ o \in Op /\ op' = [op EXCEPT ![p] = o]
  /\ Stored' /\ ids <= ids'
  /\ Fit(o)'
  /\ overtaken => overtaken'
  /\ ~overtaken' => Mild /\ Barred(o)'

\* What is shown of the state contains its type invariant.
LEMMA TypedMeans == Typed => TypeOK
BY DEF Typed, Stored, TypeOK

\* What a process has in hand stays barred in a mild step.
LEMMA Undisturbed ==
  ASSUME Typed, Mild, NEW p \in Procs, Barred(op[p]), NEW o, o = op[p]
  PROVE  Barred(o)'
<1> USE LifecycleAssumption DEF Typed, Stored
<1>1. op[p] \in Op /\ Fit(op[p])
  OBVIOUS
<1>2. /\ op[p].rest \in SUBSET Listed /\ op[p].todo \in SUBSET op[p].rest
      /\ \A e \in op[p].rest : e.q \in Queues /\ Cascading(e.q)
      /\ \A j \in Jobs : Home[j] \in Queues
  BY <1>1 DEF Op, Fit, Listed, Cascading
<1>3. op[p].pc \in {"cancel", "jobs", "row"} => op[p].q \in Queues /\ Cascading(op[p].q)
  BY <1>1 DEF Fit, Cascading
<1>4. op[p].pc \in {"cancel", "jobs", "row"} => queue'[op[p].q].status # "active"
  BY <1>3 DEF Mild, Barred
<1>5. op[p].pc = "row" => \A j \in Jobs : Home[j] = op[p].q => ~Present(j)'
  BY <1>3 DEF Mild, Barred
<1>6. \A e \in op[p].rest : e \notin op[p].todo => queue'[e.q].status # "active"
  BY <1>2 DEF Mild, Barred
<1>7. \A e \in op[p].todo : queue'[e.q].id \in {0, e.row.id}
  <2> SUFFICES ASSUME NEW e \in op[p].todo PROVE queue'[e.q].id \in {0, e.row.id}
    OBVIOUS
  <2>1. queue'[e.q].id \in {0, queue[e.q].id} /\ queue[e.q].id \in {0, e.row.id}
    BY <1>2 DEF Mild, Barred
  <2> QED BY <2>1
<1>8. op[p].pc = "rows" => \A e \in op[p].rest, j \in Jobs : Home[j] = e.q => ~Present(j)'
  BY <1>1, <1>2 DEF Mild, Barred, Fit
<1> QED BY <1>4, <1>5, <1>6, <1>7, <1>8 DEF Barred, Present

\* A good step keeps the invariant.
LEMMA SteppedKeeps ==
  ASSUME IInv, NEW p \in Procs, NEW o, Stepped(p, o)
  PROVE  IInv'
<1>1. Typed'
  <2>1. op' \in [Procs -> Op]
    BY DEF IInv, Typed, Stepped
  <2>2. \A r \in Procs : Fit(op[r])'
    <3> SUFFICES ASSUME NEW r \in Procs PROVE Fit(op[r])'
      OBVIOUS
    <3>1. CASE r = p
      BY <3>1 DEF IInv, Typed, Stepped, Fit
    <3>2. CASE r # p
      <4>1. op'[r] = op[r] /\ op[r] \in Op /\ Fit(op[r]) /\ ids \in Nat /\ ids' \in Nat /\ ids <= ids'
        BY <3>2, LifecycleAssumption DEF IInv, Typed, Stored, Stepped
      <4>2. op[r].row.id \in Nat /\ \A e \in op[r].rest : e.row.id \in Nat
        BY <4>1, LifecycleAssumption DEF Op, QueueRow, NoRow, Listed
      <4> QED BY <4>1, <4>2 DEF Fit
    <3> QED BY <3>1, <3>2
  <2> QED BY <2>1, <2>2 DEF Typed, Stepped
<1>2. NoOrphans'
  BY DEF NoOrphans, Stepped, Mild, Present
<1>3. ~overtaken' => \A r \in Procs : Barred(op[r])'
  <2> SUFFICES ASSUME ~overtaken', NEW r \in Procs PROVE Barred(op[r])'
    OBVIOUS
  <2>1. Mild /\ Barred(o)' /\ Typed /\ Barred(op[r])
    BY DEF Stepped, IInv
  <2>2. CASE r = p
    <3>1. op'[r] = o
      BY <2>2 DEF Stepped, IInv, Typed
    <3> QED BY <2>1, <3>1 DEF Barred, Present
  <2>3. CASE r # p
    <3>1. op'[r] = op[r]
      BY <2>3 DEF Stepped, IInv, Typed
    <3>2. \A x : x = op[r] => Barred(x)'
      BY <2>1, Undisturbed
    <3> QED BY <3>1, <3>2 DEF Barred, Present
  <2> QED BY <2>2, <2>3
<1> QED BY <1>1, <1>2, <1>3 DEF IInv

\* A step that changes only what one process has in hand.
LEMMA HandStepped ==
  ASSUME IInv, NEW p \in Procs, NEW o \in Op, op' = [op EXCEPT ![p] = o],
         UNCHANGED <<tenant, cached, queue, ids, job, crashes, forced, overtaken>>,
         Fit(o), ~overtaken => Barred(o)
  PROVE  Stepped(p, o)
<1> USE DEF IInv, Typed, Stored
<1>1. Stored' /\ ids <= ids' /\ Fit(o)' /\ (overtaken => overtaken')
  BY LifecycleAssumption DEF Fit
<1>2. ASSUME ~overtaken' PROVE Mild /\ Barred(o)'
  <2>1. Mild
    BY <1>2, LifecycleAssumption, Zenon DEF Mild, NoOrphans, Present
  <2>2. Barred(o)'
    BY <1>2 DEF Barred, Present
  <2> QED BY <2>1, <2>2
<1> QED BY <1>1, <1>2 DEF Stepped

\* An idle process is in nobody's way.
LEMMA IdleGood == ASSUME IInv PROVE Idle \in Op /\ Fit(Idle) /\ Barred(Idle)
BY LifecycleAssumption DEF IInv, Typed, Stored, Idle, Op, Fit, QueueRow, NoRow, Barred

\* Nor is the scheduler loop between two jobs.
LEMMA LeftGood ==
  ASSUME IInv, NEW due \in SUBSET Jobs
  PROVE  /\ Left(due) \in Op /\ Fit(Left(due)) /\ Barred(Left(due))
         /\ Left(due).pc \in {"idle", "due"}
<1>1. CASE due = {}
  BY <1>1, IdleGood DEF Left, Idle
<1>2. CASE due # {}
  <2> DEFINE o == [Idle EXCEPT !.pc = "due", !.due = due]
  <2>1. o \in Op /\ Fit(o) /\ Barred(o) /\ o.pc = "due"
    BY IdleGood DEF Idle, Op, Fit, Barred
  <2> QED BY <1>2, <2>1 DEF Left
<1> QED BY <1>1, <1>2

\* The steps of a handler that only read.
LEMMA HandlerReads ==
  ASSUME IInv, NEW p \in Procs,
         \/ \E j \in Jobs : Enqueue(p, j) \/ SettleRead(p, j) \/ RetryRead(p, j)
         \/ \E q \in Queues : UpsertQueue(p, q)
         \/ EnsureFind(p) \/ NackFind(p)
  PROVE  \E o \in Op : Stepped(p, o)
<1>1. \A j \in Jobs : Home[j] \in Queues
  BY LifecycleAssumption
<1>2. ASSUME NEW j \in Jobs, Enqueue(p, j) PROVE \E o \in Op : Stepped(p, o)
  <2> DEFINE o == [Idle EXCEPT !.pc = "ensure", !.q = Home[j], !.job = j]
  <2>1. o \in Op /\ Fit(o) /\ Barred(o)
    BY <1>1, IdleGood DEF Idle, Op, Fit, Barred
  <2> QED BY <1>2, <2>1, HandStepped DEF Enqueue, Becomes
<1>3. ASSUME NEW j \in Jobs, SettleRead(p, j) PROVE \E o \in Op : Stepped(p, o)
  <2> DEFINE o == [Idle EXCEPT !.pc = "settle", !.q = Home[j], !.job = j]
  <2>1. o \in Op /\ Fit(o) /\ Barred(o)
    BY <1>1, IdleGood DEF Idle, Op, Fit, Barred
  <2> QED BY <1>3, <2>1, HandStepped DEF SettleRead, Becomes
<1>4. ASSUME NEW q \in Queues, UpsertQueue(p, q) PROVE \E o \in Op : Stepped(p, o)
  <2> DEFINE o == [Idle EXCEPT !.pc = "ensure", !.q = q]
  <2>1. o \in Op /\ Fit(o) /\ Barred(o)
    BY IdleGood, LifecycleAssumption DEF Idle, Op, Fit, Barred
  <2> QED BY <1>4, <2>1, HandStepped DEF UpsertQueue, Becomes
<1>5. ASSUME EnsureFind(p) PROVE \E o \in Op : Stepped(p, o)
  <2>1. op[p] \in Op /\ Fit(op[p]) /\ (~overtaken => Barred(op[p])) /\ op[p].pc = "ensure"
    BY <1>5 DEF IInv, Typed, EnsureFind, At
  <2>2. queue[op[p].q].status \in {"none", "active", "deleting"}
    BY <2>1 DEF IInv, Typed, Stored, QueueRow, NoRow, Fit
  <2>3. CASE Becomes(p, Idle)
    BY <1>5, <2>3, IdleGood, HandStepped DEF EnsureFind, Becomes
  <2>4. ASSUME NEW c \in {"create", "insert"}, Goes(p, c), c = "insert" => op[p].job # None
        PROVE \E o \in Op : Stepped(p, o)
    <3> DEFINE o == [op[p] EXCEPT !.pc = c]
    <3>1. o \in Op /\ Fit(o)
      BY <2>1, <2>4 DEF Op, Fit
    <3>2. ~overtaken => Barred(o)
      BY <2>1, <2>4 DEF Op, Barred
    <3>3. op' = [op EXCEPT ![p] = o]
      BY <2>4 DEF Goes
    <3> HIDE DEF o
    <3> QED BY <1>5, <3>1, <3>2, <3>3, HandStepped DEF EnsureFind
  <2> QED BY <1>5, <2>2, <2>3, <2>4 DEF EnsureFind, Ensured
<1>6. ASSUME NEW j \in Jobs, RetryRead(p, j) PROVE \E o \in Op : Stepped(p, o)
  <2> DEFINE o == [Idle EXCEPT !.pc = "retry", !.q = Home[j], !.job = j]
  <2>1. o \in Op /\ Fit(o) /\ Barred(o)
    BY <1>1, IdleGood DEF Idle, Op, Fit, Barred
  <2> QED BY <1>6, <2>1, HandStepped DEF RetryRead, Becomes
<1>7. ASSUME NackFind(p) PROVE \E o \in Op : Stepped(p, o)
  <2>1. op[p] \in Op /\ Fit(op[p]) /\ (~overtaken => Barred(op[p])) /\ op[p].pc = "find"
    BY <1>7 DEF IInv, Typed, NackFind, At
  <2>2. CASE Becomes(p, Idle)
    BY <1>7, <2>2, IdleGood, HandStepped DEF NackFind, Becomes
  <2>3. CASE Goes(p, "publish")
    <3> DEFINE o == [op[p] EXCEPT !.pc = "publish"]
    <3>1. o \in Op /\ Fit(o) /\ (~overtaken => Barred(o))
      BY <2>1 DEF Op, Fit, Barred
    <3>2. op' = [op EXCEPT ![p] = o]
      BY <2>3 DEF Goes
    <3> HIDE DEF o
    <3> QED BY <1>7, <3>1, <3>2, HandStepped DEF NackFind
  <2> QED BY <1>7, <2>2, <2>3 DEF NackFind
<1> QED BY <1>2, <1>3, <1>4, <1>5, <1>6, <1>7

\* The steps of the scheduler loop that only read.
LEMMA SchedulerReads ==
  ASSUME IInv, NEW p \in Procs,
         (\E due \in SUBSET Jobs : FindDueScheduled(p, due)) \/ NextDue(p)
  PROVE  \E o \in Op : Stepped(p, o)
<1>1. ASSUME NEW due \in SUBSET Jobs, Becomes(p, Left(due)),
             UNCHANGED <<tenant, cached, queue, ids, job, crashes, forced, overtaken>>
      PROVE  \E o \in Op : Stepped(p, o)
  BY <1>1, LeftGood, HandStepped DEF Becomes
<1>2. ASSUME NEW due \in SUBSET Jobs, FindDueScheduled(p, due) PROVE \E o \in Op : Stepped(p, o)
  BY <1>1, <1>2 DEF FindDueScheduled
<1>3. ASSUME NextDue(p) PROVE \E o \in Op : Stepped(p, o)
  <2>1. op[p].due \in SUBSET Jobs
    BY DEF IInv, Typed, Op
  <2>2. PICK j \in op[p].due :
          Becomes(p, IF queue[Home[j]] = NoRow
                     THEN Left(op[p].due \ {j})
                     ELSE [Idle EXCEPT !.pc = "promote", !.q = Home[j], !.job = j,
                                       !.due = op[p].due \ {j}])
    BY <1>3 DEF NextDue
  <2>3. UNCHANGED <<tenant, cached, queue, ids, job, crashes, forced, overtaken>>
    BY <1>3 DEF NextDue
  <2>4. CASE Becomes(p, Left(op[p].due \ {j}))
    <3>1. op[p].due \ {j} \in SUBSET Jobs
      BY <2>1
    <3> QED BY <1>1, <2>3, <2>4, <3>1
  <2> DEFINE o == [Idle EXCEPT !.pc = "promote", !.q = Home[j], !.job = j, !.due = op[p].due \ {j}]
  <2>5. CASE Becomes(p, o)
    <3>1. j \in Jobs /\ Home[j] \in Queues
      BY <2>1, LifecycleAssumption
    <3>2. o \in Op /\ Fit(o) /\ Barred(o)
      BY <2>1, <3>1, IdleGood DEF Idle, Op, Fit, Barred
    <3>3. op' = [op EXCEPT ![p] = o]
      BY <2>5 DEF Becomes
    <3> HIDE DEF o
    <3> QED BY <2>3, <3>2, <3>3, HandStepped
  <2> QED BY <2>2, <2>4, <2>5
<1> QED BY <1>2, <1>3

\* A process that saves a job leaves cascades undisturbed, or has overtaken
\* one: the job is there, or its queue is active.
LEMMA JobSaved ==
  ASSUME IInv, NEW p \in Procs,
         op[p].pc \in {"insert", "publish", "settle", "retry", "promote"},
         NEW s \in {"active", "done", "dlq"}, job' = [job EXCEPT ![op[p].job] = s],
         NEW late \in BOOLEAN, overtaken' = (overtaken \/ late),
         Writable(op[p].q) \/ Present(op[p].job) \/ late,
         UNCHANGED <<tenant, cached, queue, ids, crashes, forced>>,
         NEW o \in Op, op' = [op EXCEPT ![p] = o], Fit(o), ~overtaken => Barred(o),
         o.pc \in {"idle", "publish", "find", "due"}
  PROVE  Stepped(p, o)
<1> USE DEF IInv, Typed, Stored
<1>1. op[p] \in Op /\ Fit(op[p]) /\ op[p].job \in Jobs /\ op[p].q = Home[op[p].job]
  BY DEF Fit
<1>2. Stored' /\ ids <= ids' /\ Fit(o)' /\ (overtaken => overtaken')
  <2>1. job' \in [Jobs -> JobStatus]
    BY <1>1 DEF JobStatus
  <2> QED BY <2>1, LifecycleAssumption DEF Fit
<1>3. ASSUME ~overtaken' PROVE Mild /\ Barred(o)'
  <2>1. ~overtaken /\ (Writable(op[p].q) \/ Present(op[p].job))
    BY <1>3
  <2>2. \A j \in Jobs : j # op[p].job => (Present(j)' <=> Present(j))
    BY <1>1 DEF Present
  <2>3. \A j \in Jobs : Present(j)' => Present(j) \/ queue[Home[j]].status = "active"
    BY <1>1, <2>1, <2>2 DEF Writable
  <2>4. \A j \in Jobs : Present(j)' => queue'[Home[j]] # NoRow
    BY <2>1, <2>3 DEF NoOrphans, NoRow
  <2>5. Mild
    BY <2>3, <2>4, LifecycleAssumption, Zenon DEF Mild
  <2>6. \A e \in o.rest : e \notin o.todo => queue'[e.q].status # "active"
    BY <2>1 DEF Barred
  <2>7. \A e \in o.todo : queue'[e.q].id \in {0, e.row.id}
    BY <2>1 DEF Barred
  <2>8. Barred(o)'
    BY <2>6, <2>7 DEF Barred
  <2> QED BY <2>5, <2>8
<1> QED BY <1>2, <1>3 DEF Stepped

\* The steps that save a job.
LEMMA JobSaves ==
  ASSUME IInv, NEW p \in Procs,
         Insert(p) \/ PublishSave(p) \/ SettleSave(p) \/ RetrySave(p) \/ Promote(p)
  PROVE  \E o \in Op : Stepped(p, o)
<1>1. op[p] \in Op /\ Fit(op[p]) /\ (~overtaken => Barred(op[p]))
  BY DEF IInv, Typed
<1>2. Idle.pc = "idle"
  BY DEF Idle
<1>3. ASSUME NEW c \in {"publish", "find"}, Goes(p, c),
             op[p].pc \in {"insert", "settle", "promote"}
      PROVE  \E o \in Op : /\ op' = [op EXCEPT ![p] = o] /\ Fit(o) /\ (~overtaken => Barred(o))
                          /\ o.pc \in {"idle", "publish", "find", "due"}
  <2> DEFINE o == [op[p] EXCEPT !.pc = c]
  <2>1. o \in Op /\ Fit(o) /\ (~overtaken => Barred(o)) /\ o.pc = c
    BY <1>1, <1>3 DEF Op, Fit, Barred
  <2>2. op' = [op EXCEPT ![p] = o]
    BY <1>3 DEF Goes
  <2> QED BY <1>3, <2>1, <2>2
<1>4. ASSUME Insert(p) PROVE \E o \in Op : Stepped(p, o)
  <2>1. CASE Becomes(p, Idle)
    BY <1>2, <1>4, <2>1, IdleGood, JobSaved DEF Insert, Becomes, At, Overtakes
  <2>2. CASE Goes(p, "publish")
    BY <1>3, <1>4, <2>2, JobSaved DEF Insert, At, Overtakes
  <2> QED BY <1>4, <2>1, <2>2 DEF Insert
<1>5. ASSUME PublishSave(p) PROVE \E o \in Op : Stepped(p, o)
  <2>1. op[p].due \in SUBSET Jobs
    BY <1>1 DEF Op
  <2>2. op' = [op EXCEPT ![p] = Left(op[p].due)]
    BY <1>5 DEF PublishSave, Becomes
  <2>3. PICK o \in Op : /\ op' = [op EXCEPT ![p] = o] /\ Fit(o) /\ Barred(o)
                         /\ o.pc \in {"idle", "due"}
    BY <2>1, <2>2, LeftGood
  <2>4. UNCHANGED <<tenant, cached, queue, ids, crashes, forced>> /\ op[p].pc = "publish"
    BY <1>5 DEF PublishSave, At
  <2>5. CASE UNCHANGED <<job, overtaken>>
    BY <2>3, <2>4, <2>5, HandStepped
  <2>6. CASE job' = [job EXCEPT ![op[p].job] = "active"] /\ Overtakes(job[op[p].job] # "active")
    BY <2>3, <2>4, <2>6, JobSaved DEF Overtakes, Present
  <2> QED BY <1>5, <2>5, <2>6 DEF PublishSave
<1>6. ASSUME SettleSave(p) PROVE \E o \in Op : Stepped(p, o)
  <2>1. op[p].pc = "settle" /\ UNCHANGED <<tenant, cached, queue, ids, crashes, forced>>
        /\ overtaken' = (overtaken \/ job[op[p].job] # "active")
    BY <1>6 DEF SettleSave, At, Overtakes
  <2>2. CASE /\ \E s \in {"active", "done", "dlq"} : job' = [job EXCEPT ![op[p].job] = s]
             /\ Becomes(p, Idle)
    BY <1>2, <2>1, <2>2, IdleGood, JobSaved DEF Becomes, Present
  <2>3. CASE job' = [job EXCEPT ![op[p].job] = "active"] /\ Goes(p, "find")
    BY <1>3, <2>1, <2>3, JobSaved DEF Present
  <2> QED BY <1>6, <2>2, <2>3 DEF SettleSave
<1>7. ASSUME RetrySave(p) PROVE \E o \in Op : Stepped(p, o)
  BY <1>2, <1>7, IdleGood, JobSaved DEF RetrySave, Becomes, At, Overtakes
<1>8. ASSUME Promote(p) PROVE \E o \in Op : Stepped(p, o)
  <2>1. op[p].pc = "promote" /\ UNCHANGED <<tenant, cached, queue, ids, crashes, forced>>
    BY <1>8 DEF Promote, At
  <2>2. CASE /\ job' = [job EXCEPT ![op[p].job] = "active"] /\ Goes(p, "publish")
             /\ Overtakes(job[op[p].job] # "active")
    BY <1>3, <2>1, <2>2, JobSaved DEF Overtakes, Present
  <2>3. CASE Becomes(p, Left(op[p].due)) /\ UNCHANGED <<job, overtaken>>
    <3>1. op[p].due \in SUBSET Jobs /\ op' = [op EXCEPT ![p] = Left(op[p].due)]
      BY <1>1, <2>3 DEF Op, Becomes
    <3> QED BY <2>1, <2>3, <3>1, LeftGood, HandStepped
  <2> QED BY <1>8, <2>2, <2>3 DEF Promote
<1> QED BY <1>4, <1>5, <1>6, <1>7, <1>8

\* A row is created only when no cascade of its name is going on.
LEMMA RowCreated ==
  ASSUME IInv, NEW p \in Procs, EnsureCreate(p)
  PROVE  \E o \in Op : Stepped(p, o)
<1> USE DEF IInv, Typed, Stored
<1> DEFINE q == op[p].q
<1>1. op[p] \in Op /\ Fit(op[p]) /\ (~overtaken => Barred(op[p])) /\ op[p].pc = "create" /\ q \in Queues
  BY DEF EnsureCreate, At, Fit
<1>2. \E o \in Op : /\ op' = [op EXCEPT ![p] = o] /\ Fit(o) /\ (~overtaken => Barred(o))
                    /\ o.rest \in {{}, op[p].rest} /\ o.todo = {} /\ o.pc \in {"idle", "insert"}
  <2>1. CASE op[p].job = None
    <3>1. Idle.rest = {} /\ Idle.todo = {} /\ Idle.pc = "idle"
      BY DEF Idle
    <3> QED BY <2>1, <3>1, IdleGood DEF EnsureCreate, Ensured, Becomes
  <2>2. CASE op[p].job # None
    <3> DEFINE o == [op[p] EXCEPT !.pc = "insert"]
    <3>1. o \in Op /\ Fit(o) /\ (~overtaken => Barred(o)) /\ o.rest = op[p].rest /\ o.todo = {}
          /\ o.pc = "insert"
      BY <1>1, <2>2 DEF Op, Fit, Barred
    <3>2. op' = [op EXCEPT ![p] = o]
      BY <1>1, <2>2 DEF EnsureCreate, Ensured, Goes
    <3> QED BY <3>1, <3>2
  <2> QED BY <2>1, <2>2
<1>3. PICK o \in Op : /\ op' = [op EXCEPT ![p] = o] /\ Fit(o) /\ (~overtaken => Barred(o))
                      /\ o.rest \in {{}, op[p].rest} /\ o.todo = {} /\ o.pc \in {"idle", "insert"}
  BY <1>2
<1>4. CASE /\ queue[q] # NoRow
           /\ UNCHANGED <<ids, queue, forced, overtaken>>
  BY <1>3, <1>4, HandStepped DEF EnsureCreate
<1>5. CASE /\ queue[q] = NoRow /\ ids < IdBound
           /\ ids' = ids + 1
           /\ queue' = [queue EXCEPT ![q] = [id |-> ids + 1, status |-> "active"]]
           /\ forced' = forced \ {q}
           /\ Overtakes(tenant = "deleting" \/ Cascading(q))
  <2>1. UNCHANGED <<tenant, cached, job, crashes>>
    BY DEF EnsureCreate
  <2>2. [id |-> ids + 1, status |-> "active"] \in QueueRow /\ ids + 1 \in 0..IdBound
    BY <1>5, LifecycleAssumption DEF QueueRow
  <2>3. Stored'
    <3>1. overtaken' \in BOOLEAN
      BY <1>5 DEF Overtakes
    <3>2. queue' \in [Queues -> QueueRow] /\ ids' \in 0..IdBound
      BY <1>1, <1>5, <2>2
    <3>3. \A r \in Queues : queue'[r].id <= ids'
      <4>1. \A r \in Queues : queue[r].id \in Nat /\ queue[r].id <= ids
        BY LifecycleAssumption DEF QueueRow, NoRow
      <4> QED BY <1>1, <1>5, <4>1, LifecycleAssumption
    <3>4. forced' \subseteq Queues
      BY <1>5
    <3> QED BY <2>1, <3>1, <3>2, <3>3, <3>4
  <2>4. ids <= ids' /\ (overtaken => overtaken')
    BY <1>5, LifecycleAssumption DEF Overtakes
  <2>5. Fit(o)'
    <3>1. o.row.id \in Nat /\ \A e \in o.rest : e.row.id \in Nat
      BY LifecycleAssumption DEF Op, QueueRow, NoRow, Listed
    <3> QED BY <1>3, <1>5, <3>1, LifecycleAssumption DEF Fit
  <2>6. ASSUME ~overtaken' PROVE Mild /\ Barred(o)'
    <3>1. ~overtaken /\ ~Cascading(q)
      BY <1>5, <2>6 DEF Overtakes
    <3>2. \A r \in Queues : r # q => queue'[r] = queue[r]
      BY <1>5
    <3>3. \A j \in Jobs : Present(j)' => Present(j)
      BY <2>1 DEF Present
    <3>4. \A j \in Jobs : Present(j)' => queue'[Home[j]] # NoRow
      <4>1. queue'[q] # NoRow
        BY <1>1, <1>5 DEF NoRow
      <4> QED BY <3>1, <3>2, <3>3, <4>1, LifecycleAssumption DEF NoOrphans
    <3>5. Mild
      BY <3>1, <3>2, <3>3, <3>4 DEF Mild
    <3>6. \A e \in o.rest : e.q \in Queues /\ e.q # q
      BY <1>1, <1>3, <3>1 DEF Cascading, Op, Listed
    <3>7. Barred(o)'
      BY <1>3, <3>1, <3>2, <3>6 DEF Barred
    <3> QED BY <3>5, <3>7
  <2> QED BY <1>3, <2>3, <2>4, <2>5, <2>6 DEF Stepped
<1> QED BY <1>4, <1>5 DEF EnsureCreate

\* Saving a row as one that is being deleted is mild if it was as it was read.
LEMMA RowMarked ==
  ASSUME IInv, NEW q \in Queues, NEW row \in QueueRow, row # NoRow, row.id <= ids,
         SaveRow(q, Deleting(row)), UNCHANGED <<ids, job>>
  PROVE  /\ queue' \in [Queues -> QueueRow]
         /\ \A r \in Queues : queue'[r].id <= ids'
         /\ Saved(q, row) => queue'[q] = Deleting(row)
         /\ ~overtaken /\ (Saved(q, row) => queue[q] = row) => Mild
<1> USE DEF IInv, Typed, Stored
<1>1. Deleting(row) \in QueueRow /\ Deleting(row).id = row.id /\ Deleting(row).status = "deleting"
  BY DEF Deleting, QueueRow, NoRow
<1>2. queue' = [queue EXCEPT ![q] = IF Saved(q, row) THEN Deleting(row) ELSE @]
  BY <1>1 DEF SaveRow, Saved
<1>3. queue' \in [Queues -> QueueRow]
  BY <1>1, <1>2
<1>4. \A r \in Queues : queue'[r].id <= ids'
  BY <1>1, <1>2
<1>5. Saved(q, row) => queue'[q] = Deleting(row)
  BY <1>2
<1>6. ASSUME ~overtaken, Saved(q, row) => queue[q] = row PROVE Mild
  <2>1. \A r \in Queues : /\ queue'[r].status = "active" => queue[r].status = "active"
                          /\ queue'[r].id \in {0, queue[r].id}
                          /\ queue[r] # NoRow => queue'[r] # NoRow
    BY <1>1, <1>2, <1>6 DEF NoRow
  <2>2. \A j \in Jobs : Present(j)' => Present(j) /\ queue'[Home[j]] # NoRow
    BY <1>6, <2>1, LifecycleAssumption DEF Present, NoOrphans
  <2> QED BY <2>1, <2>2 DEF Mild
<1> QED BY <1>3, <1>4, <1>5, <1>6

\* Deleting a row is mild if its queue has no jobs.
LEMMA RowGone ==
  ASSUME IInv, NEW q \in Queues, queue' = [queue EXCEPT ![q] = NoRow], UNCHANGED <<ids, job>>
  PROVE  /\ queue' \in [Queues -> QueueRow]
         /\ \A r \in Queues : queue'[r].id <= ids'
         /\ ~overtaken /\ (\A j \in Jobs : Home[j] = q => ~Present(j)) => Mild
<1> USE DEF IInv, Typed, Stored
<1>1. NoRow \in QueueRow /\ NoRow.id = 0 /\ NoRow.status = "none" /\ 0 <= ids
  BY LifecycleAssumption DEF QueueRow, NoRow
<1>2. queue' \in [Queues -> QueueRow] /\ \A r \in Queues : queue'[r].id <= ids'
  BY <1>1
<1>3. ASSUME ~overtaken, \A j \in Jobs : Home[j] = q => ~Present(j) PROVE Mild
  <2>1. \A r \in Queues : /\ queue'[r].status = "active" => queue[r].status = "active"
                          /\ queue'[r].id \in {0, queue[r].id}
                          /\ r # q => queue'[r] = queue[r]
    BY <1>1
  <2>2. \A j \in Jobs : Present(j)' => Present(j) /\ queue'[Home[j]] # NoRow
    BY <1>3, <2>1, LifecycleAssumption DEF Present, NoOrphans
  <2> QED BY <2>1, <2>2 DEF Mild
<1> QED BY <1>2, <1>3

\* So is a step that only takes jobs away or finishes them.
LEMMA JobsGone ==
  ASSUME IInv, UNCHANGED queue, \A j \in Jobs : Present(j)' => Present(j), ~overtaken
  PROVE  Mild
BY LifecycleAssumption, Zenon DEF Mild, NoOrphans, IInv, Present

\* What a statement that deletes jobs does.
LEMMA BatchGone ==
  ASSUME IInv, NEW jobs \in SUBSET Jobs, DeleteBatch(jobs)
  PROVE  /\ job' \in [Jobs -> JobStatus]
         /\ \A j \in Jobs : Present(j)' => Present(j)
<1>1. PICK gone \in SUBSET jobs : job' = [j \in Jobs |-> IF j \in gone THEN "gone" ELSE job[j]]
  BY DEF DeleteBatch
<1> QED BY <1>1 DEF IInv, Typed, Stored, JobStatus, Present

\* The purge takes finished jobs away.
LEMMA Purged ==
  ASSUME IInv, PurgeTerminalJobs
  PROVE  \E p \in Procs, o \in Op : Stepped(p, o)
<1> USE DEF IInv, Typed, Stored
<1>1. UNCHANGED <<tenant, cached, queue, ids, op, crashes, forced, overtaken>>
  BY DEF PurgeTerminalJobs
<1>2. PICK old \in SUBSET Jobs : job' = [j \in Jobs |-> IF j \in old THEN "gone" ELSE job[j]]
  BY DEF PurgeTerminalJobs
<1>3. job' \in [Jobs -> JobStatus] /\ \A j \in Jobs : Present(j)' => Present(j)
  BY <1>2 DEF JobStatus, Present
<1>4. Maintenance \in Procs
  BY DEF Procs
<1>5. PICK o \in Op : o = op[Maintenance]
  BY <1>4
<1>6. op' = [op EXCEPT ![Maintenance] = o] /\ Fit(o) /\ (~overtaken => Barred(o))
  BY <1>1, <1>4, <1>5
<1>7. Stored' /\ ids <= ids' /\ Fit(o)' /\ (overtaken => overtaken')
  BY <1>1, <1>3, <1>6, LifecycleAssumption DEF Fit
<1>8. ASSUME ~overtaken' PROVE Mild /\ Barred(o)'
  <2>1. Mild
    BY <1>1, <1>3, <1>8, JobsGone
  <2>2. \A x : x = op[Maintenance] => Barred(x)'
    BY <1>1, <1>4, <1>6, <1>5, <1>8, <2>1, Undisturbed
  <2> QED BY <1>5, <2>1, <2>2
<1>9. Stepped(Maintenance, o)
  BY <1>6, <1>7, <1>8 DEF Stepped
<1> QED BY <1>4, <1>9

\* The request to delete a queue, up to its cascade.
LEMMA DeleteRequests ==
  ASSUME IInv, NEW p \in Procs,
         \/ \E q \in Queues, force \in BOOLEAN : DeleteQueue(p, q, force)
         \/ CountActive(p) \/ MarkQueue(p) \/ ForceCancel(p)
  PROVE  \E o \in Op : Stepped(p, o)
<1> USE DEF IInv, Typed, Stored
<1>1. op[p] \in Op /\ Fit(op[p]) /\ (~overtaken => Barred(op[p]))
  OBVIOUS
<1>2. ASSUME NEW q \in Queues, NEW force \in BOOLEAN, DeleteQueue(p, q, force)
      PROVE  \E o \in Op : Stepped(p, o)
  <2> DEFINE o == [Idle EXCEPT !.pc = "count", !.q = q, !.row = queue[q], !.force = force]
  <2>1. queue[q] \in QueueRow /\ queue[q] # NoRow /\ queue[q].id <= ids
    <3>1. queue[q].status = "active"
      BY <1>2 DEF DeleteQueue
    <3>2. queue[q] # NoRow
      BY <3>1 DEF NoRow
    <3> QED BY <3>2
  <2>2. o \in Op /\ Fit(o) /\ Barred(o)
    BY <2>1, IdleGood, LifecycleAssumption DEF Idle, Op, Fit, Barred
  <2> QED BY <1>2, <2>2, HandStepped DEF DeleteQueue, Becomes
<1>3. ASSUME CountActive(p) PROVE \E o \in Op : Stepped(p, o)
  <2> DEFINE busy == Active(op[p].q) # {}
             o == [op[p] EXCEPT !.pc = "mark", !.busy = busy]
  <2>1. CASE Becomes(p, Idle)
    BY <1>3, <2>1, IdleGood, HandStepped DEF CountActive, Becomes
  <2>2. CASE Becomes(p, o)
    <3>1. busy \in BOOLEAN
      OBVIOUS
    <3>2. op[p].pc = "count"
      BY <1>3 DEF CountActive, At
    <3> HIDE DEF busy
    <3>3. o \in Op /\ Fit(o) /\ (~overtaken => Barred(o))
      BY <1>1, <3>1, <3>2 DEF Op, Fit, Barred
    <3> HIDE DEF o
    <3> QED BY <1>3, <2>2, <3>3, HandStepped DEF CountActive, Becomes
  <2> QED BY <1>3, <2>1, <2>2 DEF CountActive
<1>4. ASSUME MarkQueue(p) PROVE \E o \in Op : Stepped(p, o)
  <2> DEFINE q == op[p].q
             row == op[p].row
             c == IF op[p].force /\ op[p].busy THEN "cancel" ELSE "jobs"
             kept == [op[p] EXCEPT !.pc = c]
             o == IF Saved(q, row) THEN kept ELSE Idle
             late == Saved(q, row) /\ (queue[q] # row \/ (Active(q) # {} /\ ~op[p].busy))
  <2>1. q \in Queues /\ row \in QueueRow /\ row # NoRow /\ row.id <= ids /\ op[p].pc = "mark"
    BY <1>1, <1>4 DEF MarkQueue, At, Fit, Op
  <2>2. SaveRow(q, Deleting(row)) /\ UNCHANGED <<tenant, cached, ids, job, crashes>>
        /\ overtaken' = (overtaken \/ late)
    BY <1>4 DEF MarkQueue, Overtakes
  <2>3. /\ queue' \in [Queues -> QueueRow]
        /\ \A r \in Queues : queue'[r].id <= ids'
        /\ Saved(q, row) => queue'[q] = Deleting(row)
        /\ ~overtaken /\ (Saved(q, row) => queue[q] = row) => Mild
    BY <2>1, <2>2, RowMarked
  <2>4. c \in {"cancel", "jobs"}
    OBVIOUS
  <2>5. op' = [op EXCEPT ![p] = o]
    BY <1>4 DEF MarkQueue, Goes, Becomes
  <2>6. forced' \subseteq Queues
    BY <1>4, <2>1 DEF MarkQueue
  <2>7. kept \in Op /\ Fit(kept)
    <3> HIDE DEF c
    <3> QED BY <1>1, <2>1, <2>4 DEF Op, Fit
  <2>8. PICK x \in Op : x = o
    BY <2>7, IdleGood
  <2>9. Fit(x) /\ op' = [op EXCEPT ![p] = x]
    BY <2>5, <2>7, <2>8, IdleGood
  <2>10. Stored' /\ ids <= ids' /\ (overtaken => overtaken')
    <3>1. overtaken' \in BOOLEAN /\ (overtaken => overtaken')
      <4> HIDE DEF late
      <4> QED BY <2>2
    <3> QED BY <2>2, <2>3, <2>6, <3>1, LifecycleAssumption
  <2>11. Fit(x)'
    BY <2>2, <2>9 DEF Fit
  <2>12. ASSUME ~overtaken' PROVE Mild /\ Barred(x)'
    <3>1. ~overtaken /\ (Saved(q, row) => queue[q] = row)
      BY <2>2, <2>12
    <3>2. Mild
      BY <2>3, <3>1
    <3>3. CASE ~Saved(q, row)
      <4>1. x = Idle
        BY <2>8, <3>3
      <4> QED BY <3>2, <4>1 DEF Idle, Barred
    <3>4. CASE Saved(q, row)
      <4>1. queue'[q].status = "deleting"
        <5>1. row.id \in 1..IdBound /\ row = [id |-> row.id, status |-> row.status]
          BY <2>1 DEF QueueRow
        <5> QED BY <2>3, <3>4, <5>1 DEF Deleting
      <4>2. x.pc \in {"cancel", "jobs"} /\ x.q = q /\ x.rest = op[p].rest /\ x.todo = {}
            /\ op[p].todo = {}
        <5> HIDE DEF c
        <5> QED BY <1>1, <2>1, <2>4, <2>8, <3>4 DEF Op, Fit
      <4>3. \A e \in op[p].rest : queue'[e.q].status # "active"
        <5>1. \A e \in op[p].rest : queue[e.q].status # "active" /\ e.q \in Queues /\ Cascading(e.q)
          BY <1>1, <3>1, <4>2 DEF Barred, Op, Listed, Cascading
        <5> QED BY <3>2, <5>1 DEF Mild
      <4> QED BY <3>2, <4>1, <4>2, <4>3 DEF Barred
    <3> QED BY <3>2, <3>3, <3>4
  <2> QED BY <2>9, <2>10, <2>11, <2>12 DEF Stepped
<1>5. ASSUME ForceCancel(p) PROVE \E o \in Op : Stepped(p, o)
  <2> DEFINE o == [op[p] EXCEPT !.pc = "jobs"]
             late == Active(op[p].q) # {} /\ queue[op[p].q].status # "deleting"
  <2>1. op[p].pc = "cancel" /\ op' = [op EXCEPT ![p] = o]
    BY <1>5 DEF ForceCancel, At, Goes
  <2>2. o \in Op /\ Fit(o) /\ (~overtaken => Barred(o))
    BY <1>1, <2>1 DEF Op, Fit, Barred
  <2>3. /\ job' \in [Jobs -> JobStatus]
        /\ \A j \in Jobs : Present(j)' => Present(j)
    BY <1>5 DEF ForceCancel, Active, JobStatus, Present
  <2>4. UNCHANGED <<tenant, cached, queue, ids, crashes, forced>> /\ overtaken' = (overtaken \/ late)
    BY <1>5 DEF ForceCancel, Overtakes
  <2>5. Stored' /\ ids <= ids' /\ (overtaken => overtaken')
    <3>1. overtaken' \in BOOLEAN /\ (overtaken => overtaken')
      <4> HIDE DEF late
      <4> QED BY <2>4
    <3> QED BY <2>3, <2>4, <3>1, LifecycleAssumption
  <2>6. PICK x \in Op : x = o
    BY <2>2
  <2>7. Fit(x) /\ (~overtaken => Barred(x)) /\ op' = [op EXCEPT ![p] = x] /\ x.pc = "jobs"
    BY <1>1, <2>1, <2>2, <2>6 DEF Op
  <2>8. Fit(x)'
    BY <2>4, <2>7 DEF Fit
  <2>9. ASSUME ~overtaken' PROVE Mild /\ Barred(x)'
    <3>1. ~overtaken
      BY <2>4, <2>9
    <3>2. Mild
      BY <2>3, <2>4, <3>1, JobsGone
    <3> QED BY <2>4, <2>7, <3>1, <3>2 DEF Barred
  <2> QED BY <2>5, <2>7, <2>8, <2>9 DEF Stepped
<1> QED BY <1>2, <1>3, <1>4, <1>5

\* What a process has in hand when it is through with a queue.
LEMMA ThroughGood ==
  ASSUME IInv, NEW p \in Procs, op[p].pc = "row"
  PROVE  /\ Through(p) \in Op /\ Fit(Through(p)) /\ (~overtaken => Barred(Through(p)))
         /\ Through(p).pc \in {"idle", "resume"} /\ Through(p).todo = {}
         /\ Through(p).rest \in {{}, op[p].rest}
<1>1. op[p] \in Op /\ Fit(op[p]) /\ (~overtaken => Barred(op[p])) /\ op[p].todo = {}
  BY DEF IInv, Typed, Fit
<1>2. Idle \in Op /\ Fit(Idle) /\ Barred(Idle)
  BY IdleGood
<1>3. CASE p = Maintenance
  <2> DEFINE o == [Idle EXCEPT !.pc = "resume", !.rest = op[p].rest]
  <2>1. o \in Op /\ o.pc = "resume" /\ o.todo = {} /\ o.rest = op[p].rest /\ o.row = Idle.row
        /\ o.job = Idle.job /\ o.q = Idle.q
    BY <1>1, <1>2 DEF Idle, Op
  <2>2. Fit(o)
    BY <1>1, <1>2, <2>1 DEF Fit, Idle
  <2>3. ~overtaken => Barred(o)
    BY <1>1, <2>1 DEF Barred
  <2> QED BY <1>3, <2>1, <2>2, <2>3 DEF Through
<1>4. CASE p # Maintenance
  BY <1>2, <1>4 DEF Through, Idle
<1> QED BY <1>3, <1>4

\* The steps that delete a row, of a queue in which nothing is left.
LEMMA RowDeleted ==
  ASSUME IInv, NEW p \in Procs, NEW q \in Queues,
         queue' = [queue EXCEPT ![q] = NoRow],
         ~overtaken => \A j \in Jobs : Home[j] = q => ~Present(j),
         NEW late \in BOOLEAN, overtaken' = (overtaken \/ late),
         UNCHANGED <<tenant, cached, ids, job, crashes, forced>>,
         NEW o \in Op, op' = [op EXCEPT ![p] = o], Fit(o), ~overtaken => Barred(o)
  PROVE  Stepped(p, o)
<1> USE DEF IInv, Typed, Stored
<1>1. /\ queue' \in [Queues -> QueueRow]
      /\ \A r \in Queues : queue'[r].id <= ids'
      /\ ~overtaken /\ (\A j \in Jobs : Home[j] = q => ~Present(j)) => Mild
  BY RowGone
<1>2. Stored' /\ ids <= ids' /\ (overtaken => overtaken')
  BY <1>1, LifecycleAssumption
<1>3. Fit(o)'
  BY DEF Fit
<1>4. ASSUME ~overtaken' PROVE Mild /\ Barred(o)'
  <2>1. Mild /\ Barred(o)
    BY <1>1, <1>4
  <2>2. \A r \in Queues : queue'[r] = IF r = q THEN NoRow ELSE queue[r]
    OBVIOUS
  <2>3. /\ \A r \in Queues : queue[r].status # "active" => queue'[r].status # "active"
        /\ \A r \in Queues : queue'[r].id \in {0, queue[r].id}
    BY <2>2 DEF NoRow
  <2>4. o.rest \in SUBSET Listed /\ o.todo \in SUBSET o.rest /\ \A e \in o.rest : e.q \in Queues
    BY DEF Op, Fit, Listed
  <2>5. o.pc \in {"cancel", "jobs", "row"} => o.q \in Queues
    BY DEF Fit
  <2>6. \A e \in o.todo : queue'[e.q].id \in {0, e.row.id}
    <3> SUFFICES ASSUME NEW e \in o.todo PROVE queue'[e.q].id \in {0, e.row.id}
      OBVIOUS
    <3>1. queue'[e.q].id \in {0, queue[e.q].id} /\ queue[e.q].id \in {0, e.row.id}
      BY <2>1, <2>3, <2>4 DEF Barred
    <3> QED BY <3>1
  <2> QED BY <2>1, <2>3, <2>4, <2>5, <2>6 DEF Barred, Present
<1> QED BY <1>2, <1>3, <1>4 DEF Stepped

\* The steps that take jobs away.
LEMMA JobsDeleted ==
  ASSUME IInv, NEW p \in Procs, NEW jobs \in SUBSET Jobs, DeleteBatch(jobs),
         NEW late \in BOOLEAN, overtaken' = (overtaken \/ late), UNCHANGED op,
         UNCHANGED <<tenant, cached, queue, ids, crashes, forced>>
  PROVE  \E o \in Op : Stepped(p, o)
<1> USE DEF IInv, Typed, Stored
<1>1. PICK o \in Op : o = op[p]
  OBVIOUS
<1>2. op' = [op EXCEPT ![p] = o] /\ Fit(o) /\ (~overtaken => Barred(o))
  BY <1>1
<1>3. /\ job' \in [Jobs -> JobStatus]
      /\ \A j \in Jobs : Present(j)' => Present(j)
  BY BatchGone
<1>4. Stored' /\ ids <= ids' /\ (overtaken => overtaken')
  BY <1>3, LifecycleAssumption
<1>5. Fit(o)'
  BY <1>2 DEF Fit
<1>6. ASSUME ~overtaken' PROVE Mild /\ Barred(o)'
  <2>1. Mild
    BY <1>3, <1>6, JobsGone
  <2> QED BY <1>2, <1>3, <1>6, <2>1 DEF Barred
<1> QED BY <1>2, <1>4, <1>5, <1>6 DEF Stepped

\* The cascade of a queue.
LEMMA QueueCascade ==
  ASSUME IInv, NEW p \in Procs, DeleteJobs(p) \/ DeleteRow(p)
  PROVE  \E o \in Op : Stepped(p, o)
<1> USE DEF IInv, Typed, Stored
<1>1. op[p] \in Op /\ Fit(op[p]) /\ (~overtaken => Barred(op[p]))
  OBVIOUS
<1>2. ASSUME DeleteJobs(p) PROVE \E o \in Op : Stepped(p, o)
  <2> DEFINE q == op[p].q
             late == queue[q].status # "deleting"
  <2>1. JobsOf(q) \in SUBSET Jobs /\ late \in BOOLEAN
        /\ UNCHANGED <<tenant, cached, queue, ids, crashes, forced>>
    BY <1>2 DEF DeleteJobs, JobsOf
  <2>2. CASE DeleteBatch(JobsOf(q)) /\ UNCHANGED op /\ Overtakes(late)
    BY <2>1, <2>2, JobsDeleted DEF Overtakes
  <2>3. CASE JobsOf(q) = {} /\ Goes(p, "row") /\ UNCHANGED <<job, overtaken>>
    <3> DEFINE o == [op[p] EXCEPT !.pc = "row"]
    <3>1. op[p].pc = "jobs" /\ op' = [op EXCEPT ![p] = o]
      BY <1>2, <2>3 DEF DeleteJobs, At, Goes
    <3>2. \A j \in Jobs : Home[j] = q => ~Present(j)
      BY <2>3 DEF JobsOf
    <3>3. o \in Op /\ Fit(o) /\ (~overtaken => Barred(o))
      BY <1>1, <3>1, <3>2 DEF Op, Fit, Barred
    <3> QED BY <2>1, <2>3, <3>1, <3>3, HandStepped
  <2> QED BY <1>2, <2>2, <2>3 DEF DeleteJobs
<1>3. ASSUME DeleteRow(p) PROVE \E o \in Op : Stepped(p, o)
  <2> DEFINE q == op[p].q
             late == queue[q].status = "active"
  <2>1. op[p].pc = "row" /\ q \in Queues /\ late \in BOOLEAN
    BY <1>1, <1>3 DEF DeleteRow, At, Fit
  <2>2. ~overtaken => \A j \in Jobs : Home[j] = q => ~Present(j)
    BY <1>1, <2>1 DEF Barred
  <2>3. Through(p) \in Op /\ Fit(Through(p)) /\ (~overtaken => Barred(Through(p)))
    BY <2>1, ThroughGood
  <2>4. PICK o \in Op : o = Through(p)
    BY <2>3
  <2>5. Fit(o) /\ (~overtaken => Barred(o)) /\ op' = [op EXCEPT ![p] = o]
    BY <1>3, <2>3, <2>4 DEF DeleteRow, Becomes
  <2>6. queue' = [queue EXCEPT ![q] = NoRow] /\ overtaken' = (overtaken \/ late)
        /\ UNCHANGED <<tenant, cached, ids, job, crashes, forced>>
    BY <1>3 DEF DeleteRow, Overtakes
  <2> HIDE DEF late
  <2> QED BY <2>1, <2>2, <2>5, <2>6, RowDeleted
<1> QED BY <1>2, <1>3

\* The steps that leave queues and jobs alone.
LEMMA TenantStepped ==
  ASSUME IInv, NEW p \in Procs, NEW o \in Op, op' = [op EXCEPT ![p] = o],
         UNCHANGED <<queue, ids, job, forced>>,
         tenant' \in {"none", "active", "deleting"}, cached' \subseteq Instances,
         crashes' \in 0..CrashBound, overtaken' \in BOOLEAN, overtaken => overtaken',
         Fit(o), ~overtaken => Barred(o)
  PROVE  Stepped(p, o)
<1> USE DEF IInv, Typed, Stored
<1>1. Stored' /\ ids <= ids' /\ Fit(o)'
  BY LifecycleAssumption DEF Fit
<1>2. ASSUME ~overtaken' PROVE Mild /\ Barred(o)'
  <2>1. Mild
    BY <1>2, LifecycleAssumption, Zenon DEF Mild, NoOrphans, Present
  <2>2. Barred(o)'
    BY <1>2 DEF Barred, Present
  <2> QED BY <2>1, <2>2
<1> QED BY <1>1, <1>2 DEF Stepped

\* The first and the last step of the deletion of the tenant.
LEMMA TenantRequests ==
  ASSUME IInv, NEW p \in Procs,
         (\E i \in Instances : DeleteTenant(p, i)) \/ MarkTenant(p) \/ DropTenant(p)
  PROVE  \E o \in Op : Stepped(p, o)
<1> USE DEF IInv, Typed, Stored
<1>1. op[p] \in Op /\ Fit(op[p]) /\ (~overtaken => Barred(op[p]))
  OBVIOUS
<1>2. ASSUME NEW i \in Instances, DeleteTenant(p, i) PROVE \E o \in Op : Stepped(p, o)
  <2> DEFINE o == [Idle EXCEPT !.pc = "close"]
  <2>1. o \in Op /\ Fit(o) /\ Barred(o)
    BY IdleGood DEF Idle, Op, Fit, Barred
  <2> QED BY <1>2, <2>1, TenantStepped DEF DeleteTenant, Becomes
<1>3. ASSUME MarkTenant(p) PROVE \E o \in Op : Stepped(p, o)
  <2> DEFINE o == [op[p] EXCEPT !.pc = "list"]
             late == tenant # "active"
  <2>1. op[p].pc = "close"
    BY <1>3 DEF MarkTenant, At
  <2>2. o \in Op /\ Fit(o) /\ (~overtaken => Barred(o))
    BY <1>1, <2>1 DEF Op, Fit, Barred
  <2>3. overtaken' \in BOOLEAN /\ (overtaken => overtaken')
    <3>1. overtaken' = (overtaken \/ late)
      BY <1>3 DEF MarkTenant, Overtakes
    <3> HIDE DEF late
    <3> QED BY <3>1
  <2> QED BY <1>3, <2>2, <2>3, TenantStepped DEF MarkTenant, Goes
<1>4. ASSUME DropTenant(p) PROVE \E o \in Op : Stepped(p, o)
  <2> DEFINE late == tenant = "active"
  <2>1. overtaken' \in BOOLEAN /\ (overtaken => overtaken')
    <3>1. overtaken' = (overtaken \/ late)
      BY <1>4 DEF DropTenant, Overtakes
    <3> HIDE DEF late
    <3> QED BY <3>1
  <2> QED BY <1>4, <2>1, IdleGood, TenantStepped DEF DropTenant, Becomes
<1> QED BY <1>2, <1>3, <1>4

\* The cascade of the tenant lists the queues and deletes the jobs.
LEMMA TenantCascade ==
  ASSUME IInv, NEW p \in Procs, ListQueues(p) \/ DeleteAllJobs(p)
  PROVE  \E o \in Op : Stepped(p, o)
<1> USE DEF IInv, Typed, Stored
<1>1. op[p] \in Op /\ Fit(op[p]) /\ (~overtaken => Barred(op[p]))
  OBVIOUS
<1>2. ASSUME ListQueues(p) PROVE \E o \in Op : Stepped(p, o)
  <2> DEFINE rows == {e \in Listed : e.row = queue[e.q] /\ e.row # NoRow}
             marks == {e \in rows : e.row.status # "deleting"}
             o == [Idle EXCEPT !.pc = "tenant", !.rest = rows, !.todo = marks]
  <2>1. \A e \in rows : e.q \in Queues /\ e.row = queue[e.q] /\ e.row # NoRow /\ e.row.id <= ids
    BY DEF Listed
  <2>2. rows \in SUBSET Listed /\ marks \in SUBSET rows
    OBVIOUS
  <2>3. \A e \in rows : e \notin marks => queue[e.q].status # "active"
    BY <2>1
  <2>4. UNCHANGED <<tenant, cached, queue, ids, job, crashes, forced, overtaken>>
        /\ op' = [op EXCEPT ![p] = o]
    BY <1>2 DEF ListQueues, Becomes
  <2> HIDE DEF rows, marks
  <2>5. o \in Op
    BY <2>2, IdleGood DEF Op, Idle
  <2>6. Fit(o)
    BY <2>1, <2>2, IdleGood, LifecycleAssumption DEF Fit, Idle
  <2>7. Barred(o)
    BY <2>1, <2>2, <2>3 DEF Barred, Idle
  <2> QED BY <2>4, <2>5, <2>6, <2>7, HandStepped
<1>3. ASSUME DeleteAllJobs(p) PROVE \E o \in Op : Stepped(p, o)
  <2> DEFINE all == {j \in Jobs : Present(j)}
             late == tenant # "deleting"
  <2>1. all \in SUBSET Jobs /\ late \in BOOLEAN /\ op[p].pc = "tenant" /\ op[p].todo = {}
        /\ UNCHANGED <<tenant, cached, queue, ids, crashes, forced>>
    BY <1>3 DEF DeleteAllJobs, At
  <2>2. CASE DeleteBatch(all) /\ UNCHANGED op /\ Overtakes(late)
    BY <2>1, <2>2, JobsDeleted DEF Overtakes
  <2>3. CASE all = {} /\ Goes(p, "rows") /\ UNCHANGED <<job, overtaken>>
    <3> DEFINE o == [op[p] EXCEPT !.pc = "rows"]
    <3>1. \A j \in Jobs : ~Present(j)
      BY <2>3
    <3>2. o \in Op /\ Fit(o) /\ (~overtaken => Barred(o))
      BY <1>1, <2>1, <3>1 DEF Op, Fit, Barred
    <3> QED BY <2>1, <2>3, <3>2, HandStepped DEF Goes
  <2> QED BY <1>3, <2>2, <2>3 DEF DeleteAllJobs
<1> QED BY <1>2, <1>3

\* It marks the queues it has listed, and deletes their rows.
LEMMA TenantRows ==
  ASSUME IInv, NEW p \in Procs, TenantMarks(p) \/ TenantDeletesRow(p)
  PROVE  \E o \in Op : Stepped(p, o)
<1> USE DEF IInv, Typed, Stored
<1>1. op[p] \in Op /\ Fit(op[p]) /\ (~overtaken => Barred(op[p]))
  OBVIOUS
<1>2. /\ op[p].rest \in SUBSET Listed /\ op[p].todo \in SUBSET op[p].rest
      /\ \A e \in op[p].rest : e.q \in Queues /\ e.row \in QueueRow /\ e.row.id <= ids
      /\ \A e \in op[p].todo : e.row # NoRow
  BY <1>1 DEF Op, Fit, Listed
<1>3. ASSUME TenantMarks(p) PROVE \E o \in Op : Stepped(p, o)
  <2>1. PICK e \in op[p].todo :
          /\ SaveRow(e.q, Deleting(e.row))
          /\ op' = [op EXCEPT ![p].todo = @ \ {e}]
          /\ Overtakes(Saved(e.q, e.row) /\ (queue[e.q] # e.row \/ tenant # "deleting"))
    BY <1>3 DEF TenantMarks
  <2> DEFINE left == op[p].todo \ {e}
             late == Saved(e.q, e.row) /\ (queue[e.q] # e.row \/ tenant # "deleting")
  <2>2. PICK o \in Op : o = [op[p] EXCEPT !.todo = left]
    <3>1. left \in SUBSET Listed
      BY <1>2
    <3> HIDE DEF left
    <3> QED BY <1>1, <3>1 DEF Op
  <2>3. /\ op' = [op EXCEPT ![p] = o] /\ op[p].pc = "tenant" /\ o.pc = "tenant" /\ o.todo = left
        /\ o.rest = op[p].rest /\ o.row = op[p].row /\ o.job = op[p].job /\ o.q = op[p].q
    BY <1>1, <1>3, <2>1, <2>2 DEF TenantMarks, At, Op
  <2>4. UNCHANGED <<tenant, cached, ids, job, crashes, forced>> /\ overtaken' = (overtaken \/ late)
    BY <1>3, <2>1 DEF TenantMarks, Overtakes
  <2>5. /\ queue' \in [Queues -> QueueRow]
        /\ \A r \in Queues : queue'[r].id <= ids'
        /\ Saved(e.q, e.row) => queue'[e.q] = Deleting(e.row)
        /\ ~overtaken /\ (Saved(e.q, e.row) => queue[e.q] = e.row) => Mild
    BY <1>2, <2>1, <2>4, RowMarked
  <2>6. Stored' /\ ids <= ids' /\ (overtaken => overtaken')
    <3>1. overtaken' \in BOOLEAN /\ (overtaken => overtaken')
      <4> HIDE DEF late
      <4> QED BY <2>4
    <3> QED BY <2>4, <2>5, <3>1, LifecycleAssumption
  <2>7. Fit(o)'
    BY <1>1, <1>2, <2>3, <2>4 DEF Fit
  <2>8. ASSUME ~overtaken' PROVE Mild /\ Barred(o)'
    <3>1. ~overtaken /\ (Saved(e.q, e.row) => queue[e.q] = e.row)
      BY <2>4, <2>8
    <3>2. Mild /\ Barred(op[p])
      BY <1>1, <2>5, <3>1
    <3>3. \A d \in op[p].rest : Cascading(d.q)
      BY DEF Cascading
    <3>4. Saved(e.q, e.row)
      BY <3>2 DEF Barred, Saved
    <3>5. queue'[e.q].status # "active"
      <4>1. e.row.id \in 1..IdBound /\ e.row = [id |-> e.row.id, status |-> e.row.status]
        BY <1>2 DEF QueueRow
      <4> QED BY <2>5, <3>4, <4>1 DEF Deleting
    <3>6. \A d \in op[p].rest : d \notin op[p].todo => queue'[d.q].status # "active"
      BY <1>2, <3>2, <3>3 DEF Barred, Mild
    <3>7. \A d \in op[p].todo : queue'[d.q].id \in {0, d.row.id}
      <4> SUFFICES ASSUME NEW d \in op[p].todo PROVE queue'[d.q].id \in {0, d.row.id}
        OBVIOUS
      <4>1. queue'[d.q].id \in {0, queue[d.q].id} /\ queue[d.q].id \in {0, d.row.id}
        BY <1>2, <3>2, <3>3 DEF Barred, Mild
      <4> QED BY <4>1
    <3> QED BY <2>3, <3>2, <3>5, <3>6, <3>7 DEF Barred
  <2> QED BY <2>3, <2>6, <2>7, <2>8 DEF Stepped
<1>4. ASSUME TenantDeletesRow(p) PROVE \E o \in Op : Stepped(p, o)
  <2>1. PICK e \in op[p].rest :
          /\ queue' = [queue EXCEPT ![e.q] = NoRow]
          /\ op' = [op EXCEPT ![p].rest = @ \ {e}]
          /\ Overtakes(queue[e.q].status = "active")
    BY <1>4 DEF TenantDeletesRow
  <2> DEFINE left == op[p].rest \ {e}
             late == queue[e.q].status = "active"
  <2>2. PICK o \in Op : o = [op[p] EXCEPT !.rest = left]
    <3>1. left \in SUBSET Listed
      BY <1>2
    <3> HIDE DEF left
    <3> QED BY <1>1, <3>1 DEF Op
  <2>3. /\ op' = [op EXCEPT ![p] = o] /\ op[p].pc = "rows" /\ o.pc = "rows" /\ o.rest = left
        /\ o.todo = op[p].todo /\ o.row = op[p].row /\ o.job = op[p].job /\ o.q = op[p].q
    BY <1>1, <1>4, <2>1, <2>2 DEF TenantDeletesRow, At, Op
  <2>4. o.todo = {}
    BY <1>1, <2>3 DEF Fit
  <2>5. Fit(o) /\ (~overtaken => Barred(o))
    BY <1>1, <2>3, <2>4 DEF Fit, Barred
  <2>6. ~overtaken => \A j \in Jobs : Home[j] = e.q => ~Present(j)
    BY <1>1, <2>3 DEF Barred
  <2>7. overtaken' = (overtaken \/ late) /\ late \in BOOLEAN
        /\ UNCHANGED <<tenant, cached, ids, job, crashes, forced>>
    BY <1>4, <2>1 DEF TenantDeletesRow, Overtakes
  <2> HIDE DEF late
  <2> QED BY <1>2, <2>1, <2>3, <2>5, <2>6, <2>7, RowDeleted
<1> QED BY <1>3, <1>4

\* The maintenance task resumes only what it has found being deleted.
LEMMA Resumption ==
  ASSUME IInv, ListDeleting \/ ResumeQueue \/ ResumeTenant
  PROVE  \E o \in Op : Stepped(Maintenance, o)
<1> USE DEF IInv, Typed, Stored
<1> DEFINE p == Maintenance
<1>1. p \in Procs /\ op[p] \in Op /\ Fit(op[p]) /\ (~overtaken => Barred(op[p]))
  BY DEF Procs
<1>2. ASSUME ListDeleting PROVE \E o \in Op : Stepped(p, o)
  <2> DEFINE rows == {e \in Listed : e.row = queue[e.q] /\ e.row.status = "deleting"}
             o == [Idle EXCEPT !.pc = "resume", !.rest = rows]
  <2>1. \A e \in rows : e.q \in Queues /\ queue[e.q].status = "deleting" /\ e.row.id <= ids
    BY DEF Listed
  <2>2. rows \in SUBSET Listed
    OBVIOUS
  <2>3. UNCHANGED <<tenant, cached, queue, ids, job, crashes, forced, overtaken>>
        /\ op' = [op EXCEPT ![p] = o]
    BY <1>2 DEF ListDeleting, Becomes
  <2> HIDE DEF rows
  <2>4. o \in Op /\ Fit(o) /\ Barred(o)
    BY <2>1, <2>2, IdleGood DEF Op, Fit, Barred, Idle
  <2> QED BY <1>1, <2>3, <2>4, HandStepped
<1>3. ASSUME ResumeQueue PROVE \E o \in Op : Stepped(p, o)
  <2>1. PICK e \in op[p].rest :
          op' = [op EXCEPT ![p] = [op[p] EXCEPT !.pc = "jobs", !.q = e.q, !.rest = @ \ {e}]]
    BY <1>3 DEF ResumeQueue, Becomes
  <2> DEFINE left == op[p].rest \ {e}
             o == [op[p] EXCEPT !.pc = "jobs", !.q = e.q, !.rest = left]
  <2>2. op[p].pc = "resume" /\ op[p].todo = {} /\ op[p].job = None
        /\ UNCHANGED <<tenant, cached, queue, ids, job, crashes, forced, overtaken>>
    BY <1>1, <1>3 DEF ResumeQueue, At, Fit, Op
  <2>3. e \in Listed /\ left \in SUBSET Listed
    BY <1>1 DEF Op
  <2> HIDE DEF left
  <2>4. o \in Op /\ o.pc = "jobs" /\ o.q = e.q /\ o.rest = left /\ o.todo = {} /\ o.job = None
        /\ o.row = op[p].row
    BY <1>1, <2>2, <2>3 DEF Op, Listed
  <2> USE DEF left
  <2>5. Fit(o) /\ (~overtaken => Barred(o))
    BY <1>1, <2>2, <2>3, <2>4, LifecycleAssumption DEF Fit, Barred, Listed
  <2>6. op' = [op EXCEPT ![p] = o]
    BY <2>1
  <2> QED BY <1>1, <2>2, <2>4, <2>5, <2>6, HandStepped
<1>4. ASSUME ResumeTenant PROVE \E o \in Op : Stepped(p, o)
  <2> DEFINE o == [Idle EXCEPT !.pc = "list"]
  <2>1. o \in Op /\ Fit(o) /\ Barred(o)
    BY IdleGood DEF Idle, Op, Fit, Barred
  <2> QED BY <1>1, <1>4, <2>1, IdleGood, HandStepped DEF ResumeTenant, Becomes
<1> QED BY <1>2, <1>3, <1>4

\* The steps that change no queue and belong to no cascade, or to a process
\* that dies.
LEMMA Surroundings ==
  ASSUME IInv,
         \/ \E i \in Instances : EnsureTenant(i) \/ GetTenant(i)
         \/ \E p \in Procs : Crash(p)
         \/ UNCHANGED vars
  PROVE  \E p \in Procs, o \in Op : Stepped(p, o)
<1> USE DEF IInv, Typed, Stored
<1> DEFINE p == Maintenance
<1>1. PICK o \in Op : p \in Procs /\ o = op[p] /\ Fit(o) /\ (~overtaken => Barred(o))
  BY DEF Procs
<1>2. UNCHANGED op => op' = [op EXCEPT ![p] = o]
  BY <1>1
<1>3. ASSUME NEW i \in Instances, EnsureTenant(i) PROVE Stepped(p, o)
  <2> DEFINE late == tenant = "deleting" \/ TenantCascading
  <2>1. overtaken' \in BOOLEAN /\ (overtaken => overtaken')
    <3>1. overtaken' = (overtaken \/ late) /\ late \in BOOLEAN
      BY <1>3 DEF EnsureTenant, Overtakes, TenantCascading
    <3> HIDE DEF late
    <3> QED BY <3>1
  <2>2. /\ UNCHANGED <<queue, ids, job, op, crashes, forced>>
        /\ tenant' = "active" /\ cached' = cached \cup {i}
    BY <1>3 DEF EnsureTenant
  <2> QED BY <1>1, <1>2, <2>1, <2>2, TenantStepped
<1>4. ASSUME NEW i \in Instances, GetTenant(i) PROVE Stepped(p, o)
  BY <1>1, <1>2, <1>4, TenantStepped DEF GetTenant
<1>5. ASSUME NEW r \in Procs, Crash(r) PROVE Stepped(r, Idle)
  <2>1. crashes' \in 0..CrashBound /\ cached' \subseteq Instances
    BY <1>5, LifecycleAssumption DEF Crash
  <2> QED BY <1>5, <2>1, IdleGood, TenantStepped DEF Crash, Becomes
<1>6. ASSUME UNCHANGED vars PROVE Stepped(p, o)
  BY <1>1, <1>2, <1>6, HandStepped DEF vars
<1> QED BY <1>1, <1>3, <1>4, <1>5, <1>6, IdleGood

\* Every step is a good one.
LEMMA NextStepped ==
  ASSUME IInv, [Next]_vars
  PROVE  \E p \in Procs, o \in Op : Stepped(p, o)
<1>1. ASSUME NEW p \in Procs, CascadeStep(p) PROVE \E o \in Op : Stepped(p, o)
  BY <1>1, QueueCascade, TenantCascade, TenantRows, TenantRequests DEF CascadeStep
<1>2. ASSUME NEW p \in Requests, Handle(p) PROVE \E o \in Op : Stepped(p, o)
  <2>1. p \in Procs
    BY DEF Procs
  <2>2. CASE \/ \E j \in Jobs : Enqueue(p, j) \/ SettleRead(p, j) \/ RetryRead(p, j)
             \/ \E q \in Queues : UpsertQueue(p, q)
             \/ EnsureFind(p) \/ NackFind(p)
    BY <2>1, <2>2, HandlerReads
  <2>3. CASE EnsureCreate(p)
    BY <2>1, <2>3, RowCreated
  <2>4. CASE Insert(p) \/ PublishSave(p) \/ SettleSave(p) \/ RetrySave(p)
    BY <2>1, <2>4, JobSaves
  <2>5. CASE \/ \E q \in Queues, force \in BOOLEAN : DeleteQueue(p, q, force)
             \/ CountActive(p) \/ MarkQueue(p) \/ ForceCancel(p)
    BY <2>1, <2>5, DeleteRequests
  <2>6. CASE (\E i \in Instances : DeleteTenant(p, i)) \/ MarkTenant(p)
    BY <2>1, <2>6, TenantRequests
  <2> QED BY <1>2, <2>2, <2>3, <2>4, <2>5, <2>6 DEF Handle, RequestDeleteQueue
<1>3. Requests \subseteq Procs /\ Schedulers \subseteq Procs /\ Maintenance \in Procs
  BY DEF Procs
<1>4. ASSUME Maintain PROVE \E o \in Op : Stepped(Maintenance, o)
  BY <1>1, <1>3, <1>4, Resumption DEF Maintain
<1>5. CASE \E p \in Requests : Handle(p) \/ CascadeStep(p)
  BY <1>1, <1>2, <1>3, <1>5
<1>6. CASE Maintain
  BY <1>3, <1>4, <1>6
<1>7. CASE \/ \E i \in Instances : EnsureTenant(i) \/ GetTenant(i)
           \/ \E p \in Procs : Crash(p)
           \/ UNCHANGED vars
  BY <1>7, Surroundings
<1>8. CASE \E p \in Schedulers : PublishDueScheduled(p)
  BY <1>3, <1>8, SchedulerReads, JobSaves DEF PublishDueScheduled
<1>9. CASE PurgeTerminalJobs
  BY <1>9, Purged
<1> QED BY <1>5, <1>6, <1>7, <1>8, <1>9 DEF Next

\* The invariant holds from the first state on.
LEMMA Invariant == Spec => []IInv
<1>1. Init => IInv
  <2> SUFFICES ASSUME Init PROVE IInv
    OBVIOUS
  <2>1. NoRow \in QueueRow /\ NoRow.id = 0 /\ 0 \in 0..IdBound /\ 0 \in 0..CrashBound
    BY LifecycleAssumption DEF NoRow, QueueRow
  <2>2. Stored
    <3>1. overtaken \in BOOLEAN
      BY DEF Init
    <3>2. queue \in [Queues -> QueueRow] /\ \A q \in Queues : queue[q].id <= ids
      BY <2>1 DEF Init
    <3>3. job \in [Jobs -> JobStatus]
      BY DEF Init, JobStatus
    <3> QED BY <2>1, <3>1, <3>2, <3>3 DEF Init, Stored
  <2>3. NoOrphans
    BY DEF Init, NoOrphans, Present
  <2>4. Idle \in Op /\ Fit(Idle) /\ Barred(Idle)
    BY <2>1, LifecycleAssumption DEF Init, Idle, Op, Fit, Barred
  <2>5. op = [p \in Procs |-> Idle]
    BY DEF Init
  <2> QED BY <2>2, <2>3, <2>4, <2>5 DEF IInv, Typed
<1>2. IInv /\ [Next]_vars => IInv'
  BY NextStepped, SteppedKeeps
<1> QED BY <1>1, <1>2, PTL DEF Spec

\* The rows, the caches and what every handler and cascade has in hand are well
\* formed, for any number of queues, jobs, requests and server instances.
THEOREM LifecycleTypes == Spec => []TypeOK
<1>1. IInv => TypeOK
  BY TypedMeans DEF IInv
<1> QED BY <1>1, Invariant, PTL

\* cascadeQueue and cascadeTenant delete the row of a queue only after its
\* jobs: whichever of them run at once, die and are resumed, every job keeps
\* its queue until a handler, the scheduler loop or a cascade writes past what
\* it had checked or listed.
THEOREM JobsHaveTheirQueue == Spec => []NoOrphans
<1>1. IInv => NoOrphans
  BY DEF IInv
<1> QED BY <1>1, Invariant, PTL

-----------------------------------------------------------------------------
(* Deletion by force, and the end of a tenant *)

\* CountActiveByQueue has refused a deletion without force of a queue with
\* active jobs.
Certain(o) == o.pc = "mark" /\ ~o.force => ~o.busy

\* Until the cascade of a tenant ends, what is left of the tenant is on its
\* list of queues.
Emptied(o) ==
  /\ o.pc \in {"list", "tenant", "rows"} => tenant # "active"
  /\ o.pc \in {"tenant", "rows"} /\ tenant = "deleting" =>
       \A q \in Queues : queue[q] # NoRow => \E e \in o.rest : e.q = q
  /\ o.pc = "rows" /\ tenant = "deleting" => \A j \in Jobs : ~Present(j)

\* A queue with active jobs is being deleted only with its tenant or by force.
Meant(j) ==
  job[j] = "active" /\ queue[Home[j]].status = "deleting" => tenant = "deleting" \/ Home[j] \in forced

CInv ==
  /\ \A p \in Procs : Certain(op[p])
  /\ ~overtaken => (\A p \in Procs : Emptied(op[p])) /\ \A j \in Jobs : Meant(j)

\* A step that adds nothing to a tenant that is being deleted.
Gentle ==
  /\ tenant' = tenant
  /\ tenant = "deleting" =>
       /\ \A q \in Queues : queue'[q] # NoRow => queue[q] # NoRow
       /\ \A j \in Jobs : Present(j)' => Present(j)
Others(p) == \A r \in Procs : r # p => op'[r] = op[r]

LEMMA GentleStays ==
  ASSUME Gentle, NEW r \in Procs, op'[r] = op[r], Emptied(op[r])
  PROVE  Emptied(op[r])'
BY DEF Gentle, Emptied

LEMMA GentleKeeps ==
  ASSUME CInv, NEW p \in Procs, Others(p), overtaken => overtaken', Certain(op[p])',
         ~overtaken' => Gentle /\ Emptied(op[p])' /\ \A j \in Jobs : Meant(j)'
  PROVE  CInv'
<1>1. ASSUME NEW r \in Procs PROVE Certain(op[r])'
  <2>1. CASE r = p
    BY <2>1
  <2>2. CASE r # p
    BY <2>2 DEF Others, CInv, Certain
  <2> QED BY <2>1, <2>2
<1>2. ASSUME ~overtaken', NEW r \in Procs PROVE Emptied(op[r])'
  <2>1. CASE r = p
    BY <1>2, <2>1
  <2>2. CASE r # p
    BY <1>2, <2>2, GentleStays DEF Others, CInv
  <2> QED BY <2>1, <2>2
<1> QED BY <1>1, <1>2 DEF CInv

\* A step of a process that is not in a tenant's cascade.
LEMMA PlainKeeps ==
  ASSUME CInv, NEW p \in Procs, Others(p), overtaken => overtaken',
         op'[p].pc \notin {"mark", "list", "tenant", "rows"},
         ~overtaken' => Gentle /\ \A j \in Jobs : Meant(j)'
  PROVE  CInv'
<1>1. Certain(op[p])' /\ Emptied(op[p])'
  BY DEF Certain, Emptied
<1> QED BY <1>1, GentleKeeps

\* A step that only reads.
LEMMA ReadKeeps ==
  ASSUME CInv, NEW p \in Procs, Others(p), UNCHANGED <<tenant, queue, job, forced, overtaken>>,
         Certain(op[p])', ~overtaken => Emptied(op[p])'
  PROVE  CInv'
<1>1. Gentle
  BY DEF Gentle, Present
<1>2. ~overtaken => \A j \in Jobs : Meant(j)'
  BY DEF CInv, Meant
<1> QED BY <1>1, <1>2, GentleKeeps

LEMMA PlainReadKeeps ==
  ASSUME CInv, NEW p \in Procs, Others(p), UNCHANGED <<tenant, queue, job, forced, overtaken>>,
         op'[p].pc \notin {"mark", "list", "tenant", "rows"}
  PROVE  CInv'
<1>1. Certain(op[p])' /\ Emptied(op[p])'
  BY DEF Certain, Emptied
<1> QED BY <1>1, ReadKeeps

\* What Becomes and Goes do.
LEMMA Hand ==
  ASSUME IInv, NEW p \in Procs
  PROVE  /\ \A o : Becomes(p, o) => Others(p) /\ op'[p] = o
         /\ \A c : Goes(p, c) =>
              /\ Others(p) /\ op'[p].pc = c
              /\ op'[p].rest = op[p].rest /\ op'[p].todo = op[p].todo
<1>1. op \in [Procs -> Op]
  BY DEF IInv, Typed
<1> QED BY <1>1 DEF Becomes, Goes, Others, Op

LEMMA HandlersKeep ==
  ASSUME IInv, CInv, NEW p \in Procs,
         \/ \E j \in Jobs : Enqueue(p, j) \/ SettleRead(p, j) \/ RetryRead(p, j)
         \/ \E q \in Queues : UpsertQueue(p, q)
         \/ EnsureFind(p) \/ NackFind(p)
         \/ \E q \in Queues, force \in BOOLEAN : DeleteQueue(p, q, force)
         \/ \E i \in Instances : DeleteTenant(p, i)
         \/ Crash(p)
  PROVE  CInv'
<1>1. UNCHANGED <<tenant, queue, job, forced, overtaken>>
  BY DEF Enqueue, SettleRead, RetryRead, UpsertQueue, EnsureFind, NackFind, DeleteQueue, DeleteTenant, Crash
<1>2. Idle.pc = "idle" /\ \A c : [Idle EXCEPT !.pc = c].pc = c
  BY DEF Idle
<1>3. CASE EnsureFind(p)
  <2>1. Becomes(p, Idle) \/ Goes(p, "create") \/ Goes(p, "insert")
    <3>1. queue[op[p].q].status \in {"none", "active", "deleting"}
      BY <1>3 DEF IInv, Typed, Stored, QueueRow, NoRow, Fit, EnsureFind, At
    <3> QED BY <1>3, <3>1 DEF EnsureFind, Ensured
  <2> QED BY <1>1, <1>2, <2>1, Hand, PlainReadKeeps
<1>4. CASE Crash(p)
  BY <1>1, <1>2, <1>4, Hand, PlainReadKeeps DEF Crash
<1>5. ASSUME NEW o, Becomes(p, o), o.pc \in {"ensure", "settle", "retry", "count", "close"}
      PROVE  CInv'
  BY <1>1, <1>5, Hand, PlainReadKeeps
<1>6. ASSUME NEW j \in Jobs, Enqueue(p, j) PROVE CInv'
  <2>1. [Idle EXCEPT !.pc = "ensure", !.q = Home[j], !.job = j].pc = "ensure"
    BY DEF Idle
  <2> QED BY <1>5, <1>6, <2>1 DEF Enqueue
<1>7. ASSUME NEW j \in Jobs, SettleRead(p, j) PROVE CInv'
  <2>1. [Idle EXCEPT !.pc = "settle", !.q = Home[j], !.job = j].pc = "settle"
    BY DEF Idle
  <2> QED BY <1>5, <1>7, <2>1 DEF SettleRead
<1>8. ASSUME NEW q \in Queues, UpsertQueue(p, q) PROVE CInv'
  <2>1. [Idle EXCEPT !.pc = "ensure", !.q = q].pc = "ensure"
    BY DEF Idle
  <2> QED BY <1>5, <1>8, <2>1 DEF UpsertQueue
<1>9. ASSUME NEW q \in Queues, NEW force \in BOOLEAN, DeleteQueue(p, q, force) PROVE CInv'
  <2>1. [Idle EXCEPT !.pc = "count", !.q = q, !.row = queue[q], !.force = force].pc = "count"
    BY DEF Idle
  <2> QED BY <1>5, <1>9, <2>1 DEF DeleteQueue
<1>10. ASSUME NEW i \in Instances, DeleteTenant(p, i) PROVE CInv'
  <2>1. [Idle EXCEPT !.pc = "close"].pc = "close"
    BY DEF Idle
  <2> QED BY <1>5, <1>10, <2>1 DEF DeleteTenant
<1>11. ASSUME NEW j \in Jobs, RetryRead(p, j) PROVE CInv'
  <2>1. [Idle EXCEPT !.pc = "retry", !.q = Home[j], !.job = j].pc = "retry"
    BY DEF Idle
  <2> QED BY <1>5, <1>11, <2>1 DEF RetryRead
<1>12. CASE NackFind(p)
  <2>1. Becomes(p, Idle) \/ Goes(p, "publish")
    BY <1>12 DEF NackFind
  <2> QED BY <1>1, <1>2, <2>1, Hand, PlainReadKeeps
<1> QED BY <1>3, <1>4, <1>6, <1>7, <1>8, <1>9, <1>10, <1>11, <1>12

\* The scheduler loop reads.
LEMMA SchedulerKeeps ==
  ASSUME IInv, CInv, NEW p \in Procs,
         (\E due \in SUBSET Jobs : FindDueScheduled(p, due)) \/ NextDue(p)
  PROVE  CInv'
<1>1. UNCHANGED <<tenant, queue, job, forced, overtaken>>
  BY DEF FindDueScheduled, NextDue
<1>2. \A due : Left(due).pc \in {"idle", "due"}
  BY DEF Left, Idle
<1>3. \A j, due : [Idle EXCEPT !.pc = "promote", !.q = Home[j], !.job = j, !.due = due].pc = "promote"
  BY DEF Idle
<1>4. \E o : Becomes(p, o) /\ o.pc \in {"idle", "due", "promote"}
  BY <1>2, <1>3 DEF FindDueScheduled, NextDue
<1> QED BY <1>1, <1>4, Hand, PlainReadKeeps

\* A job is written: it was active before, or its queue is not being deleted,
\* unless the step is late.
LEMMA SavesKeep ==
  ASSUME IInv, CInv, NEW p \in Procs,
         Insert(p) \/ PublishSave(p) \/ SettleSave(p) \/ RetrySave(p) \/ Promote(p)
  PROVE  CInv'
<1> DEFINE x == op[p].job
<1>1. op[p].pc \in {"insert", "publish", "settle", "retry", "promote"}
  BY DEF Insert, PublishSave, SettleSave, RetrySave, Promote, At
<1>2. x \in Jobs /\ op[p].q = Home[x] /\ Home[x] \in Queues /\ job \in [Jobs -> JobStatus]
  BY <1>1, LifecycleAssumption DEF IInv, Typed, Stored, Fit
<1>3. UNCHANGED <<tenant, queue, forced>> /\ (overtaken => overtaken')
  <2>1. UNCHANGED <<tenant, queue, forced>>
    BY DEF Insert, PublishSave, SettleSave, RetrySave, Promote
  <2>2. (\E late : Overtakes(late)) \/ overtaken' = overtaken
    BY DEF Insert, PublishSave, SettleSave, RetrySave, Promote
  <2>3. overtaken => overtaken'
    BY <2>2, Zenon DEF Overtakes
  <2> QED BY <2>1, <2>3
<1>4. Others(p) /\ op'[p].pc \in {"idle", "publish", "find", "due"}
  <2>1. \/ Becomes(p, Idle) \/ Becomes(p, Left(op[p].due))
        \/ Goes(p, "publish") \/ Goes(p, "find")
    BY DEF Insert, PublishSave, SettleSave, RetrySave, Promote
  <2>2. Idle.pc = "idle" /\ \A due : Left(due).pc \in {"idle", "due"}
    BY DEF Left, Idle
  <2> QED BY <2>1, <2>2, Hand
<1>5. \/ UNCHANGED <<job, overtaken>>
      \/ \E s : job' = [job EXCEPT ![x] = s]
  BY DEF Insert, PublishSave, SettleSave, RetrySave, Promote
<1>6. \/ UNCHANGED <<job, overtaken>>
      \/ ~overtaken' => ~overtaken /\ (Writable(op[p].q) \/ job[x] = "active")
  BY DEF Insert, PublishSave, SettleSave, RetrySave, Promote, Overtakes
<1> HIDE DEF x
<1>7. CASE UNCHANGED <<job, overtaken>>
  BY <1>3, <1>4, <1>7, PlainReadKeeps
<1>8. ASSUME NEW s, job' = [job EXCEPT ![x] = s],
             ~overtaken' => ~overtaken /\ (Writable(op[p].q) \/ job[x] = "active")
      PROVE  CInv'
  <2>1. ASSUME ~overtaken' PROVE Gentle /\ \A j \in Jobs : Meant(j)'
    <3>1. \A j \in Jobs : j # x => job'[j] = job[j]
      BY <1>2, <1>8
    <3>2. \/ tenant # "deleting" /\ queue[Home[x]].status = "active"
          \/ job[x] = "active"
      BY <1>2, <1>8, <2>1 DEF Writable
    <3>3. Gentle
      BY <1>3, <3>1, <3>2 DEF Gentle, Present
    <3>4. ASSUME NEW j \in Jobs PROVE Meant(j)'
      <4>1. Meant(j)
        BY <1>8, <2>1 DEF CInv
      <4>2. CASE j = x
        BY <1>3, <3>2, <4>1, <4>2 DEF Meant
      <4>3. CASE j # x
        BY <1>3, <3>1, <4>1, <4>3 DEF Meant
      <4> QED BY <4>2, <4>3
    <3> QED BY <3>3, <3>4
  <2> QED BY <1>3, <1>4, <2>1, PlainKeeps
<1> QED BY <1>5, <1>6, <1>7, <1>8

\* Jobs that end or go leave everything as it was meant.
LEMMA JobsEnd ==
  ASSUME CInv, ~overtaken, UNCHANGED <<tenant, queue, forced>>,
         \A j \in Jobs : (job'[j] = "active" => job[j] = "active") /\ (Present(j)' => Present(j))
  PROVE  Gentle /\ \A j \in Jobs : Meant(j)'
<1>1. Gentle
  BY DEF Gentle
<1>2. \A j \in Jobs : Meant(j)'
  BY DEF CInv, Meant
<1> QED BY <1>1, <1>2

LEMMA BatchEnds ==
  ASSUME IInv, NEW jobs \in SUBSET Jobs, DeleteBatch(jobs)
  PROVE  /\ \A j \in Jobs : (job'[j] = "active" => job[j] = "active") /\ (Present(j)' => Present(j))
         /\ \A j \in Jobs : job'[j] = "gone" => job[j] = "gone" \/ j \in jobs
<1>1. PICK gone \in SUBSET jobs : job' = [j \in Jobs |-> IF j \in gone THEN "gone" ELSE job[j]]
  BY DEF DeleteBatch
<1> QED BY <1>1 DEF Present

\* The purge takes only jobs that are finished.
LEMMA PurgeKeeps ==
  ASSUME IInv, CInv, PurgeTerminalJobs
  PROVE  CInv'
<1>1. UNCHANGED <<tenant, queue, op, forced, overtaken>>
  BY DEF PurgeTerminalJobs
<1>2. PICK old \in SUBSET Jobs : job' = [j \in Jobs |-> IF j \in old THEN "gone" ELSE job[j]]
  BY DEF PurgeTerminalJobs
<1>3. \A j \in Jobs : (job'[j] = "active" => job[j] = "active") /\ (Present(j)' => Present(j))
  BY <1>2 DEF Present
<1>4. Maintenance \in Procs /\ Others(Maintenance) /\ op'[Maintenance] = op[Maintenance]
  BY <1>1 DEF Procs, Others
<1>5. Certain(op[Maintenance])'
  BY <1>4 DEF CInv, Certain
<1>6. ASSUME ~overtaken' PROVE Gentle /\ Emptied(op[Maintenance])' /\ \A j \in Jobs : Meant(j)'
  <2>1. Gentle /\ \A j \in Jobs : Meant(j)'
    BY <1>1, <1>3, <1>6, JobsEnd
  <2>2. Emptied(op[Maintenance])'
    BY <1>1, <1>4, <1>6, <2>1, GentleStays DEF CInv
  <2> QED BY <2>1, <2>2
<1> QED BY <1>1, <1>4, <1>5, <1>6, GentleKeeps

\* The cascade of a queue, but for its row.
LEMMA QueueJobsKeep ==
  ASSUME IInv, CInv, NEW p \in Procs, ForceCancel(p) \/ DeleteJobs(p)
  PROVE  CInv'
<1>1. UNCHANGED <<tenant, queue, forced>> /\ (overtaken => overtaken')
  <2>1. UNCHANGED <<tenant, queue, forced>>
    BY DEF ForceCancel, DeleteJobs
  <2>2. (\E late : Overtakes(late)) \/ overtaken' = overtaken
    BY DEF ForceCancel, DeleteJobs
  <2>3. overtaken => overtaken'
    BY <2>2, Zenon DEF Overtakes
  <2> QED BY <2>1, <2>3
<1>2. \A j \in Jobs : (job'[j] = "active" => job[j] = "active") /\ (Present(j)' => Present(j))
  <2>1. CASE ForceCancel(p)
    BY <2>1 DEF ForceCancel, Active, Present, IInv, Typed, Stored
  <2>2. CASE DeleteJobs(p)
    <3>1. JobsOf(op[p].q) \in SUBSET Jobs
      BY DEF JobsOf
    <3>2. CASE DeleteBatch(JobsOf(op[p].q))
      BY <3>1, <3>2, BatchEnds
    <3>3. CASE UNCHANGED job
      BY <3>3 DEF Present
    <3> QED BY <2>2, <3>2, <3>3 DEF DeleteJobs
  <2> QED BY <2>1, <2>2
<1>3. Others(p) /\ op'[p].pc \in {"jobs", "row"}
  <2>1. \/ Goes(p, "jobs") \/ Goes(p, "row")
        \/ op' = op /\ op[p].pc = "jobs"
    BY DEF ForceCancel, DeleteJobs, At
  <2> QED BY <2>1, Hand DEF Others
<1> QED BY <1>1, <1>2, <1>3, JobsEnd, PlainKeeps

LEMMA TenantJobsKeep ==
  ASSUME IInv, CInv, NEW p \in Procs, DeleteAllJobs(p)
  PROVE  CInv'
<1> DEFINE all == {j \in Jobs : Present(j)}
<1>1. UNCHANGED <<tenant, queue, forced>> /\ (overtaken => overtaken') /\ op[p].pc = "tenant"
  <2>1. UNCHANGED <<tenant, queue, forced>> /\ op[p].pc = "tenant"
    BY DEF DeleteAllJobs, At
  <2>2. Overtakes(tenant # "deleting") \/ overtaken' = overtaken
    BY DEF DeleteAllJobs
  <2>3. overtaken => overtaken'
    BY <2>2, Zenon DEF Overtakes
  <2> QED BY <2>1, <2>3
<1>2. CASE DeleteBatch(all) /\ UNCHANGED op
  <2>1. \A j \in Jobs : (job'[j] = "active" => job[j] = "active") /\ (Present(j)' => Present(j))
    <3>1. all \in SUBSET Jobs
      OBVIOUS
    <3> QED BY <1>2, <3>1, BatchEnds
  <2>2. Others(p) /\ Certain(op[p])' /\ op'[p] = op[p]
    BY <1>1, <1>2 DEF Others, Certain
  <2>3. ASSUME ~overtaken' PROVE Gentle /\ Emptied(op[p])' /\ \A j \in Jobs : Meant(j)'
    <3>1. Gentle /\ \A j \in Jobs : Meant(j)'
      BY <1>1, <2>1, <2>3, JobsEnd
    <3>2. Emptied(op[p])'
      BY <1>1, <2>2, <2>3, <3>1, GentleStays DEF CInv
    <3> QED BY <3>1, <3>2
  <2> QED BY <1>1, <2>2, <2>3, GentleKeeps
<1>3. CASE all = {} /\ Goes(p, "rows") /\ UNCHANGED <<job, overtaken>>
  <2>1. Others(p) /\ op'[p].pc = "rows" /\ op'[p].rest = op[p].rest
    BY <1>3, Hand
  <2>2. \A j \in Jobs : ~Present(j)
    BY <1>3
  <2>3. ~overtaken => Emptied(op[p])'
    BY <1>1, <1>3, <2>1, <2>2 DEF CInv, Emptied, Present
  <2>4. Certain(op[p])'
    BY <2>1 DEF Certain
  <2> QED BY <1>1, <1>3, <2>1, <2>3, <2>4, ReadKeeps
<1> QED BY <1>2, <1>3 DEF DeleteAllJobs

\* A queue is created for no tenant that is being deleted.
LEMMA CreateKeeps ==
  ASSUME IInv, CInv, NEW p \in Procs, EnsureCreate(p)
  PROVE  CInv'
<1> DEFINE q == op[p].q
<1>1. q \in Queues /\ queue \in [Queues -> QueueRow] /\ UNCHANGED <<tenant, job>>
  BY DEF EnsureCreate, At, IInv, Typed, Stored, Fit
<1>2. Others(p) /\ op'[p].pc \in {"idle", "insert"}
  <2>1. Becomes(p, Idle) \/ Goes(p, "insert")
    BY DEF EnsureCreate, Ensured
  <2>2. Idle.pc = "idle"
    BY DEF Idle
  <2> QED BY <2>1, <2>2, Hand
<1>3. CASE UNCHANGED <<queue, forced, overtaken>>
  BY <1>1, <1>2, <1>3, PlainReadKeeps
<1>4. CASE /\ queue' = [queue EXCEPT ![q] = [id |-> ids + 1, status |-> "active"]]
           /\ forced' = forced \ {q}
           /\ Overtakes(tenant = "deleting" \/ Cascading(q))
  <2>1. (overtaken => overtaken') /\ (~overtaken' => ~overtaken /\ tenant # "deleting")
    BY <1>4 DEF Overtakes
  <2>2. queue'[q].status = "active" /\ \A r \in Queues : r # q => queue'[r] = queue[r]
    BY <1>1, <1>4
  <2>3. ASSUME ~overtaken' PROVE Gentle /\ \A j \in Jobs : Meant(j)'
    <3>1. Gentle
      BY <1>1, <2>1, <2>3 DEF Gentle
    <3>2. ASSUME NEW j \in Jobs PROVE Meant(j)'
      <4>1. Meant(j) /\ Home[j] \in Queues
        BY <2>1, <2>3, LifecycleAssumption DEF CInv
      <4>2. CASE Home[j] = q
        BY <2>2, <4>2 DEF Meant
      <4>3. CASE Home[j] # q
        BY <1>1, <1>4, <2>2, <4>1, <4>3 DEF Meant
      <4> QED BY <4>2, <4>3
    <3> QED BY <3>1, <3>2
  <2> QED BY <1>2, <2>1, <2>3, PlainKeeps
<1> QED BY <1>3, <1>4 DEF EnsureCreate

\* CountActive lets a queue with active jobs be marked only by force.
LEMMA CountKeeps ==
  ASSUME IInv, CInv, NEW p \in Procs, CountActive(p)
  PROVE  CInv'
<1> DEFINE o == [op[p] EXCEPT !.pc = "mark", !.busy = Active(op[p].q) # {}]
<1>1. UNCHANGED <<tenant, queue, job, forced, overtaken>> /\ op[p] \in Op
  BY DEF CountActive, IInv, Typed
<1>2. CASE Becomes(p, Idle)
  <2>1. Idle.pc = "idle"
    BY DEF Idle
  <2> QED BY <1>1, <1>2, <2>1, Hand, PlainReadKeeps
<1>3. CASE ~Becomes(p, Idle)
  <2>1. Becomes(p, o) /\ (Active(op[p].q) = {} \/ op[p].force)
    BY <1>3 DEF CountActive
  <2>2. o.pc = "mark" /\ o.force = op[p].force /\ (o.busy => Active(op[p].q) # {})
    BY <1>1 DEF Op
  <2> HIDE DEF o
  <2>3. Others(p) /\ op'[p] = o
    BY <2>1, Hand
  <2>4. Certain(op[p])' /\ Emptied(op[p])'
    BY <2>1, <2>2, <2>3 DEF Certain, Emptied
  <2> QED BY <1>1, <2>3, <2>4, ReadKeeps
<1> QED BY <1>2, <1>3

\* A row that is as it was read is marked.
LEMMA MarkGentle ==
  ASSUME IInv, NEW q \in Queues, NEW row \in QueueRow, row # NoRow, SaveRow(q, Deleting(row)),
         Saved(q, row) => queue[q] = row
  PROVE  /\ \A r \in Queues : queue'[r] # NoRow => queue[r] # NoRow
         /\ \A r \in Queues : queue'[r] = queue[r] \/ (r = q /\ Saved(q, row))
<1>1. Deleting(row).id = row.id /\ queue \in [Queues -> QueueRow]
  BY DEF Deleting, QueueRow, NoRow, IInv, Typed, Stored
<1>2. queue' = [queue EXCEPT ![q] = IF Saved(q, row) THEN Deleting(row) ELSE queue[q]]
  BY <1>1 DEF SaveRow, Saved
<1> QED BY <1>1, <1>2

LEMMA MarkKeeps ==
  ASSUME IInv, CInv, NEW p \in Procs, MarkQueue(p)
  PROVE  CInv'
<1> DEFINE q == op[p].q  row == op[p].row
<1>1. /\ q \in Queues /\ row \in QueueRow /\ row # NoRow /\ op[p].pc = "mark" /\ op[p] \in Op
      /\ UNCHANGED <<tenant, job>> /\ SaveRow(q, Deleting(row))
  BY DEF MarkQueue, At, IInv, Typed, Stored, Fit, Op
<1>2. Others(p) /\ op'[p].pc \in {"idle", "cancel", "jobs"}
  <2>1. Becomes(p, Idle) \/ Goes(p, "cancel") \/ Goes(p, "jobs")
    BY DEF MarkQueue
  <2>2. Idle.pc = "idle"
    BY DEF Idle
  <2> QED BY <2>1, <2>2, Hand
<1>3. /\ forced \subseteq forced'
      /\ Saved(q, row) /\ op[p].force => q \in forced'
  BY DEF MarkQueue
<1>4. /\ overtaken => overtaken'
      /\ ~overtaken' => ~overtaken /\ (Saved(q, row) => queue[q] = row /\ (Active(q) = {} \/ op[p].busy))
  BY DEF MarkQueue, Overtakes
<1> HIDE DEF q, row
<1>5. ASSUME ~overtaken' PROVE Gentle /\ \A j \in Jobs : Meant(j)'
  <2>1. /\ \A r \in Queues : queue'[r] # NoRow => queue[r] # NoRow
        /\ \A r \in Queues : queue'[r] = queue[r] \/ (r = q /\ Saved(q, row))
    BY <1>1, <1>4, <1>5, MarkGentle
  <2>2. Gentle
    BY <1>1, <2>1 DEF Gentle, Present
  <2>3. ASSUME NEW j \in Jobs PROVE Meant(j)'
    <3>1. Meant(j) /\ Home[j] \in Queues
      BY <1>4, <1>5, LifecycleAssumption DEF CInv
    <3>2. CASE queue'[Home[j]] = queue[Home[j]]
      BY <1>1, <1>3, <3>1, <3>2 DEF Meant
    <3>3. CASE Home[j] = q /\ Saved(q, row)
      <4>1. CASE op[p].force
        BY <1>3, <3>3, <4>1 DEF Meant
      <4>2. CASE ~op[p].force
        <5>1. Active(q) = {}
          BY <1>1, <1>4, <1>5, <3>3, <4>2 DEF CInv, Certain
        <5>2. job[j] # "active"
          BY <3>3, <5>1 DEF Active
        <5> QED BY <1>1, <5>2 DEF Meant
      <4> QED BY <4>1, <4>2
    <3> QED BY <2>1, <3>1, <3>2, <3>3
  <2> QED BY <2>2, <2>3
<1> QED BY <1>2, <1>4, <1>5, PlainKeeps

\* The row of a queue goes.
LEMMA RowGentle ==
  ASSUME IInv, CInv, ~overtaken, NEW q \in Queues, queue' = [queue EXCEPT ![q] = NoRow],
         UNCHANGED <<tenant, job, forced>>
  PROVE  Gentle /\ (\A j \in Jobs : Meant(j)') /\ \A r \in Queues : queue'[r] # NoRow => r # q
<1>1. \A r \in Queues : queue'[r] = IF r = q THEN NoRow ELSE queue[r]
  BY DEF IInv, Typed, Stored
<1>2. Gentle
  BY <1>1 DEF Gentle, Present
<1>3. NoRow.status = "none"
  BY DEF NoRow
<1>4. \A j \in Jobs : Meant(j)'
  BY <1>1, <1>3, LifecycleAssumption DEF CInv, Meant
<1> QED BY <1>1, <1>2, <1>4

LEMMA RowKeeps ==
  ASSUME IInv, CInv, NEW p \in Procs, DeleteRow(p)
  PROVE  CInv'
<1>1. /\ op[p].q \in Queues /\ UNCHANGED <<tenant, job, forced>>
      /\ queue' = [queue EXCEPT ![op[p].q] = NoRow]
  BY DEF DeleteRow, At, IInv, Typed, Fit
<1>2. Others(p) /\ op'[p].pc \in {"idle", "resume"}
  <2>1. Through(p).pc \in {"idle", "resume"}
    BY DEF Through, Idle
  <2> QED BY <2>1, Hand DEF DeleteRow
<1>3. (overtaken => overtaken') /\ (~overtaken' => ~overtaken)
  BY DEF DeleteRow, Overtakes
<1>4. ASSUME ~overtaken' PROVE Gentle /\ \A j \in Jobs : Meant(j)'
  BY <1>1, <1>3, <1>4, RowGentle
<1> QED BY <1>2, <1>3, <1>4, PlainKeeps

\* The cascade of the tenant marks a queue, or deletes its row.
LEMMA TenantRowsKeep ==
  ASSUME IInv, CInv, NEW p \in Procs, TenantMarks(p) \/ TenantDeletesRow(p)
  PROVE  CInv'
<1>1. /\ op \in [Procs -> Op] /\ op[p] \in Op /\ Fit(op[p]) /\ UNCHANGED <<tenant, job, forced>>
      /\ op[p].rest \in SUBSET Listed /\ op[p].todo \in SUBSET op[p].rest
  BY DEF IInv, Typed, Fit, Op, TenantMarks, TenantDeletesRow
<1>2. CASE TenantMarks(p)
  <2>1. PICK e \in op[p].todo :
          /\ SaveRow(e.q, Deleting(e.row))
          /\ op' = [op EXCEPT ![p].todo = @ \ {e}]
          /\ Overtakes(Saved(e.q, e.row) /\ (queue[e.q] # e.row \/ tenant # "deleting"))
    BY <1>2 DEF TenantMarks
  <2>2. e.q \in Queues /\ e.row \in QueueRow /\ e.row # NoRow /\ op[p].pc = "tenant"
    BY <1>1, <1>2 DEF Listed, Fit, TenantMarks, At
  <2>3. Others(p) /\ op'[p].pc = "tenant" /\ op'[p].rest = op[p].rest
    BY <1>1, <2>1, <2>2 DEF Others, Op
  <2>4. /\ overtaken => overtaken'
        /\ ~overtaken' => ~overtaken /\ (Saved(e.q, e.row) => queue[e.q] = e.row /\ tenant = "deleting")
    BY <2>1 DEF Overtakes
  <2>5. ASSUME ~overtaken' PROVE Gentle /\ Emptied(op[p])' /\ \A j \in Jobs : Meant(j)'
    <3>1. /\ \A r \in Queues : queue'[r] # NoRow => queue[r] # NoRow
          /\ \A r \in Queues : queue'[r] = queue[r] \/ (r = e.q /\ Saved(e.q, e.row))
      BY <2>1, <2>2, <2>4, <2>5, MarkGentle
    <3>2. Gentle
      BY <1>1, <3>1 DEF Gentle, Present
    <3>3. Emptied(op[p])'
      BY <1>1, <2>2, <2>3, <2>4, <2>5, <3>1 DEF CInv, Emptied
    <3>4. \A j \in Jobs : Meant(j)'
      BY <1>1, <2>4, <2>5, <3>1, LifecycleAssumption DEF CInv, Meant
    <3> QED BY <3>2, <3>3, <3>4
  <2>6. Certain(op[p])'
    BY <2>3 DEF Certain
  <2> QED BY <2>3, <2>4, <2>5, <2>6, GentleKeeps
<1>3. CASE TenantDeletesRow(p)
  <2>1. PICK e \in op[p].rest :
          /\ queue' = [queue EXCEPT ![e.q] = NoRow]
          /\ op' = [op EXCEPT ![p].rest = @ \ {e}]
          /\ Overtakes(queue[e.q].status = "active")
    BY <1>3 DEF TenantDeletesRow
  <2>2. e.q \in Queues /\ op[p].pc = "rows"
    BY <1>1, <1>3 DEF Listed, TenantDeletesRow, At
  <2>3. Others(p) /\ op'[p].pc = "rows" /\ op'[p].rest = op[p].rest \ {e}
    BY <1>1, <2>1, <2>2 DEF Others, Op
  <2>4. (overtaken => overtaken') /\ (~overtaken' => ~overtaken)
    BY <2>1 DEF Overtakes
  <2>5. ASSUME ~overtaken' PROVE Gentle /\ Emptied(op[p])' /\ \A j \in Jobs : Meant(j)'
    <3>1. Gentle /\ (\A j \in Jobs : Meant(j)') /\ \A r \in Queues : queue'[r] # NoRow => r # e.q
      BY <1>1, <2>1, <2>2, <2>4, <2>5, RowGentle
    <3>2. Emptied(op[p])
      BY <2>4, <2>5 DEF CInv
    <3>3. ASSUME tenant = "deleting", NEW r \in Queues, queue'[r] # NoRow
          PROVE  \E d \in op[p].rest \ {e} : d.q = r
      <4>1. queue[r] # NoRow /\ r # e.q
        BY <3>1, <3>3 DEF Gentle
      <4> QED BY <2>2, <3>2, <3>3, <4>1 DEF Emptied
    <3>4. Emptied(op[p])'
      BY <1>1, <2>2, <2>3, <3>2, <3>3 DEF Emptied, Present
    <3> QED BY <3>1, <3>4
  <2>6. Certain(op[p])'
    BY <2>3 DEF Certain
  <2> QED BY <2>3, <2>4, <2>5, <2>6, GentleKeeps
<1> QED BY <1>2, <1>3

\* The tenant's cascade lists every queue there is.
LEMMA ListKeeps ==
  ASSUME IInv, CInv, NEW p \in Procs, ListQueues(p)
  PROVE  CInv'
<1> DEFINE rows == {e \in Listed : e.row = queue[e.q] /\ e.row # NoRow}
           o == [Idle EXCEPT !.pc = "tenant", !.rest = rows,
                             !.todo = {e \in rows : e.row.status # "deleting"}]
<1>1. UNCHANGED <<tenant, queue, job, forced, overtaken>> /\ Becomes(p, o) /\ op[p].pc = "list"
  BY DEF ListQueues, At
<1>2. o.pc = "tenant" /\ o.rest = rows
  BY DEF Idle
<1> HIDE DEF o
<1>3. Others(p) /\ op'[p].pc = "tenant" /\ op'[p].rest = rows
  BY <1>1, <1>2, Hand
<1>4. ASSUME NEW q \in Queues, queue[q] # NoRow PROVE \E e \in rows : e.q = q
  <2>1. [q |-> q, row |-> queue[q]] \in Listed
    BY DEF Listed, IInv, Typed, Stored
  <2> QED BY <1>4, <2>1
<1> HIDE DEF rows
<1>5. ~overtaken => Emptied(op[p])'
  BY <1>1, <1>3, <1>4 DEF CInv, Emptied
<1>6. Certain(op[p])'
  BY <1>3 DEF Certain
<1> QED BY <1>1, <1>3, <1>5, <1>6, ReadKeeps

\* The maintenance task.
LEMMA ResumptionKeeps ==
  ASSUME IInv, CInv, ListDeleting \/ ResumeQueue \/ ResumeTenant
  PROVE  CInv'
<1> DEFINE p == Maintenance
<1>1. p \in Procs /\ UNCHANGED <<tenant, queue, job, forced, overtaken>> /\ op[p] \in Op
  BY DEF Procs, ListDeleting, ResumeQueue, ResumeTenant, IInv, Typed
<1>2. ASSUME NEW o, Becomes(p, o), o.pc \in {"idle", "resume", "jobs"} PROVE CInv'
  BY <1>1, <1>2, Hand, PlainReadKeeps
<1>3. CASE ListDeleting
  <2>1. PICK rows : Becomes(p, [Idle EXCEPT !.pc = "resume", !.rest = rows])
    BY <1>3 DEF ListDeleting
  <2>2. [Idle EXCEPT !.pc = "resume", !.rest = rows].pc = "resume"
    BY DEF Idle
  <2> QED BY <1>2, <2>1, <2>2
<1>4. CASE ResumeQueue
  <2>1. PICK e \in op[p].rest :
          Becomes(p, [op[p] EXCEPT !.pc = "jobs", !.q = e.q, !.rest = @ \ {e}])
    BY <1>4 DEF ResumeQueue
  <2>2. [op[p] EXCEPT !.pc = "jobs", !.q = e.q, !.rest = @ \ {e}].pc = "jobs"
    BY <1>1 DEF Op
  <2> QED BY <1>2, <2>1, <2>2
<1>5. CASE ResumeTenant
  <2>1. CASE tenant # "deleting"
    <3>1. Becomes(p, Idle) /\ Idle.pc = "idle"
      BY <1>5, <2>1 DEF ResumeTenant, Idle
    <3> QED BY <1>2, <3>1
  <2>2. CASE tenant = "deleting"
    <3>1. Becomes(p, [Idle EXCEPT !.pc = "list"]) /\ [Idle EXCEPT !.pc = "list"].pc = "list"
      BY <1>5, <2>2 DEF ResumeTenant, Idle
    <3>2. Others(p) /\ op'[p].pc = "list"
      BY <1>1, <3>1, Hand
    <3>3. Certain(op[p])' /\ Emptied(op[p])'
      BY <1>1, <2>2, <3>2 DEF Certain, Emptied
    <3> QED BY <1>1, <3>2, <3>3, ReadKeeps
  <2> QED BY <2>1, <2>2
<1> QED BY <1>3, <1>4, <1>5

\* The tenant is active when its deletion begins, and then no cascade of it is
\* going on.
LEMMA MarkTenantKeeps ==
  ASSUME IInv, CInv, NEW p \in Procs, MarkTenant(p)
  PROVE  CInv'
<1>1. tenant' = "deleting" /\ Others(p) /\ op'[p].pc = "list"
  BY Hand DEF MarkTenant
<1>2. \A r \in Procs : Certain(op[r])'
  BY <1>1 DEF Others, CInv, Certain
<1>3. (overtaken => overtaken') /\ (~overtaken' => ~overtaken /\ tenant = "active")
  BY DEF MarkTenant, Overtakes
<1>4. ASSUME ~overtaken', NEW r \in Procs PROVE Emptied(op[r])'
  <2>1. CASE r = p
    BY <1>1, <2>1 DEF Emptied
  <2>2. CASE r # p
    <3>1. op[r].pc \notin {"list", "tenant", "rows"} /\ op'[r] = op[r]
      BY <1>1, <1>3, <1>4, <2>2 DEF Others, CInv, Emptied
    <3> QED BY <3>1 DEF Emptied
  <2> QED BY <2>1, <2>2
<1>5. \A j \in Jobs : Meant(j)'
  BY <1>1 DEF Meant
<1> QED BY <1>2, <1>4, <1>5 DEF CInv

\* What is left of the tenant when its own row goes.
LEMMA LastRow ==
  ASSUME IInv, CInv, ~overtaken, NEW p \in Procs, DropTenant(p), tenant = "deleting"
  PROVE  /\ \A q \in Queues : queue[q] = NoRow
         /\ \A j \in Jobs : ~Present(j)
BY DEF CInv, Emptied, DropTenant, At

LEMMA DropTenantKeeps ==
  ASSUME IInv, CInv, NEW p \in Procs, DropTenant(p)
  PROVE  CInv'
<1>1. tenant' = "none" /\ UNCHANGED <<queue, job, forced>>
  BY DEF DropTenant
<1>2. Others(p) /\ op'[p].pc = "idle"
  BY Hand DEF DropTenant, Idle
<1>3. (overtaken => overtaken') /\ (~overtaken' => ~overtaken /\ tenant # "active")
  BY DEF DropTenant, Overtakes
<1>4. \A r \in Procs : Certain(op[r])' /\ Emptied(op[r])'
  BY <1>1, <1>2 DEF Others, CInv, Certain, Emptied
<1>5. ASSUME ~overtaken', NEW j \in Jobs PROVE Meant(j)'
  <2>1. CASE tenant = "deleting"
    <3>1. queue[Home[j]] = NoRow
      BY <1>3, <1>5, <2>1, LastRow, LifecycleAssumption
    <3> QED BY <1>1, <3>1 DEF Meant, NoRow
  <2>2. CASE tenant # "deleting"
    BY <1>1, <1>3, <1>5, <2>2 DEF CInv, Meant
  <2> QED BY <2>1, <2>2
<1> QED BY <1>4, <1>5 DEF CInv

\* A tenant becomes active again when no deletion of it is going on.
LEMMA TenantsKeep ==
  ASSUME IInv, CInv, NEW i \in Instances, EnsureTenant(i) \/ GetTenant(i)
  PROVE  CInv'
<1>1. UNCHANGED <<queue, job, op, forced>>
  BY DEF EnsureTenant, GetTenant
<1>2. \A r \in Procs : Certain(op[r])'
  BY <1>1 DEF CInv, Certain
<1>3. CASE GetTenant(i)
  <2>1. UNCHANGED <<tenant, overtaken>>
    BY <1>3 DEF GetTenant
  <2> QED BY <1>1, <1>2, <2>1 DEF CInv, Emptied, Meant, Present
<1>4. CASE EnsureTenant(i)
  <2>1. ~overtaken' => ~overtaken /\ tenant # "deleting" /\ ~TenantCascading
    BY <1>4 DEF EnsureTenant, Overtakes
  <2>2. ~overtaken' => \A r \in Procs : Emptied(op[r])'
    BY <1>1, <2>1 DEF TenantCascading, Emptied
  <2>3. ~overtaken' => \A j \in Jobs : Meant(j)'
    BY <1>1, <2>1 DEF CInv, Meant
  <2> QED BY <1>2, <2>2, <2>3 DEF CInv
<1> QED BY <1>3, <1>4

LEMMA CStep ==
  ASSUME IInv, CInv, [Next]_vars
  PROVE  CInv'
<1>1. ASSUME NEW p \in Procs, CascadeStep(p) PROVE CInv'
  BY <1>1, QueueJobsKeep, RowKeeps, ListKeeps, TenantRowsKeep, TenantJobsKeep, DropTenantKeeps
  DEF CascadeStep
<1>2. ASSUME NEW p \in Procs, Handle(p) PROVE CInv'
  <2>1. CASE RequestDeleteQueue(p)
    BY <2>1, HandlersKeep, CountKeeps, MarkKeeps, QueueJobsKeep DEF RequestDeleteQueue
  <2> QED BY <1>2, <2>1, HandlersKeep, CreateKeeps, SavesKeep, MarkTenantKeeps DEF Handle
<1>3. CASE UNCHANGED vars
  BY <1>3 DEF vars, CInv, Certain, Emptied, Meant, Present
<1>4. Requests \subseteq Procs /\ Schedulers \subseteq Procs /\ Maintenance \in Procs
  BY DEF Procs
<1>5. ASSUME NEW p \in Procs, PublishDueScheduled(p) PROVE CInv'
  BY <1>5, SchedulerKeeps, SavesKeep DEF PublishDueScheduled
<1>6. CASE Maintain
  BY <1>1, <1>4, <1>6, ResumptionKeeps DEF Maintain
<1>7. CASE \/ \E i \in Instances : EnsureTenant(i) \/ GetTenant(i)
           \/ \E p \in Procs : Crash(p)
  BY <1>7, HandlersKeep, TenantsKeep
<1> QED BY <1>1, <1>2, <1>3, <1>4, <1>5, <1>6, <1>7, PurgeKeeps DEF Next

LEMMA Closings == Spec => [](IInv /\ CInv)
<1>1. Init => CInv
  BY LifecycleAssumption DEF Init, CInv, Certain, Emptied, Meant, Idle, NoRow
<1>2. IInv /\ CInv /\ [Next]_vars => CInv'
  BY CStep
<1> QED BY <1>1, <1>2, Invariant, PTL DEF Spec

\* Only the cascades delete jobs: that of their queue or that of the tenant.
LEMMA WhoDeletes ==
  ASSUME IInv, [Next]_vars, NEW j \in Jobs, job[j] = "active", job'[j] = "gone"
  PROVE  \E p \in Procs : (DeleteJobs(p) /\ Home[j] = op[p].q) \/ DeleteAllJobs(p)
<1>1. job' # job
  OBVIOUS
<1>2. job \in [Jobs -> JobStatus]
  BY DEF IInv, Typed, Stored
<1>3. ASSUME NEW p \in Procs,
             \/ Insert(p) \/ PublishSave(p) \/ SettleSave(p) \/ RetrySave(p) \/ Promote(p)
             \/ ForceCancel(p)
      PROVE  FALSE
  <2>1. CASE ForceCancel(p)
    BY <1>2, <2>1 DEF ForceCancel
  <2>2. CASE Insert(p) \/ PublishSave(p) \/ SettleSave(p) \/ RetrySave(p) \/ Promote(p)
    <3>1. PICK s \in {"active", "done", "dlq"} : job' = [job EXCEPT ![op[p].job] = s]
      BY <1>1, <2>2 DEF Insert, PublishSave, SettleSave, RetrySave, Promote
    <3> QED BY <1>2, <3>1
  <2> QED BY <1>3, <2>1, <2>2
<1>4. ASSUME NEW p \in Procs, DeleteJobs(p) PROVE Home[j] = op[p].q
  <2>1. DeleteBatch(JobsOf(op[p].q))
    BY <1>1, <1>4 DEF DeleteJobs
  <2>2. JobsOf(op[p].q) \in SUBSET Jobs
    BY DEF JobsOf
  <2>3. j \in JobsOf(op[p].q)
    BY <2>1, <2>2, BatchEnds
  <2> QED BY <2>3 DEF JobsOf
<1>5. ASSUME NEW p \in Procs, CascadeStep(p) PROVE DeleteJobs(p) \/ DeleteAllJobs(p)
  BY <1>1, <1>5 DEF CascadeStep, DeleteRow, ListQueues, TenantMarks, TenantDeletesRow, DropTenant
<1>6. ASSUME NEW p \in Procs, Handle(p)
      PROVE  Insert(p) \/ PublishSave(p) \/ SettleSave(p) \/ RetrySave(p) \/ ForceCancel(p)
  BY <1>1, <1>6 DEF Handle, RequestDeleteQueue, Enqueue, SettleRead, RetryRead, UpsertQueue, EnsureFind,
                    EnsureCreate, NackFind, DeleteQueue, CountActive, MarkQueue, DeleteTenant, MarkTenant
<1>7. Requests \subseteq Procs /\ Schedulers \subseteq Procs /\ Maintenance \in Procs
  BY DEF Procs
<1>8. CASE Maintain
  <2>1. CascadeStep(Maintenance)
    BY <1>1, <1>8 DEF Maintain, ListDeleting, ResumeQueue, ResumeTenant
  <2> QED BY <1>4, <1>5, <1>7, <2>1
<1>9. CASE \E p \in Requests : Handle(p) \/ CascadeStep(p)
  BY <1>3, <1>4, <1>5, <1>6, <1>7, <1>9
<1>10. ~UNCHANGED vars
  BY <1>1 DEF vars
<1>11. ~\E i \in Instances : EnsureTenant(i) \/ GetTenant(i)
  BY <1>1 DEF EnsureTenant, GetTenant
<1>12. ~\E p \in Procs : Crash(p)
  BY <1>1 DEF Crash
<1>13. CASE \E p \in Schedulers : PublishDueScheduled(p)
  BY <1>1, <1>3, <1>7, <1>13 DEF PublishDueScheduled, FindDueScheduled, NextDue
<1>14. ~PurgeTerminalJobs
  BY <1>2 DEF PurgeTerminalJobs
<1> QED BY <1>8, <1>9, <1>10, <1>11, <1>12, <1>13, <1>14 DEF Next

LEMMA ForcedStep ==
  ASSUME IInv, CInv, [Next]_vars, NEW j \in Jobs, job[j] = "active", job'[j] = "gone"
  PROVE  tenant = "deleting" \/ Home[j] \in forced \/ overtaken'
<1> SUFFICES ASSUME ~overtaken' PROVE tenant = "deleting" \/ Home[j] \in forced
  OBVIOUS
<1>1. PICK p \in Procs : (DeleteJobs(p) /\ Home[j] = op[p].q) \/ DeleteAllJobs(p)
  BY WhoDeletes
<1>2. job' # job
  OBVIOUS
<1>3. CASE DeleteAllJobs(p)
  <2>1. Overtakes(tenant # "deleting")
    BY <1>2, <1>3 DEF DeleteAllJobs
  <2> QED BY <2>1 DEF Overtakes
<1>4. CASE DeleteJobs(p) /\ Home[j] = op[p].q
  <2>1. Overtakes(queue[op[p].q].status # "deleting")
    BY <1>2, <1>4 DEF DeleteJobs
  <2>2. ~overtaken /\ queue[op[p].q].status = "deleting"
    BY <2>1 DEF Overtakes
  <2>3. Meant(j)
    BY <2>2 DEF CInv
  <2> QED BY <1>4, <2>2, <2>3 DEF Meant
<1> QED BY <1>1, <1>3, <1>4

LEMMA LastStep ==
  ASSUME IInv, CInv, [Next]_vars, tenant = "deleting", tenant' = "none", ~overtaken'
  PROVE  \A q \in Queues : queue[q] = NoRow /\ JobsOf(q) = {}
<1>1. tenant' # tenant /\ tenant' # "active" /\ tenant' # "deleting"
  OBVIOUS
<1>2. ASSUME NEW p \in Procs, CascadeStep(p) PROVE DropTenant(p)
  BY <1>1, <1>2 DEF CascadeStep, DeleteJobs, DeleteRow, ListQueues, TenantMarks, DeleteAllJobs, TenantDeletesRow
<1>3. ASSUME NEW p \in Procs, Handle(p) PROVE FALSE
  BY <1>1, <1>3 DEF Handle, RequestDeleteQueue, Enqueue, SettleRead, RetryRead, UpsertQueue, EnsureFind,
                    EnsureCreate, NackFind, DeleteQueue, CountActive, MarkQueue, ForceCancel,
                    DeleteTenant, MarkTenant, Insert, PublishSave, SettleSave, RetrySave
<1>4. Requests \subseteq Procs /\ Maintenance \in Procs
  BY DEF Procs
<1>5. Maintain => CascadeStep(Maintenance)
  BY <1>1 DEF Maintain, ListDeleting, ResumeQueue, ResumeTenant
<1>6. ~UNCHANGED vars
  BY <1>1 DEF vars
<1>7. ~\E i \in Instances : EnsureTenant(i) \/ GetTenant(i)
  BY <1>1 DEF EnsureTenant, GetTenant
<1>8. ~\E p \in Procs : Crash(p)
  BY <1>1 DEF Crash
<1>9. ~PurgeTerminalJobs /\ ~\E p \in Schedulers : PublishDueScheduled(p)
  BY <1>1 DEF PurgeTerminalJobs, PublishDueScheduled, FindDueScheduled, NextDue, Promote, PublishSave
<1>10. PICK p \in Procs : DropTenant(p)
  BY <1>2, <1>3, <1>4, <1>5, <1>6, <1>7, <1>8, <1>9 DEF Next
<1>11. ~overtaken
  BY <1>10 DEF DropTenant, Overtakes
<1> QED BY <1>10, <1>11, LastRow DEF JobsOf

\* RequestDeleteQueue refuses a queue with active jobs unless with force, and
\* the barrier keeps jobs out of a queue once it is marked: no cascade, begun
\* or resumed, deletes a job that is not finished but with its tenant or by
\* force, until a step has written past what it had checked.
THEOREM DeletedOnlyByForce == Spec => OnlyByForce
<1>1. IInv /\ CInv /\ [Next]_vars =>
        [\A j \in Jobs : job[j] = "active" /\ job'[j] = "gone" =>
           tenant = "deleting" \/ Home[j] \in forced \/ overtaken']_vars
  BY ForcedStep
<1> QED BY <1>1, Closings, PTL DEF Spec, OnlyByForce

\* cascadeTenant lists every queue after the tenant is marked, and none is
\* added behind its back: when the row of the tenant goes nothing of it is
\* left, however many cascades of it run, die and are resumed.
THEOREM TenantRowGoesLast == Spec => TenantGoesLast
<1>1. IInv /\ CInv /\ [Next]_vars =>
        [tenant = "deleting" /\ tenant' = "none" =>
           \/ overtaken'
           \/ \A q \in Queues : queue[q] = NoRow /\ JobsOf(q) = {}]_vars
  BY LastStep
<1> QED BY <1>1, Closings, PTL DEF Spec, TenantGoesLast
=============================================================================
