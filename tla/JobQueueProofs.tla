--------------------------- MODULE JobQueueProofs ---------------------------
(***************************************************************************)
(* Proofs about JobQueue: whatever rows the read-modify-write handlers      *)
(* overwrite, every row of the table stays the row of a possible job; and   *)
(* a job whose own row they do not overwrite goes through the states of     *)
(* JobLease, is with the worker its row names and keeps its delays.         *)
(***************************************************************************)
EXTENDS JobQueue, TLAPS

\* A row that may be written to the table for a job claimed n times.
Good(r, n) == r \in Row /\ Consistent(r) /\ Earned(r, n)

\* What a handler's copy is known to be while the handler is at pc.
CopyFits(pc, r) ==
  /\ pc \in {"create", "publish", "retried"} => r.status \in {"pending", "scheduled"}
  /\ pc \in {"ack", "nack"} => r.status = "running"

GoodRows == \A j \in Jobs : InDB(j) => Good(row[j], claims[j])
GoodOps == \A p \in Loops : op[p] # Idle =>
             Good(op[p].copy, claims[op[p].job]) /\ CopyFits(op[p].pc, op[p].copy)
GoodDue == \A s \in Schedulers : \A d \in due[s] :
             Good(d.copy, claims[d.job]) /\ d.copy.status = "scheduled"

\* The copies in flight must satisfy what the rows do, since any of them can
\* become the row; that is what makes the row invariant inductive.
IInv == TypeOK /\ GoodRows /\ GoodOps /\ GoodDue

-----------------------------------------------------------------------------
(* The job entity *)

\* A new job is a good row, waiting, with no attempt.
LEMMA NewJobGood ==
  ASSUME NEW sched \in {"none", "future", "due"}, NEW n \in Nat
  PROVE  /\ Good(NewJob(sched), n)
         /\ NewJob(sched).status \in {"pending", "scheduled"}
  BY ConstantsAssumption
  DEF Good, NewJob, Row, Consistent, StampedWhenTerminal, NamesItsWorker,
      ScheduledHasInstant, Earned, IsTerminal, Active, Terminal

\* What a handler makes of a good copy is a good row again.  Completing and
\* giving up need a running copy, promoting a scheduled one.
LEMMA MarksGood ==
  ASSUME NEW r, NEW n \in Nat, Good(r, n)
  PROVE  /\ Good(MarkRetry(r), n) /\ MarkRetry(r).status = "pending"
         /\ Good(MarkRetryFromControl(r), n)
         /\ Good(MarkCancelled(r), n)
         /\ r.status = "running" => Good(MarkCompleted(r), n)
         /\ r.status = "running" /\ ~CanRetry(r) => Good(MarkDLQ(r), n)
         /\ r.status = "scheduled" =>
              /\ Good(MarkPendingForSchedule(r), n)
              /\ MarkPendingForSchedule(r).status = "pending"
         /\ Good(Arrive(r), n) /\ Arrive(r).status = r.status
  <1> USE ConstantsAssumption
          DEF Good, Row, Consistent, StampedWhenTerminal, NamesItsWorker,
              ScheduledHasInstant, Earned, IsTerminal, Active, Terminal
  <1>1. Good(MarkRetry(r), n) /\ MarkRetry(r).status = "pending"
    BY DEF MarkRetry
  <1>2. Good(MarkRetryFromControl(r), n)
    BY DEF MarkRetryFromControl
  <1>3. Good(MarkCancelled(r), n)
    BY DEF MarkCancelled
  <1>4. ASSUME r.status = "running"
        PROVE  Good(MarkCompleted(r), n)
    BY <1>4 DEF MarkCompleted
  <1>5. ASSUME r.status = "running", ~CanRetry(r)
        PROVE  Good(MarkDLQ(r), n)
    <2>1. MarkDLQ(r) \in Row /\ Consistent(MarkDLQ(r))
      BY <1>5 DEF MarkDLQ
    <2>2. Earned(MarkDLQ(r), n)
      <3>1. r.attempt \in Nat /\ MaxAttempts \in Nat /\ r.attempt <= n
        OBVIOUS
      <3>2. r.attempt >= MaxAttempts
        BY <1>5, <3>1 DEF CanRetry
      <3> QED BY <3>1, <3>2 DEF MarkDLQ
    <2> QED BY <2>1, <2>2
  <1>6. ASSUME r.status = "scheduled"
        PROVE  /\ Good(MarkPendingForSchedule(r), n)
               /\ MarkPendingForSchedule(r).status = "pending"
    BY <1>6 DEF MarkPendingForSchedule
  <1>7. Good(Arrive(r), n) /\ Arrive(r).status = r.status
    BY DEF Arrive
  <1> QED BY <1>1, <1>2, <1>3, <1>4, <1>5, <1>6, <1>7

\* Further claims leave a good row good.
LEMMA GoodMonotone ==
  ASSUME NEW r, NEW m \in Nat, NEW n \in Nat, Good(r, m), m <= n
  PROVE  Good(r, n)
  BY DEF Good, Earned, Row

-----------------------------------------------------------------------------
(* The pieces handlers are made of *)

\* A row that is in the table has a job's columns.
LEMMA InDBRow ==
  ASSUME TypeOK, NEW j \in Jobs
  PROVE  InDB(j) <=> row[j] \in Row
  BY ConstantsAssumption DEF TypeOK, InDB

\* A busy goroutine has a job and a copy.
LEMMA BusyOp ==
  ASSUME TypeOK, NEW p \in Loops, op[p].pc # "idle"
  PROVE  /\ op[p] \in Busy /\ op[p] # Idle
         /\ op[p].job \in Jobs /\ op[p].copy \in Row /\ claims[op[p].job] \in Nat
  BY DEF TypeOK, Busy, Idle

\* Writing a good row keeps the table good.
LEMMA WriteKeeps ==
  ASSUME IInv, NEW j \in Jobs, NEW r, Good(r, claims[j]),
         row' = [row EXCEPT ![j] = r], UNCHANGED claims
  PROVE  row' \in [Jobs -> Row \cup {Unborn, Gone}] /\ GoodRows'
  BY DEF IInv, TypeOK, GoodRows, Good, InDB

\* A goroutine that takes up a good copy, or drops the one it had.
LEMMA StepKeeps ==
  ASSUME IInv, NEW p \in Loops, NEW o \in Busy,
         Good(o.copy, claims[o.job]), CopyFits(o.pc, o.copy),
         op' = [op EXCEPT ![p] = o], UNCHANGED claims
  PROVE  op' \in [Loops -> Busy \cup {Idle}] /\ GoodOps'
  BY DEF IInv, TypeOK, GoodOps

LEMMA FinishKeeps ==
  ASSUME IInv, NEW p \in Loops, Finish(p), UNCHANGED claims
  PROVE  op' \in [Loops -> Busy \cup {Idle}] /\ GoodOps'
  BY DEF IInv, TypeOK, GoodOps, Finish

\* A handler that reads the row copies a good one.
LEMMA ReadKeeps ==
  ASSUME IInv, NEW p \in Procs, NEW j \in Jobs, NEW w \in Workers \cup {NoWorker},
         NEW pc \in {"ack", "nack", "cancel", "retry"},
         Read(p, pc, j, w), pc \in {"ack", "nack"} => row[j].status = "running"
  PROVE  IInv'
  <1> DEFINE o == [pc |-> pc, job |-> j, by |-> w, copy |-> row[j]]
  <1>1. row[j] \in Row /\ Good(row[j], claims[j])
    BY InDBRow DEF Read, IInv, GoodRows
  <1>2. o \in Busy /\ CopyFits(o.pc, o.copy) /\ Good(o.copy, claims[o.job])
    BY <1>1 DEF Busy, CopyFits
  <1>3. op' \in [Loops -> Busy \cup {Idle}] /\ GoodOps'
    <2>1. p \in Loops /\ op' = [op EXCEPT ![p] = o] /\ UNCHANGED claims
      BY DEF Read, Loops
    <2> HIDE DEF o
    <2> QED BY <1>2, <2>1, StepKeeps
  <1>4. UNCHANGED <<row, due, claims, held, overwritten>>
    BY DEF Read
  <1> QED BY <1>3, <1>4 DEF IInv, TypeOK, GoodRows, GoodDue, InDB

\* A handler that saves a good row: the table, and the lists of due rows that
\* it leaves alone.
LEMMA SaveKeeps ==
  ASSUME IInv, NEW p \in Loops, op[p].pc # "idle", NEW r,
         Good(r, claims[op[p].job]), row' = [row EXCEPT ![op[p].job] = r],
         op' \in [Loops -> Busy \cup {Idle}], GoodOps',
         held' \in [Jobs -> SUBSET Workers], overwritten' \subseteq Jobs,
         UNCHANGED <<due, claims>>
  PROVE  IInv'
  <1>1. op[p].job \in Jobs
    BY BusyOp DEF IInv
  <1>2. row' \in [Jobs -> Row \cup {Unborn, Gone}] /\ GoodRows'
    BY <1>1, WriteKeeps
  <1> QED BY <1>2 DEF IInv, TypeOK, GoodDue

LEMMA ReleaseTyped ==
  ASSUME TypeOK, NEW p \in Loops, Release(p)
  PROVE  held' \in [Jobs -> SUBSET Workers]
  BY DEF TypeOK, Release

-----------------------------------------------------------------------------
(* The handlers *)

LEMMA EnqueueBeginKeeps ==
  ASSUME IInv, NEW p \in Procs, NEW j \in Jobs, EnqueueBegin(p, j)
  PROVE  IInv'
  <1>1. PICK sched \in {"none", "future", "due"} :
          op' = [op EXCEPT ![p] = [pc |-> "create", job |-> j, by |-> NoWorker,
                                   copy |-> NewJob(sched)]]
    BY DEF EnqueueBegin
  <1> DEFINE o == [pc |-> "create", job |-> j, by |-> NoWorker,
                   copy |-> NewJob(sched)]
  <1>2. /\ o \in Busy /\ o.job = j /\ o.pc = "create"
        /\ Good(o.copy, claims[j]) /\ CopyFits("create", o.copy)
    <2>1. claims[j] \in Nat
      BY DEF IInv, TypeOK
    <2>2. /\ Good(NewJob(sched), claims[j])
          /\ NewJob(sched).status \in {"pending", "scheduled"}
      BY <2>1, NewJobGood
    <2> QED BY <2>2 DEF Busy, CopyFits, Good
  <1>3. op' \in [Loops -> Busy \cup {Idle}] /\ GoodOps'
    <2>1. p \in Loops /\ op' = [op EXCEPT ![p] = o] /\ UNCHANGED claims
      BY <1>1 DEF EnqueueBegin, Loops
    <2> HIDE DEF o
    <2> QED BY <1>2, <2>1, StepKeeps
  <1> QED BY <1>3 DEF EnqueueBegin, IInv, TypeOK, GoodRows, GoodDue, InDB

\* A goroutine stays with its job and goes to newpc with the good copy r.
LEMMA MoveKeeps ==
  ASSUME IInv, NEW p \in Loops, op[p].pc # "idle",
         NEW newpc \in {"publish", "retried"}, NEW r,
         Good(r, claims[op[p].job]), r.status \in {"pending", "scheduled"},
         Step(p, newpc, r), UNCHANGED claims
  PROVE  op' \in [Loops -> Busy \cup {Idle}] /\ GoodOps'
  <1> DEFINE o == [pc |-> newpc, job |-> op[p].job, by |-> op[p].by, copy |-> r]
  <1>1. op[p] \in Busy
    BY BusyOp DEF IInv
  <1>2. /\ o \in Busy /\ Good(o.copy, claims[o.job]) /\ CopyFits(o.pc, o.copy)
        /\ op' = [op EXCEPT ![p] = o]
    BY <1>1 DEF Busy, Good, CopyFits, Step
  <1> HIDE DEF o
  <1> QED BY <1>2, StepKeeps

\* What IInv says of the copy a busy goroutine holds.
LEMMA CopyGood ==
  ASSUME IInv, NEW p \in Loops, op[p].pc # "idle"
  PROVE  /\ Good(op[p].copy, claims[op[p].job]) /\ claims[op[p].job] \in Nat
         /\ CopyFits(op[p].pc, op[p].copy)
         /\ held' = held => held' \in [Jobs -> SUBSET Workers]
  BY BusyOp DEF IInv, GoodOps, TypeOK

LEMMA ContinueKeeps ==
  ASSUME IInv, NEW p \in Loops, Continue(p)
  PROVE  IInv'
  <1> DEFINE r == op[p].copy
             n == claims[op[p].job]
             Others == op' \in [Loops -> Busy \cup {Idle}] /\ GoodOps'
  <1>0. op[p].pc # "idle" /\ UNCHANGED <<due, claims>>
    BY DEF Continue, EnqueueCreate, PublishSave, AckSave, NackRetry, NackDLQ,
           NackFinish, CancelSave, RetrySave
  <1>1. /\ Good(r, n) /\ n \in Nat /\ CopyFits(op[p].pc, r)
        /\ held' = held => held' \in [Jobs -> SUBSET Workers]
        /\ op[p].job \in Jobs
    BY <1>0, CopyGood, BusyOp DEF IInv
  <1>2. Finish(p) => Others
    BY <1>0, FinishKeeps
  <1>3. Release(p) => held' \in [Jobs -> SUBSET Workers]
    BY ReleaseTyped DEF IInv
  <1> HIDE DEF Others
  <1>4. ASSUME NEW x, Good(x, n), row' = [row EXCEPT ![op[p].job] = x], Others,
               held' \in [Jobs -> SUBSET Workers], overwritten' \subseteq Jobs
        PROVE  IInv'
    BY <1>0, <1>4, SaveKeeps DEF Others
  <1>13. overwritten' \subseteq Jobs
    BY <1>1 DEF Continue, EnqueueCreate, PublishSave, AckSave, NackRetry, NackDLQ,
       NackFinish, CancelSave, RetrySave, Save, IInv, TypeOK
  <1>5. CASE EnqueueCreate(p)
    <2>1. CopyFits("create", r)
      BY <1>1, <1>5 DEF EnqueueCreate
    <2>2. Others
      BY <1>0, <1>1, <1>2, <1>5, <2>1, MoveKeeps DEF EnqueueCreate, CopyFits, Others
    <2> QED BY <1>1, <1>4, <1>13, <1>5, <2>2 DEF EnqueueCreate
  <1>6. CASE PublishSave(p)
    BY <1>1, <1>2, <1>4, <1>13, <1>6 DEF PublishSave, Save
  <1>7. CASE AckSave(p)
    <2>1. Good(MarkCompleted(r), n)
      BY <1>1, <1>7, MarksGood DEF AckSave, CopyFits
    <2> QED BY <1>2, <1>3, <1>4, <1>13, <1>7, <2>1 DEF AckSave, Save
  <1>8. CASE NackRetry(p)
    <2>1. Good(MarkRetry(r), n) /\ MarkRetry(r).status = "pending"
      BY <1>1, MarksGood
    <2>2. Others
      BY <1>0, <1>8, <2>1, MoveKeeps DEF NackRetry, Others
    <2> QED BY <1>3, <1>4, <1>13, <1>8, <2>1, <2>2 DEF NackRetry, Save
  <1>9. CASE NackDLQ(p)
    <2>1. Good(MarkDLQ(r), n)
      BY <1>1, <1>9, MarksGood DEF NackDLQ, CopyFits
    <2> QED BY <1>2, <1>3, <1>4, <1>13, <1>9, <2>1 DEF NackDLQ, Save
  <1>10. CASE NackFinish(p)
    <2>1. CopyFits("retried", r)
      BY <1>1, <1>10 DEF NackFinish
    <2>2. Others
      BY <1>0, <1>1, <1>2, <1>10, <2>1, MoveKeeps DEF NackFinish, CopyFits, Others
    <2> QED BY <1>10, <1>13, <2>2
        DEF NackFinish, IInv, TypeOK, GoodRows, GoodDue, InDB, Others
  <1>11. CASE CancelSave(p)
    BY <1>1, <1>2, <1>4, <1>13, <1>11, MarksGood DEF CancelSave, Save
  <1>12. CASE RetrySave(p)
    BY <1>1, <1>2, <1>4, <1>13, <1>12, MarksGood DEF RetrySave, Save
  <1> QED BY <1>5, <1>6, <1>7, <1>8, <1>9, <1>10, <1>11, <1>12
      DEF Continue

\* The first step of a handler.
Request(p, j) ==
  \/ EnqueueBegin(p, j)
  \/ \E w \in Workers : AckRead(p, j, w) \/ NackRead(p, j, w)
  \/ CancelRead(p, j)
  \/ RetryRead(p, j)

LEMMA RequestKeeps ==
  ASSUME IInv, NEW p \in Procs, NEW j \in Jobs, Request(p, j)
  PROVE  IInv'
  <1>1. CASE EnqueueBegin(p, j)
    BY <1>1, EnqueueBeginKeeps
  <1>2. ASSUME NEW w \in Workers, AckRead(p, j, w) \/ NackRead(p, j, w)
        PROVE  IInv'
    BY <1>2, ReadKeeps DEF AckRead, NackRead, OwnedBy, Has
  <1>3. CASE CancelRead(p, j)
    BY <1>3, ReadKeeps DEF CancelRead
  <1>4. CASE RetryRead(p, j)
    BY <1>4, ReadKeeps DEF RetryRead
  <1> QED BY <1>1, <1>2, <1>3, <1>4 DEF Request

\* A handler that ends early leaves the table alone.
LEMMA StopKeeps ==
  ASSUME IInv, NEW p \in Loops, Fail(p) \/ Crash(p)
  PROVE  IInv'
  <1>1. Finish(p) /\ UNCHANGED <<row, claims, held, overwritten>>
    BY DEF Fail, Crash
  <1>2. op' \in [Loops -> Busy \cup {Idle}] /\ GoodOps'
    BY <1>1, FinishKeeps
  <1>3. /\ due' \in [Schedulers -> SUBSET [job: Jobs, copy: Row]]
        /\ \A s \in Schedulers : due'[s] \subseteq due[s]
    BY DEF Fail, Crash, IInv, TypeOK
  <1> QED BY <1>1, <1>2, <1>3 DEF IInv, TypeOK, GoodRows, GoodDue, InDB

-----------------------------------------------------------------------------
(* The scheduler loop *)

LEMMA FindDueKeeps ==
  ASSUME IInv, NEW s \in Schedulers, FindDueScheduled(s)
  PROVE  IInv'
  <1> DEFINE D == {[job |-> j, copy |-> row[j]] : j \in Due}
  <1>1. \A d \in D : /\ d \in [job: Jobs, copy: Row]
                     /\ Good(d.copy, claims[d.job]) /\ d.copy.status = "scheduled"
    <2>1. \A j \in Due : /\ j \in Jobs /\ row[j].status = "scheduled"
                         /\ row[j] \in Row /\ Good(row[j], claims[j])
      BY DEF Due, Has, IInv, GoodRows, Good
    <2> QED BY <2>1
  <1>2. due' = [due EXCEPT ![s] = D] /\ UNCHANGED <<row, op, claims, held, overwritten>>
    BY DEF FindDueScheduled
  <1> HIDE DEF D
  <1>3. /\ due' \in [Schedulers -> SUBSET [job: Jobs, copy: Row]]
        /\ GoodDue'
    BY <1>1, <1>2 DEF IInv, TypeOK, GoodDue
  <1> QED BY <1>2, <1>3 DEF IInv, TypeOK, GoodRows, GoodOps, InDB

LEMMA PromoteKeeps ==
  ASSUME IInv, NEW s \in Schedulers, Promote(s) \/ PromoteSkips(s)
  PROVE  IInv'
  <1>1. PICK d \in due[s] : due' = [due EXCEPT ![s] = @ \ {d}]
    BY DEF Promote, PromoteSkips
  <1>2. /\ due' \in [Schedulers -> SUBSET [job: Jobs, copy: Row]]
        /\ \A t \in Schedulers : due'[t] \subseteq due[t]
        /\ UNCHANGED <<claims, held>> /\ s \in Loops
    BY <1>1 DEF Promote, PromoteSkips, IInv, TypeOK, Loops
  <1>3. GoodDue'
    BY <1>2 DEF IInv, GoodDue
  <1>4. CASE PromoteSkips(s)
    BY <1>2, <1>3, <1>4 DEF PromoteSkips, IInv, TypeOK, GoodRows, GoodOps, InDB
  <1>5. CASE Promote(s)
    <2>1. PICK e \in due[s] :
            /\ row' = [row EXCEPT ![e.job] = MarkPendingForSchedule(e.copy)]
            /\ op' = [op EXCEPT ![s] =
                        [pc |-> "publish", job |-> e.job, by |-> NoWorker,
                         copy |-> MarkPendingForSchedule(e.copy)]]
      BY <1>5 DEF Promote, Save
    <2> DEFINE x == MarkPendingForSchedule(e.copy)
               o == [pc |-> "publish", job |-> e.job, by |-> NoWorker, copy |-> x]
    <2>2. /\ e.job \in Jobs /\ claims[e.job] \in Nat
          /\ Good(e.copy, claims[e.job]) /\ e.copy.status = "scheduled"
      BY DEF IInv, TypeOK, GoodDue
    <2>3. Good(x, claims[e.job]) /\ x.status = "pending"
      BY <2>2, MarksGood
    <2>4. o \in Busy /\ Good(o.copy, claims[o.job]) /\ CopyFits(o.pc, o.copy)
      BY <2>2, <2>3 DEF Busy, Good, CopyFits
    <2>5. op' \in [Loops -> Busy \cup {Idle}] /\ GoodOps'
      <3>1. op' = [op EXCEPT ![s] = o]
        BY <2>1
      <3> HIDE DEF o
      <3> QED BY <1>2, <2>4, <3>1, StepKeeps
    <2>6. row' \in [Jobs -> Row \cup {Unborn, Gone}] /\ GoodRows'
      <3>1. row' = [row EXCEPT ![e.job] = x]
        BY <2>1
      <3> HIDE DEF x
      <3> QED BY <1>2, <2>2, <2>3, <3>1, WriteKeeps
    <2>7. overwritten' \subseteq Jobs
      <3>1. PICK d2 \in due[s] : Save(d2, MarkPendingForSchedule(d2.copy))
        BY <1>5 DEF Promote
      <3> QED BY <3>1 DEF Save, IInv, TypeOK
    <2> QED BY <1>2, <1>3, <2>5, <2>6, <2>7 DEF IInv, TypeOK
  <1> QED BY <1>4, <1>5

-----------------------------------------------------------------------------
(* Single statements on the table *)

\* A statement that replaces rows by good rows, or deletes them.
LEMMA StatementKeeps ==
  ASSUME IInv, row' \in [Jobs -> Row \cup {Unborn, Gone}],
         \A j \in Jobs : row'[j] \in Row => Good(row'[j], claims[j]),
         held' \in [Jobs -> SUBSET Workers], UNCHANGED <<op, due, claims, overwritten>>
  PROVE  IInv'
  <1>1. GoodRows'
    BY ConstantsAssumption DEF GoodRows, InDB
  <1> QED BY <1>1 DEF IInv, TypeOK, GoodOps, GoodDue

\* The lease of a running row is renewed or runs out.
LEMMA LeaseGood ==
  ASSUME IInv, NEW j \in Jobs, Has(j, {"running"}), NEW x \in {"fresh", "expired"}
  PROVE  /\ row[j] \in Row /\ Good(row[j], claims[j])
         /\ Good([row[j] EXCEPT !.lease = x], claims[j])
  BY DEF IInv, GoodRows, Has, Good, Row, Consistent, StampedWhenTerminal,
         NamesItsWorker, ScheduledHasInstant, Earned, IsTerminal

LEMMA HeartbeatKeeps ==
  ASSUME IInv, NEW w \in Workers, Heartbeat(w)
  PROVE  IInv'
  <1>1. ASSUME NEW j \in RunningOf(w)
        PROVE  Good([row[j] EXCEPT !.lease = "fresh"], claims[j])
    BY LeaseGood DEF RunningOf
  <1>2. \A j \in Jobs : row[j] \in Row => Good(row[j], claims[j])
    BY InDBRow DEF IInv, GoodRows
  <1>3. /\ row' \in [Jobs -> Row \cup {Unborn, Gone}]
        /\ \A j \in Jobs : row'[j] \in Row => Good(row'[j], claims[j])
    BY <1>1, <1>2 DEF Heartbeat, IInv, TypeOK, Good
  <1>4. held' \in [Jobs -> SUBSET Workers]
    BY DEF Heartbeat, IInv, TypeOK
  <1> QED BY <1>3, <1>4, StatementKeeps DEF Heartbeat

\* A waiting row that is claimed is a good running row with one claim more.
LEMMA ClaimedGood ==
  ASSUME NEW r, NEW n \in Nat, Good(r, n), r.status \in {"pending", "scheduled"},
         NEW w \in Workers
  PROVE  Good([r EXCEPT !.status = "running", !.worker = w,
                        !.attempt = r.attempt + 1, !.lease = "fresh"], n + 1)
  <1>1. r.attempt \in Nat /\ r.attempt <= n /\ r \in Row
    BY DEF Good, Earned, Row
  <1>2. PICK a \in Nat : a = r.attempt + 1
    BY <1>1
  <1> DEFINE x == [r EXCEPT !.status = "running", !.worker = w, !.attempt = a,
                            !.lease = "fresh"]
  <1>3. x \in Row /\ Consistent(x)
    BY <1>1, ConstantsAssumption
    DEF Good, Row, Active, Terminal, Consistent, StampedWhenTerminal,
        NamesItsWorker, ScheduledHasInstant, IsTerminal
  <1>4. Earned(x, n + 1)
    <2>1. x.attempt = a /\ x.status = "running"
      BY <1>1 DEF Row
    <2> QED BY <1>1, <1>2, <2>1 DEF Earned
  <1> QED BY <1>2, <1>3, <1>4 DEF Good

\* The one step that counts a claim: what was good stays good, since claims
\* only grow.
LEMMA HandOutKeeps ==
  ASSUME IInv, NEW w \in Workers, NEW S \in SUBSET Jobs, NEW T \in SUBSET Jobs,
         \A j \in S : Has(j, {"pending", "scheduled"}),
         \A j \in T : Has(j, {"running"}),
         HandOut(S, T, w), UNCHANGED <<op, due, overwritten>>
  PROVE  IInv'
  <1>1. ASSUME NEW j \in Jobs
        PROVE  /\ claims[j] \in Nat /\ claims'[j] \in Nat /\ claims[j] <= claims'[j]
               /\ row[j] \in Row \cup {Unborn, Gone}
               /\ row[j] \in Row => Good(row[j], claims[j])
    <2>1. claims[j] \in Nat
      BY DEF IInv, TypeOK
    <2>2. claims'[j] = IF j \in S THEN claims[j] + 1 ELSE claims[j]
      BY DEF HandOut
    <2>3. claims'[j] \in Nat /\ claims[j] <= claims'[j]
      BY <2>1, <2>2
    <2> QED BY <2>1, <2>3, InDBRow DEF IInv, GoodRows, TypeOK
  <1>2. ASSUME NEW j \in Jobs, NEW r, Good(r, claims[j])
        PROVE  Good(r, claims'[j])
    BY <1>1, <1>2, GoodMonotone
  <1>3. ASSUME NEW j \in Jobs
        PROVE  /\ row'[j] \in Row \cup {Unborn, Gone}
               /\ row'[j] \in Row => Good(row'[j], claims'[j])
    <2>1. CASE j \in S
      <3>1. Good(row[j], claims[j]) /\ row[j].status \in {"pending", "scheduled"}
        BY <2>1 DEF Has, IInv, GoodRows
      <3>2. claims'[j] = claims[j] + 1
        BY <2>1 DEF HandOut
      <3>3. row'[j] = [row[j] EXCEPT !.status = "running", !.worker = w,
                         !.attempt = row[j].attempt + 1, !.lease = "fresh"]
        BY <2>1 DEF HandOut
      <3>4. Good([row[j] EXCEPT !.status = "running", !.worker = w,
                    !.attempt = row[j].attempt + 1, !.lease = "fresh"],
                 claims[j] + 1)
        BY <1>1, <3>1, ClaimedGood
      <3> QED BY <3>2, <3>3, <3>4 DEF Good
    <2>2. CASE j \in T \ S
      <3>1. Good([row[j] EXCEPT !.lease = "fresh"], claims[j])
        BY <2>2, LeaseGood
      <3>2. row'[j] = [row[j] EXCEPT !.lease = "fresh"]
        BY <2>2 DEF HandOut
      <3> QED BY <1>2, <3>1, <3>2 DEF Good
    <2>3. CASE j \notin S \cup T
      <3>1. row'[j] = row[j]
        BY <2>3 DEF HandOut
      <3> QED BY <1>1, <1>2, <3>1
    <2> QED BY <2>1, <2>2, <2>3
  <1>4. row' \in [Jobs -> Row \cup {Unborn, Gone}] /\ GoodRows'
    <2>1. row' = [j \in Jobs |-> row'[j]]
      BY DEF HandOut
    <2>2. row' \in [Jobs -> Row \cup {Unborn, Gone}]
      BY <1>3, <2>1
    <2>3. GoodRows'
      BY <1>3, ConstantsAssumption DEF GoodRows, InDB
    <2> QED BY <2>2, <2>3
  <1>5. claims' \in [Jobs -> Nat] /\ held' \in [Jobs -> SUBSET Workers]
    <2>1. claims' = [j \in Jobs |-> claims'[j]]
      BY DEF HandOut
    <2>2. claims' \in [Jobs -> Nat]
      BY <1>1, <2>1
    <2>3. held' \in [Jobs -> SUBSET Workers]
      BY DEF HandOut, IInv, TypeOK
    <2> QED BY <2>2, <2>3
  <1>6. GoodOps'
    <2>1. ASSUME NEW p \in Loops, op[p] # Idle
          PROVE  op[p].job \in Jobs
      BY <2>1 DEF IInv, TypeOK, Busy
    <2> QED BY <1>2, <2>1 DEF IInv, GoodOps
  <1>7. GoodDue'
    <2>1. ASSUME NEW s \in Schedulers, NEW d \in due[s]
          PROVE  d.job \in Jobs
      BY DEF IInv, TypeOK
    <2> QED BY <1>2, <2>1 DEF IInv, GoodDue
  <1> QED BY <1>4, <1>5, <1>6, <1>7 DEF IInv, TypeOK

LEMMA PullKeeps ==
  ASSUME IInv, NEW w \in Workers, Pull(w)
  PROVE  IInv'
  <1> DEFINE T(S) == IF w \in Registered /\ S \cap PlatformJobs = {}
                     THEN RunningOf(w) ELSE {}
  <1>1. PICK Q \in {PlatformJobs, Jobs \ PlatformJobs}, skip \in SUBSET Copied,
             S \in SUBSET Jobs :
          FirstClaimable(S, Q, skip) /\ HandOut(S, T(S), w)
    BY DEF Pull, Dequeue
  <1>2. \A j \in S : Has(j, {"pending", "scheduled"})
    BY <1>1 DEF FirstClaimable, Claimable
  <1>3. T(S) \in SUBSET Jobs /\ \A j \in T(S) : Has(j, {"running"})
    BY DEF RunningOf
  <1>4. UNCHANGED <<op, due, overwritten>>
    BY DEF Pull, Dequeue
  <1> HIDE DEF T
  <1> QED BY <1>1, <1>2, <1>3, <1>4, HandOutKeeps

LEMMA ReclaimKeeps ==
  ASSUME IInv, ReclaimExpired
  PROVE  IInv'
  <1>1. PICK skip \in SUBSET Copied :
          row' = [j \in Jobs |->
                    IF j \in Expired \ skip
                    THEN [row[j] EXCEPT !.status = "pending",
                            !.worker = NoWorker, !.lease = "none"]
                    ELSE row[j]]
    BY DEF ReclaimExpired
  <1>2. ASSUME NEW j \in Expired
        PROVE  Good([row[j] EXCEPT !.status = "pending", !.worker = NoWorker,
                                   !.lease = "none"], claims[j])
    <2>1. Good(row[j], claims[j]) /\ row[j].status = "running"
      BY DEF Expired, Has, IInv, GoodRows
    <2> QED BY <2>1
        DEF Good, Row, Active, Terminal, Consistent, StampedWhenTerminal,
            NamesItsWorker, ScheduledHasInstant, Earned, IsTerminal
  <1>3. \A j \in Jobs : row[j] \in Row => Good(row[j], claims[j])
    BY InDBRow DEF IInv, GoodRows
  <1>4. /\ row' \in [Jobs -> Row \cup {Unborn, Gone}]
        /\ \A j \in Jobs : row'[j] \in Row => Good(row'[j], claims[j])
    BY <1>1, <1>2, <1>3 DEF IInv, TypeOK, Good
  <1> QED BY <1>4, StatementKeeps DEF ReclaimExpired, IInv, TypeOK

LEMMA PurgeOrExpiryKeeps ==
  ASSUME IInv, NEW j \in Jobs, Purge(j) \/ LeaseExpires(j)
  PROVE  IInv'
  <1>1. \A i \in Jobs : row[i] \in Row => Good(row[i], claims[i])
    BY InDBRow DEF IInv, GoodRows
  <1>2. LeaseExpires(j) => Good([row[j] EXCEPT !.lease = "expired"], claims[j])
    BY LeaseGood DEF LeaseExpires
  <1>3. /\ row' \in [Jobs -> Row \cup {Unborn, Gone}]
        /\ \A i \in Jobs : row'[i] \in Row => Good(row'[i], claims[i])
    BY <1>1, <1>2, ConstantsAssumption DEF Purge, LeaseExpires, IInv, TypeOK, Good
  <1>4. held' \in [Jobs -> SUBSET Workers]
    BY DEF Purge, LeaseExpires, IInv, TypeOK
  <1> QED BY <1>3, <1>4, StatementKeeps DEF Purge, LeaseExpires

LEMMA ArriveKeeps ==
  ASSUME IInv, NEW j \in Jobs, ScheduleArrives(j)
  PROVE  IInv'
  <1>1. ASSUME NEW r, NEW n \in Nat, Good(r, n)
        PROVE  Arrive(r) \in Row /\ Good(Arrive(r), n) /\ Arrive(r).status = r.status
    BY <1>1, MarksGood DEF Good
  <1> HIDE DEF Arrive
  <1>2. \A i \in Jobs : /\ claims[i] \in Nat
                        /\ row[i] \in Row => Good(row[i], claims[i])
    BY InDBRow DEF IInv, GoodRows, TypeOK
  <1>3. /\ row' \in [Jobs -> Row \cup {Unborn, Gone}]
        /\ GoodRows'
    <2>1. row' = IF InDB(j) THEN [row EXCEPT ![j] = Arrive(row[j])] ELSE row
      BY DEF ScheduleArrives, IInv, TypeOK
    <2>2. InDB(j) => Good(Arrive(row[j]), claims[j])
      BY <1>1, <1>2, InDBRow DEF IInv
    <2>3. UNCHANGED claims
      BY DEF ScheduleArrives
    <2>4. CASE InDB(j)
      BY <2>1, <2>2, <2>3, <2>4, WriteKeeps
    <2>5. CASE ~InDB(j)
      BY <2>1, <2>3, <2>5 DEF IInv, TypeOK, GoodRows, InDB
    <2> QED BY <2>4, <2>5
  <1>4. op' \in [Loops -> Busy \cup {Idle}] /\ GoodOps'
    <2>1. ASSUME NEW p \in Loops
          PROVE  /\ op'[p] \in Busy \cup {Idle}
                 /\ op'[p] # Idle =>
                      /\ Good(op'[p].copy, claims[op'[p].job])
                      /\ CopyFits(op'[p].pc, op'[p].copy)
      <3>1. CASE op[p] # Idle /\ op[p].job = j
        <4>1. op[p] \in Busy /\ Good(op[p].copy, claims[j]) /\ CopyFits(op[p].pc, op[p].copy)
          BY <3>1 DEF IInv, TypeOK, GoodOps
        <4>2. op'[p] = [op[p] EXCEPT !.copy = Arrive(op[p].copy)]
          BY <3>1, <4>1 DEF ScheduleArrives, Busy
        <4>3. /\ Arrive(op[p].copy) \in Row /\ Good(Arrive(op[p].copy), claims[j])
              /\ Arrive(op[p].copy).status = op[p].copy.status
          BY <1>1, <1>2, <4>1
        <4> QED BY <3>1, <4>1, <4>2, <4>3 DEF Busy, CopyFits
      <3>2. CASE ~(op[p] # Idle /\ op[p].job = j)
        <4>1. op'[p] = op[p]
          BY <3>2 DEF ScheduleArrives
        <4> QED BY <4>1 DEF IInv, TypeOK, GoodOps
      <3> QED BY <3>1, <3>2
    <2>2. op' = [p \in Loops |-> op'[p]] /\ UNCHANGED claims
      BY DEF ScheduleArrives
    <2>3. op' \in [Loops -> Busy \cup {Idle}]
      BY <2>1, <2>2
    <2> QED BY <2>1, <2>2, <2>3 DEF GoodOps
  <1> QED BY <1>3, <1>4 DEF ScheduleArrives, IInv, TypeOK, GoodDue

-----------------------------------------------------------------------------
(* The theorems *)

LEMMA InitGood == Init => IInv
  BY ConstantsAssumption
  DEF Init, IInv, TypeOK, GoodRows, GoodOps, GoodDue, InDB, Loops

LEMMA NextKeeps == IInv /\ [Next]_vars => IInv'
  <1> SUFFICES ASSUME IInv, [Next]_vars
               PROVE  IInv'
    OBVIOUS
  <1>1. ASSUME NEW p \in Procs,
               Enqueue(p) \/ Ack(p) \/ Nack(p) \/ Cancel(p) \/ Retry(p)
        PROVE  IInv'
    <2>1. Continue(p) \/ \E j \in Jobs : Request(p, j)
      BY <1>1 DEF Enqueue, Ack, Nack, Cancel, Retry, Continue, Request
    <2> QED BY <2>1, RequestKeeps, ContinueKeeps DEF Loops
  <1>2. ASSUME NEW p \in Loops, PublishSave(p) \/ Fail(p) \/ Crash(p)
        PROVE  IInv'
    BY <1>2, ContinueKeeps, StopKeeps DEF Continue
  <1>3. ASSUME NEW w \in Workers, Pull(w) \/ Heartbeat(w)
        PROVE  IInv'
    BY <1>3, PullKeeps, HeartbeatKeeps
  <1>4. CASE SchedulerLoop
    BY <1>4, FindDueKeeps, PromoteKeeps, ReclaimKeeps DEF SchedulerLoop
  <1>6. ASSUME NEW j \in Jobs, Purge(j) \/ ScheduleArrives(j) \/ LeaseExpires(j)
        PROVE  IInv'
    BY <1>6, PurgeOrExpiryKeeps, ArriveKeeps
  <1>7. CASE UNCHANGED vars
    BY <1>7 DEF vars, IInv, TypeOK, GoodRows, GoodOps, GoodDue, InDB
  <1> QED BY <1>1, <1>2, <1>3, <1>4, <1>6, <1>7 DEF Next

LEMMA AlwaysIInv == Spec => []IInv
  BY InitGood, NextKeeps, PTL DEF Spec

\* The table, the copies in flight and the lists of due rows stay well formed,
\* for any number of jobs, workers, requests and scheduler loops.
THEOREM TypeCorrect == Spec => []TypeOK
  <1>1. IInv => TypeOK
    BY DEF IInv
  <1> QED BY <1>1, AlwaysIInv, PTL

\* ValidateTerminalInvariant holds of every row, a running row names its
\* worker and has a lease, a waiting row neither, and a scheduled row has its
\* instant, although the handlers overwrite each other's rows.
THEOREM RowsStayConsistent == Spec => []RowsConsistent
  <1>1. IInv => RowsConsistent
    BY DEF IInv, GoodRows, Good, RowsConsistent
  <1> QED BY <1>1, AlwaysIInv, PTL

\* No row counts an attempt that no worker was given, and none is
\* dead-lettered before its attempts are used up.
THEOREM AttemptsStayEarned == Spec => []AttemptsEarned
  <1>1. IInv => AttemptsEarned
    BY DEF IInv, GoodRows, Good, AttemptsEarned
  <1> QED BY <1>1, AlwaysIInv, PTL

-----------------------------------------------------------------------------
(* The jobs whose row was never overwritten: what the row says of the       *)
(* workers that have the job, and what a copy in flight has to do with it.  *)

\* What a row of the table says of the workers that have the job: h.
RowFits(r, h) ==
  /\ r.status # "failed"
  /\ r.status = "running" => h = IF r.lease = "fresh" THEN {r.worker} ELSE {}
  /\ r.status \in {"pending", "scheduled", "dlq"} => h = {}
  /\ r.status \in {"running", "dlq"} => r.sched # "future"
Fits(r, h) == /\ r \in Row => RowFits(r, h)
              /\ r = Unborn => h = {}

\* A handler o in the middle of its work, and the row r of its job: whether or
\* not its copy is out of date, it is what the checks of the handler admitted.
OpFits(o, r) ==
  /\ o.pc = "create" <=> r = Unborn
  /\ o.pc \in {"ack", "nack"} => o.by = o.copy.worker
  /\ o.pc = "retry" => o.copy.status \in {"failed", "dlq"}
  /\ o.pc = "cancel" => o.copy.status \in {"pending", "scheduled", "running", "failed"}

RowsFit == \A j \in Jobs \ overwritten : Fits(row[j], held[j])
OpsFit == \A p \in Loops : op[p] # Idle => OpFits(op[p], row[op[p].job])
DueFits == \A s \in Schedulers : \A d \in due[s] :
             row[d.job] # Unborn /\ d.copy.sched = "due"

\* An id is generated once.
OneCreator == \A p, q \in Loops :
  /\ op[p] # Idle /\ op[q] # Idle /\ op[p].job = op[q].job
  /\ op[p].pc = "create" /\ op[q].pc = "create"
  => p = q

SInv == RowsFit /\ OpsFit /\ DueFits /\ OneCreator

-----------------------------------------------------------------------------
(* Steps that preserve SInv *)

\* A handler writes the row of its job and goes on, or ends.
LEMMA HandlerKeepsFit ==
  ASSUME TypeOK, SInv, NEW p \in Loops, op[p] # Idle,
         NEW x \in Row, NEW h, NEW o,
         row' = [row EXCEPT ![op[p].job] = x],
         held' = [held EXCEPT ![op[p].job] = h],
         op' = [op EXCEPT ![p] = o], due' = due,
         overwritten \subseteq overwritten',
         op[p].job \notin overwritten' => RowFits(x, h),
         o # Idle => o.job = op[p].job /\ OpFits(o, x)
  PROVE  SInv'
  <1> DEFINE j == op[p].job
  <1>1. j \in Jobs /\ x # Unborn
    BY ConstantsAssumption DEF TypeOK, Busy
  <1>2. /\ \A i \in Jobs : /\ row'[i] = IF i = j THEN x ELSE row[i]
                           /\ held'[i] = IF i = j THEN h ELSE held[i]
        /\ \A q \in Loops : op'[q] = IF q = p THEN o ELSE op[q]
    BY <1>1 DEF TypeOK
  <1>3. \A q \in Loops : op[q] # Idle => op[q].job \in Jobs
    BY DEF TypeOK, Busy
  <1>4. \A s \in Schedulers : \A d \in due[s] : d.job \in Jobs
    BY DEF TypeOK
  <1>5. RowsFit'
    BY <1>1, <1>2 DEF SInv, RowsFit, Fits
  <1>6. OpsFit'
    <2> SUFFICES ASSUME NEW q \in Loops, op'[q] # Idle
                 PROVE  OpFits(op'[q], row'[op'[q].job])
      BY DEF OpsFit
    <2>1. CASE q = p
      BY <1>1, <1>2, <2>1
    <2>2. CASE q # p /\ op[q].job # j
      <3>1. op'[q] = op[q] /\ op[q].job \in Jobs
        BY <1>2, <1>3, <2>2
      <3> QED BY <1>2, <2>2, <3>1 DEF SInv, OpsFit
    <2>3. CASE q # p /\ op[q].job = j
      <3>1. op'[q] = op[q] /\ op[q] # Idle /\ row'[j] = x
        BY <1>1, <1>2, <2>3
      <3>2. OpFits(op[q], row[j]) /\ OpFits(op[p], row[j])
        BY <2>3, <3>1 DEF SInv, OpsFit
      <3>3. op[q].pc # "create"
        BY <2>3, <3>1, <3>2 DEF SInv, OneCreator, OpFits
      <3> QED BY <1>1, <2>3, <3>1, <3>2, <3>3 DEF OpFits
    <2> QED BY <2>1, <2>2, <2>3
  <1>7. DueFits'
    BY <1>1, <1>2, <1>4 DEF SInv, DueFits
  <1>8. OneCreator'
    <2>1. o # Idle => o.pc # "create"
      BY <1>1 DEF OpFits
    <2> QED BY <1>2, <2>1 DEF SInv, OneCreator
  <1> QED BY <1>5, <1>6, <1>7, <1>8 DEF SInv

\* A goroutine takes a copy of a row.
LEMMA ReadKeepsFit ==
  ASSUME TypeOK, SInv, NEW p \in Loops, op[p] = Idle, NEW j \in Jobs, NEW o,
         op' = [op EXCEPT ![p] = o], o.job = j, OpFits(o, row[j]),
         o.pc = "create" => j \notin Copied,
         UNCHANGED <<row, due, held, overwritten>>
  PROVE  SInv'
  <1>1. \A q \in Loops : op'[q] = IF q = p THEN o ELSE op[q]
    BY DEF TypeOK
  <1>2. o.pc = "create" => \A q \in Loops : op[q] # Idle => op[q].job # j
    BY DEF Copied
  <1>3. RowsFit' /\ DueFits'
    BY DEF SInv, RowsFit, DueFits
  <1>4. OpsFit'
    BY <1>1 DEF SInv, OpsFit
  <1>5. OneCreator'
    BY <1>1, <1>2 DEF SInv, OneCreator
  <1> QED BY <1>3, <1>4, <1>5 DEF SInv

\* A statement writes rows, whoever has copies of them.
LEMMA StatementKeepsFit ==
  ASSUME IInv, SInv, UNCHANGED <<op, due, overwritten>>,
         \A j \in Jobs \ overwritten : Fits(row'[j], held'[j]),
         \A j \in Jobs : row'[j] = Unborn <=> row[j] = Unborn
  PROVE  SInv'
  <1>1. RowsFit'
    BY DEF RowsFit
  <1>2. OpsFit'
    <2> SUFFICES ASSUME NEW p \in Loops, op[p] # Idle
                 PROVE  OpFits(op[p], row'[op[p].job])
      BY DEF OpsFit
    <2>1. op[p].job \in Jobs /\ OpFits(op[p], row[op[p].job])
      BY DEF IInv, TypeOK, Busy, SInv, OpsFit
    <2> QED BY <2>1 DEF OpFits
  <1>3. DueFits'
    BY DEF IInv, TypeOK, SInv, DueFits
  <1>4. OneCreator'
    BY DEF SInv, OneCreator
  <1> QED BY <1>1, <1>2, <1>3, <1>4 DEF SInv

\* Copies are dropped.
LEMMA DropKeepsFit ==
  ASSUME TypeOK, SInv, UNCHANGED <<row, held, overwritten>>,
         \A q \in Loops : op'[q] = op[q] \/ op'[q] = Idle,
         \A s \in Schedulers : due'[s] \subseteq due[s]
  PROVE  SInv'
  <1>1. RowsFit' /\ OpsFit' /\ DueFits'
    BY DEF SInv, RowsFit, OpsFit, DueFits
  <1>2. OneCreator'
    BY DEF SInv, OneCreator
  <1> QED BY <1>1, <1>2 DEF SInv

\* The list of due rows is read.
LEMMA FindDueKeepsFit ==
  ASSUME IInv, SInv, NEW s \in Schedulers, FindDueScheduled(s)
  PROVE  SInv'
  <1>1. /\ due' = [due EXCEPT ![s] = {[job |-> j, copy |-> row[j]] : j \in Due}]
        /\ UNCHANGED <<row, op, held, overwritten>>
    BY DEF FindDueScheduled
  <1>2. \A j \in Due : row[j] # Unborn /\ row[j].sched = "due"
    BY DEF Due, Has, InDB
  <1>3. DueFits'
    BY <1>1, <1>2 DEF IInv, TypeOK, SInv, DueFits
  <1>4. RowsFit' /\ OpsFit' /\ OneCreator'
    BY <1>1 DEF SInv, RowsFit, OpsFit, OneCreator
  <1> QED BY <1>3, <1>4 DEF SInv

\* An instant comes, for the row and for every copy of it alike.
LEMMA ArriveKeepsFit ==
  ASSUME IInv, SInv, NEW j \in Jobs, ScheduleArrives(j)
  PROVE  SInv'
  <1>1. ASSUME NEW r \in Row
        PROVE  /\ Arrive(r) \in Row
               /\ Arrive(r).status = r.status /\ Arrive(r).worker = r.worker
               /\ Arrive(r).lease = r.lease
               /\ r.sched # "future" => Arrive(r).sched = r.sched
    BY DEF Arrive, Row
  <1>2. /\ \A i \in Jobs : row'[i] = IF i = j /\ InDB(i) THEN Arrive(row[i]) ELSE row[i]
        /\ UNCHANGED <<due, held, overwritten>>
    BY DEF ScheduleArrives, IInv, TypeOK
  <1>3. ASSUME NEW q \in Loops
        PROVE  op'[q] = IF op[q] # Idle /\ op[q].job = j
                        THEN [op[q] EXCEPT !.copy = Arrive(op[q].copy)] ELSE op[q]
    BY DEF ScheduleArrives, IInv, TypeOK, Busy
  <1>4. ASSUME NEW q \in Loops
        PROVE  /\ op'[q] # Idle <=> op[q] # Idle
               /\ op[q] # Idle =>
                    /\ op[q].job \in Jobs /\ op[q].copy \in Row
                    /\ op'[q].job = op[q].job /\ op'[q].by = op[q].by
                    /\ op'[q].pc = op[q].pc
                    /\ op'[q].copy = IF op[q].job = j THEN Arrive(op[q].copy)
                                                      ELSE op[q].copy
    <2>1. op[q] \in Busy \cup {Idle}
      BY DEF IInv, TypeOK
    <2>2. CASE op[q] = Idle
      BY <1>3, <2>2
    <2>3. CASE op[q] # Idle /\ op[q].job # j
      <3>1. op'[q] = op[q] /\ op[q] \in Busy
        BY <1>3, <2>1, <2>3
      <3> QED BY <2>3, <3>1 DEF Busy
    <2>4. CASE op[q] # Idle /\ op[q].job = j
      BY <1>3, <2>1, <2>4 DEF Busy, Idle
    <2> QED BY <2>2, <2>3, <2>4
  <1>5. \A i \in Jobs : InDB(i) <=> row[i] \in Row
    BY InDBRow DEF IInv
  <1> HIDE DEF Arrive
  <1>6. \A i \in Jobs : row'[i] = Unborn <=> row[i] = Unborn
    BY <1>1, <1>2, <1>5, ConstantsAssumption
  <1>7. RowsFit'
    <2> SUFFICES ASSUME NEW i \in Jobs \ overwritten
                 PROVE  Fits(row'[i], held[i])
      BY <1>2 DEF RowsFit
    <2>1. Fits(row[i], held[i])
      BY DEF SInv, RowsFit
    <2>2. CASE i = j /\ InDB(i)
      <3>1. row[i] \in Row /\ row'[i] = Arrive(row[i])
        BY <1>2, <1>5, <2>2
      <3>2. RowFits(Arrive(row[i]), held[i])
        BY <1>1, <2>1, <3>1 DEF Fits, RowFits
      <3> QED BY <1>1, <3>1, <3>2, ConstantsAssumption DEF Fits
    <2> QED BY <1>2, <2>1, <2>2
  <1>8. OpsFit'
    <2> SUFFICES ASSUME NEW q \in Loops, op'[q] # Idle
                 PROVE  OpFits(op'[q], row'[op'[q].job])
      BY DEF OpsFit
    <2>1. op[q] # Idle /\ op[q].job \in Jobs /\ op[q].copy \in Row
          /\ OpFits(op[q], row[op[q].job])
      BY <1>4 DEF SInv, OpsFit
    <2>2. /\ op'[q].job = op[q].job /\ op'[q].by = op[q].by /\ op'[q].pc = op[q].pc
          /\ op'[q].copy.status = op[q].copy.status
          /\ op'[q].copy.worker = op[q].copy.worker
      BY <1>1, <1>4, <2>1
    <2> QED BY <1>6, <2>1, <2>2 DEF OpFits
  <1>9. DueFits'
    BY <1>2, <1>6 DEF IInv, TypeOK, SInv, DueFits
  <1>10. OneCreator'
    BY <1>4 DEF SInv, OneCreator
  <1> QED BY <1>7, <1>8, <1>9, <1>10 DEF SInv

-----------------------------------------------------------------------------
(* The place of a row in the abstract queue, and what a step makes of it *)

PlaceOf(r) == CASE r = Unborn -> "unborn"
                [] r = Gone -> "gone"
                [] r \in Row /\ r.status \in {"pending", "scheduled"} -> "waiting"
                [] r \in Row /\ r.status = "running" -> "held"
                [] OTHER -> r.status
HolderOf(r) == IF r \in Row /\ r.status = "running" THEN r.worker ELSE NoWorker

\* A job that has been granted n times may go from place a to place b.
Moves(a, b, n) ==
  \/ a = "unborn" /\ b = "waiting"
  \/ a = "held" /\ b \in {"completed", "waiting"}
  \/ a = "held" /\ b = "dlq" /\ n >= MaxAttempts
  \/ a \in {"waiting", "held"} /\ b = "cancelled"
  \/ a = "dlq" /\ b = "waiting"
  \/ a \in {"completed", "cancelled", "dlq"} /\ b = "gone"

LeaseStep == Lease!Next \/ UNCHANGED Lease!vars

\* What may become of a row r whose instant is still to come.
Delays(r, x) ==
  (r \in Row /\ r.sched = "future" /\ x # Gone) =>
    x = Arrive(r) \/ (x.sched = "future" /\ x.status \in {r.status, "cancelled"})
DelayStep == \A j \in Jobs \ overwritten' : Delays(row[j], row'[j])

\* What a step is proved to do.
FitStep == SInv' /\ DelayStep /\ LeaseStep

\* The refinement mapping, job by job.
LEMMA Mapping ==
  ASSUME TypeOK, NEW j \in Jobs
  PROVE  /\ j \in overwritten =>
              Place(j) = "overwritten" /\ Holder(j) = NoWorker /\ Grants(j) = 0
         /\ j \notin overwritten => /\ Place(j) = PlaceOf(row[j])
                                    /\ Holder(j) = HolderOf(row[j])
                                    /\ Grants(j) = claims[j]
  <1>1. \A s : Has(j, s) <=> row[j] \in Row /\ row[j].status \in s
    BY InDBRow DEF Has
  <1>2. CASE j \in overwritten
    BY <1>2 DEF Place, Holder, Grants
  <1>3. CASE j \notin overwritten
    <2>1. Holder(j) = HolderOf(row[j]) /\ Grants(j) = claims[j]
      BY <1>1, <1>3 DEF Holder, HolderOf, Grants
    <2>2. Place(j) = PlaceOf(row[j])
      BY <1>1, <1>3, ConstantsAssumption DEF Place, PlaceOf
    <2> QED BY <1>3, <2>1, <2>2
  <1> QED BY <1>2, <1>3

LEMMA MappingNext ==
  ASSUME TypeOK', NEW j \in Jobs
  PROVE  /\ j \in overwritten' =>
              Place(j)' = "overwritten" /\ Holder(j)' = NoWorker /\ Grants(j)' = 0
         /\ j \notin overwritten' => /\ Place(j)' = PlaceOf(row'[j])
                                     /\ Holder(j)' = HolderOf(row'[j])
                                     /\ Grants(j)' = claims'[j]
  <1>1. InDB(j)' <=> row'[j] \in Row
    BY ConstantsAssumption DEF TypeOK, InDB
  <1>2. \A s : Has(j, s)' <=> row'[j] \in Row /\ row'[j].status \in s
    BY <1>1 DEF Has
  <1>3. CASE j \in overwritten'
    BY <1>3 DEF Place, Holder, Grants
  <1>4. CASE j \notin overwritten'
    <2>1. Holder(j)' = HolderOf(row'[j]) /\ Grants(j)' = claims'[j]
      BY <1>2, <1>4 DEF Holder, HolderOf, Grants
    <2>2. Place(j)' = PlaceOf(row'[j])
      BY <1>2, <1>4, ConstantsAssumption DEF Place, PlaceOf
    <2> QED BY <1>4, <2>1, <2>2
  <1> QED BY <1>3, <1>4

\* A step that moves no job is a stutter of the abstract queue.
LEMMA StaysPut ==
  ASSUME TypeOK, TypeOK', UNCHANGED overwritten,
         \A j \in Jobs \ overwritten : /\ PlaceOf(row'[j]) = PlaceOf(row[j])
                                       /\ HolderOf(row'[j]) = HolderOf(row[j])
                                       /\ claims'[j] = claims[j]
  PROVE  LeaseStep
  <1>1. \A j \in Jobs :
          Place(j)' = Place(j) /\ Holder(j)' = Holder(j) /\ Grants(j)' = Grants(j)
    BY Mapping, MappingNext
  <1>2. /\ [j \in Jobs |-> Place(j)]' = [j \in Jobs |-> Place(j)]
        /\ [j \in Jobs |-> Holder(j)]' = [j \in Jobs |-> Holder(j)]
        /\ [j \in Jobs |-> Grants(j)]' = [j \in Jobs |-> Grants(j)]
    BY <1>1
  <1> QED BY <1>2 DEF LeaseStep, Lease!vars

\* A step that moves one job, to where nobody has it.
LEMMA MovesOne ==
  ASSUME TypeOK, TypeOK', UNCHANGED <<claims, overwritten>>,
         NEW j \in Jobs \ overwritten,
         \A i \in Jobs \ {j} : row'[i] = row[i],
         HolderOf(row'[j]) = NoWorker,
         Moves(PlaceOf(row[j]), PlaceOf(row'[j]), claims[j])
  PROVE  LeaseStep
  <1> DEFINE b == PlaceOf(row'[j])
  <1>1. \A i \in Jobs : /\ Place(i)' = IF i = j THEN b ELSE Place(i)
                        /\ Holder(i)' = IF i = j THEN NoWorker ELSE Holder(i)
                        /\ Grants(i)' = Grants(i)
    BY Mapping, MappingNext
  <1>2. Place(j) = PlaceOf(row[j]) /\ Grants(j) = claims[j]
    BY Mapping
  <1> HIDE DEF b
  <1>3. /\ [i \in Jobs |-> Place(i)]' = [[i \in Jobs |-> Place(i)] EXCEPT ![j] = b]
        /\ [i \in Jobs |-> Holder(i)]' = [[i \in Jobs |-> Holder(i)] EXCEPT ![j] = NoWorker]
        /\ [i \in Jobs |-> Grants(i)]' = [i \in Jobs |-> Grants(i)]
    BY <1>1
  <1>4. Lease!Put(j, b)
    BY <1>3 DEF Lease!Put
  <1>5. CASE Place(j) = "held" /\ b = "waiting"
    <2>1. /\ {j} \in SUBSET Lease!Held /\ Lease!TakeBack({j})
      BY <1>1, <1>3, <1>5 DEF Lease!TakeBack, Lease!Held
    <2> QED BY <2>1 DEF LeaseStep, Lease!Next
  <1>6. CASE ~(Place(j) = "held" /\ b = "waiting")
    <2>1. \/ Lease!Submit(j) \/ Lease!Complete(j) \/ Lease!GiveUp(j)
          \/ Lease!Cancel(j) \/ Lease!Revive(j) \/ Lease!Remove(j)
      BY <1>2, <1>4, <1>6
      DEF b, Moves, Lease!Submit, Lease!Complete, Lease!GiveUp, Lease!Cancel,
          Lease!Revive, Lease!Remove, Lease!Done
    <2> QED BY <2>1 DEF LeaseStep, Lease!Next
  <1> QED BY <1>5, <1>6

\* A handler writes an outdated copy: the job has left the abstract queue.
LEMMA LosesOne ==
  ASSUME TypeOK, TypeOK', UNCHANGED claims, NEW j \in Jobs \ overwritten,
         overwritten' = overwritten \cup {j}, row[j] # Unborn,
         \A i \in Jobs \ {j} : row'[i] = row[i]
  PROVE  LeaseStep
  <1>1. \A i \in Jobs :
          /\ Place(i)' = IF i = j THEN "overwritten" ELSE Place(i)
          /\ Holder(i)' = IF i = j THEN NoWorker ELSE Holder(i)
          /\ Grants(i)' = IF i = j THEN 0 ELSE Grants(i)
    BY Mapping, MappingNext
  <1>2. Place(j) # "unborn"
    BY ConstantsAssumption DEF Place, TypeOK, Has, InDB, Row, Active, Terminal
  <1>3. /\ [i \in Jobs |-> Place(i)]' = [[i \in Jobs |-> Place(i)] EXCEPT ![j] = "overwritten"]
        /\ [i \in Jobs |-> Holder(i)]' = [[i \in Jobs |-> Holder(i)] EXCEPT ![j] = NoWorker]
        /\ [i \in Jobs |-> Grants(i)]' = [[i \in Jobs |-> Grants(i)] EXCEPT ![j] = 0]
    BY <1>1
  <1>4. Lease!Overwrite(j)
    BY <1>2, <1>3 DEF Lease!Overwrite
  <1> QED BY <1>4 DEF LeaseStep, Lease!Next

LEMMA PlaceOfRow ==
  ASSUME NEW r \in Row
  PROVE  /\ r.status \in {"pending", "scheduled"} =>
              PlaceOf(r) = "waiting" /\ HolderOf(r) = NoWorker
         /\ r.status = "running" => PlaceOf(r) = "held" /\ HolderOf(r) = r.worker
         /\ r.status \in Terminal =>
              PlaceOf(r) = r.status /\ HolderOf(r) = NoWorker
  <1>1. r # Unborn /\ r # Gone
    BY ConstantsAssumption
  <1>2. r.status \in Terminal => r.status \notin {"pending", "scheduled", "running"}
    BY DEF Terminal
  <1>3. HolderOf(r) = IF r.status = "running" THEN r.worker ELSE NoWorker
    BY DEF HolderOf
  <1>4. r.status \in {"pending", "scheduled"} => PlaceOf(r) = "waiting"
    BY <1>1 DEF PlaceOf
  <1>5. r.status = "running" => PlaceOf(r) = "held"
    BY <1>1 DEF PlaceOf
  <1>6. r.status \in Terminal => PlaceOf(r) = r.status
    BY <1>1, <1>2 DEF PlaceOf
  <1> QED BY <1>2, <1>3, <1>4, <1>5, <1>6

LEMMA PlaceOfNoRow ==
  /\ PlaceOf(Unborn) = "unborn" /\ HolderOf(Unborn) = NoWorker
  /\ PlaceOf(Gone) = "gone" /\ HolderOf(Gone) = NoWorker
  <1>1. Unborn \notin Row /\ Gone \notin Row /\ Unborn # Gone
    BY ConstantsAssumption
  <1> QED BY <1>1 DEF PlaceOf, HolderOf

\* A copy of a row that is not running is the row.
LEMMA CopyIsRow ==
  ASSUME NEW c \in Row, NEW r \in Row, SameRow(c, r), r.status # "running"
  PROVE  c = r
  BY DEF SameRow, Row

-----------------------------------------------------------------------------
(* The handlers, step by step *)

\* A handler writes x in the place of the row of its job and goes on as o.
\* What it writes matters only while the row was never overwritten.
LEMMA HandlerStep ==
  ASSUME IInv, IInv', SInv, NEW p \in Loops, op[p] # Idle,
         NEW x \in Row, NEW h, NEW o,
         row' = [row EXCEPT ![op[p].job] = x],
         held' = [held EXCEPT ![op[p].job] = h],
         op' = [op EXCEPT ![p] = o], UNCHANGED <<due, claims>>,
         \/ overwritten' = overwritten
         \/ overwritten' = overwritten \cup {op[p].job} /\ row[op[p].job] # Unborn,
         o # Idle => o.job = op[p].job /\ OpFits(o, x),
         op[p].job \notin overwritten' =>
           /\ RowFits(x, h)
           /\ Delays(row[op[p].job], x)
           /\ \/ x = row[op[p].job]
              \/ /\ HolderOf(x) = NoWorker
                 /\ Moves(PlaceOf(row[op[p].job]), PlaceOf(x), claims[op[p].job])
  PROVE  FitStep
  <1>1. op[p].job \in Jobs
    BY DEF IInv, TypeOK, Busy
  <1>2. \A i \in Jobs : row'[i] = IF i = op[p].job THEN x ELSE row[i]
    BY <1>1 DEF IInv, TypeOK
  <1>3. SInv'
    BY HandlerKeepsFit DEF IInv
  <1>4. DelayStep
    <2>1. \A r : Delays(r, r)
      BY DEF Delays
    <2> QED BY <1>1, <1>2, <2>1 DEF DelayStep
  <1>5. LeaseStep
    <2>1. CASE op[p].job \in overwritten
      <3>1. overwritten' = overwritten
        BY <2>1
      <3> QED BY <1>2, <2>1, <3>1, StaysPut DEF IInv
    <2>2. CASE op[p].job \notin overwritten /\ overwritten' = overwritten
      <3>1. CASE x = row[op[p].job]
        BY <1>2, <2>2, <3>1, StaysPut DEF IInv
      <3>2. CASE x # row[op[p].job]
        BY <1>1, <1>2, <2>2, <3>2, MovesOne DEF IInv
      <3> QED BY <3>1, <3>2
    <2>3. CASE op[p].job \notin overwritten /\ overwritten' # overwritten
      BY <1>1, <1>2, <2>3, LosesOne DEF IInv
    <2> QED BY <2>1, <2>2, <2>3
  <1> QED BY <1>3, <1>4, <1>5 DEF FitStep

\* A step that writes no row.
LEMMA QuietStep ==
  ASSUME IInv, IInv', SInv', UNCHANGED <<row, claims, overwritten>>
  PROVE  FitStep
  <1>1. DelayStep
    <2>1. \A r : Delays(r, r)
      BY DEF Delays
    <2> QED BY <2>1 DEF DelayStep
  <1>2. LeaseStep
    BY StaysPut DEF IInv
  <1> QED BY <1>1, <1>2 DEF FitStep

\* What is known of a handler in the middle of its work, and of its row.
LEMMA Underway ==
  ASSUME IInv, SInv, NEW p \in Loops, op[p].pc # "idle"
  PROVE  /\ op[p] # Idle /\ op[p] \in Busy /\ op[p].job \in Jobs
         /\ op[p].copy \in Row /\ CopyFits(op[p].pc, op[p].copy)
         /\ Good(op[p].copy, claims[op[p].job]) /\ claims[op[p].job] \in Nat
         /\ OpFits(op[p], row[op[p].job])
         /\ op[p].job \notin overwritten => Fits(row[op[p].job], held[op[p].job])
         /\ held' = held => held' = [held EXCEPT ![op[p].job] = held[op[p].job]]
  <1>1. /\ op[p] # Idle /\ op[p] \in Busy /\ op[p].job \in Jobs
        /\ op[p].copy \in Row /\ claims[op[p].job] \in Nat
    BY BusyOp DEF IInv
  <1>2. Good(op[p].copy, claims[op[p].job]) /\ CopyFits(op[p].pc, op[p].copy)
    BY <1>1 DEF IInv, GoodOps
  <1>3. /\ OpFits(op[p], row[op[p].job])
        /\ op[p].job \notin overwritten => Fits(row[op[p].job], held[op[p].job])
    BY <1>1 DEF SInv, RowsFit, OpsFit
  <1>4. held' = held => held' = [held EXCEPT ![op[p].job] = held[op[p].job]]
    BY <1>1 DEF IInv, TypeOK
  <1> QED BY <1>1, <1>2, <1>3, <1>4

\* Either the row is the copy of the handler that saves, or the save is
\* recorded as one that overwrites.
LEMMA SaveFacts ==
  ASSUME IInv, SInv, NEW p \in Loops, op[p].pc \notin {"idle", "create"}, NEW x,
         Save(op[p], x)
  PROVE  /\ row' = [row EXCEPT ![op[p].job] = x]
         /\ \/ overwritten' = overwritten
            \/ overwritten' = overwritten \cup {op[p].job} /\ row[op[p].job] # Unborn
         /\ op[p].job \notin overwritten' =>
              /\ row[op[p].job] \in Row
              /\ SameRow(op[p].copy, row[op[p].job])
              /\ RowFits(row[op[p].job], held[op[p].job])
  <1>1. op[p].job \in Jobs /\ row[op[p].job] # Unborn
    BY Underway DEF OpFits
  <1>2. ASSUME op[p].job \notin overwritten'
        PROVE  op[p].job \notin overwritten /\ InDB(op[p].job)
               /\ SameRow(op[p].copy, row[op[p].job])
    BY <1>2 DEF Save
  <1>3. ASSUME op[p].job \notin overwritten'
        PROVE  row[op[p].job] \in Row /\ RowFits(row[op[p].job], held[op[p].job])
    <2>1. row[op[p].job] \in Row
      BY <1>1, <1>2, <1>3, InDBRow DEF IInv
    <2> QED BY <1>2, <1>3, <2>1, Underway DEF Fits
  <1>4. row' = [row EXCEPT ![op[p].job] = x]
        /\ (overwritten' = overwritten \/ overwritten' = overwritten \cup {op[p].job})
    BY DEF Save
  <1> QED BY <1>1, <1>2, <1>3, <1>4

LEMMA EnqueueCreateStep ==
  ASSUME IInv, IInv', SInv, NEW p \in Loops, EnqueueCreate(p)
  PROVE  FitStep
  <1> DEFINE c == op[p].copy
             o == [pc |-> "publish", job |-> op[p].job, by |-> op[p].by, copy |-> c]
  <1>1. /\ op[p].pc = "create" /\ UNCHANGED <<due, claims, held, overwritten>>
        /\ row' = [row EXCEPT ![op[p].job] = c]
        /\ op' = [op EXCEPT ![p] = o] \/ op' = [op EXCEPT ![p] = Idle]
    BY DEF EnqueueCreate, Step, Finish
  <1>2. /\ op[p] # Idle /\ c \in Row /\ c.status \in {"pending", "scheduled"}
        /\ row[op[p].job] = Unborn
        /\ op[p].job \notin overwritten => held[op[p].job] = {}
        /\ held' = [held EXCEPT ![op[p].job] = held[op[p].job]]
    BY <1>1, Underway DEF CopyFits, Fits, OpFits
  <1>3. op[p].job \notin overwritten => RowFits(c, held[op[p].job])
    BY <1>2 DEF RowFits
  <1>4. o.job = op[p].job /\ OpFits(o, c)
    BY <1>2, ConstantsAssumption DEF OpFits
  <1>5. Delays(row[op[p].job], c)
    BY <1>2, ConstantsAssumption DEF Delays
  <1>6. HolderOf(c) = NoWorker /\ Moves(PlaceOf(row[op[p].job]), PlaceOf(c), claims[op[p].job])
    BY <1>2, PlaceOfRow, PlaceOfNoRow DEF Moves
  <1> HIDE DEF c, o
  <1>7. overwritten' = overwritten
    BY <1>1
  <1>8. CASE op' = [op EXCEPT ![p] = o]
    BY <1>1, <1>2, <1>3, <1>4, <1>5, <1>6, <1>7, <1>8, HandlerStep
  <1>9. CASE op' = [op EXCEPT ![p] = Idle]
    BY <1>1, <1>2, <1>3, <1>5, <1>6, <1>7, <1>9, HandlerStep
  <1> QED BY <1>1, <1>8, <1>9

\* The copy that is saved after publishing is the row, so that nothing
\* changes, or the save overwrites.
LEMMA PublishSaveStep ==
  ASSUME IInv, IInv', SInv, NEW p \in Loops, PublishSave(p)
  PROVE  FitStep
  <1> DEFINE c == op[p].copy
             r == row[op[p].job]
  <1>1. /\ op[p].pc = "publish" /\ UNCHANGED <<due, claims, held>>
        /\ Save(op[p], c) /\ op' = [op EXCEPT ![p] = Idle]
    BY DEF PublishSave, Finish
  <1>2. /\ op[p] # Idle /\ c \in Row /\ c.status \in {"pending", "scheduled"}
        /\ held' = [held EXCEPT ![op[p].job] = held[op[p].job]]
    BY <1>1, Underway DEF CopyFits
  <1>3. /\ row' = [row EXCEPT ![op[p].job] = c]
        /\ \/ overwritten' = overwritten
           \/ overwritten' = overwritten \cup {op[p].job} /\ r # Unborn
    BY <1>1, SaveFacts
  <1>4. ASSUME op[p].job \notin overwritten'
        PROVE  RowFits(c, held[op[p].job]) /\ Delays(r, c) /\ c = r
    <2>1. r \in Row /\ SameRow(c, r) /\ RowFits(r, held[op[p].job])
      BY <1>1, <1>4, SaveFacts
    <2>2. r.status # "running"
      BY <1>2, <2>1 DEF SameRow
    <2>3. c = r
      BY <1>2, <2>1, <2>2, CopyIsRow
    <2> QED BY <2>1, <2>3 DEF Delays
  <1> HIDE DEF c, r
  <1> QED BY <1>1, <1>2, <1>3, <1>4, HandlerStep DEF r

\* The row of an ack or a nack that overwrites nothing runs, for the worker
\* that answers.
LEMMA AnswerUnderway ==
  ASSUME IInv, SInv, NEW p \in Loops, op[p].pc \in {"ack", "nack"}, Release(p),
         NEW x, Save(op[p], x)
  PROVE  /\ op[p].copy.status = "running"
         /\ held' = [held EXCEPT ![op[p].job] = held[op[p].job] \ {op[p].by}]
         /\ op[p].job \notin overwritten' =>
              /\ op[p].copy.sched # "future"
              /\ PlaceOf(row[op[p].job]) = "held"
              /\ held[op[p].job] \ {op[p].by} = {}
              /\ \A y : Delays(row[op[p].job], y)
  <1>1. op[p].copy.status = "running" /\ op[p].by = op[p].copy.worker
    BY Underway DEF CopyFits, OpFits
  <1>2. held' = [held EXCEPT ![op[p].job] = held[op[p].job] \ {op[p].by}]
    BY DEF Release
  <1>3. ASSUME op[p].job \notin overwritten'
        PROVE  /\ op[p].copy.sched # "future"
               /\ PlaceOf(row[op[p].job]) = "held"
               /\ held[op[p].job] \ {op[p].by} = {}
               /\ \A y : Delays(row[op[p].job], y)
    <2>1. /\ row[op[p].job] \in Row /\ SameRow(op[p].copy, row[op[p].job])
          /\ RowFits(row[op[p].job], held[op[p].job])
      BY <1>3, SaveFacts
    <2>2. /\ row[op[p].job].status = "running" /\ row[op[p].job].sched # "future"
          /\ row[op[p].job].worker = op[p].by /\ op[p].copy.sched # "future"
      BY <1>1, <2>1 DEF SameRow, RowFits
    <2>3. held[op[p].job] \ {op[p].by} = {}
      BY <2>1, <2>2 DEF RowFits
    <2>4. \A y : Delays(row[op[p].job], y)
      BY <2>2 DEF Delays
    <2> QED BY <2>1, <2>2, <2>3, <2>4, PlaceOfRow
  <1> QED BY <1>1, <1>2, <1>3

LEMMA AckSaveStep ==
  ASSUME IInv, IInv', SInv, NEW p \in Loops, AckSave(p)
  PROVE  FitStep
  <1> DEFINE x == MarkCompleted(op[p].copy)
             h == held[op[p].job] \ {op[p].by}
  <1>1. /\ op[p].pc = "ack" /\ UNCHANGED <<due, claims>> /\ Release(p)
        /\ Save(op[p], x) /\ op' = [op EXCEPT ![p] = Idle]
    BY DEF AckSave, Finish
  <1>2. op[p] # Idle /\ op[p].copy \in Row
    BY <1>1, Underway
  <1>3. x \in Row /\ x.status = "completed"
    BY <1>2 DEF MarkCompleted, Row, Terminal
  <1>4. RowFits(x, h)
    BY <1>3 DEF RowFits
  <1>5. HolderOf(x) = NoWorker /\ Moves("held", PlaceOf(x), claims[op[p].job])
    BY <1>3, PlaceOfRow DEF Moves, Terminal
  <1> HIDE DEF x
  <1>6. /\ row' = [row EXCEPT ![op[p].job] = x]
        /\ \/ overwritten' = overwritten
           \/ overwritten' = overwritten \cup {op[p].job} /\ row[op[p].job] # Unborn
    BY <1>1, SaveFacts
  <1>7. /\ held' = [held EXCEPT ![op[p].job] = h]
        /\ op[p].job \notin overwritten' =>
             PlaceOf(row[op[p].job]) = "held" /\ Delays(row[op[p].job], x)
    BY <1>1, AnswerUnderway
  <1> HIDE DEF h
  <1> QED BY <1>1, <1>2, <1>3, <1>4, <1>5, <1>6, <1>7, HandlerStep

LEMMA NackRetryStep ==
  ASSUME IInv, IInv', SInv, NEW p \in Loops, NackRetry(p)
  PROVE  FitStep
  <1> DEFINE x == MarkRetry(op[p].copy)
             o == [pc |-> "retried", job |-> op[p].job, by |-> op[p].by, copy |-> x]
             h == held[op[p].job] \ {op[p].by}
  <1>1. /\ op[p].pc = "nack" /\ UNCHANGED <<due, claims>> /\ Release(p)
        /\ Save(op[p], x) /\ op' = [op EXCEPT ![p] = o]
    BY DEF NackRetry, Step
  <1>2. op[p] # Idle /\ op[p].copy \in Row
    BY <1>1, Underway
  <1>3. x \in Row /\ x.status = "pending"
    BY <1>2 DEF MarkRetry, Row, Active
  <1>4. RowFits(x, {})
    BY <1>3 DEF RowFits
  <1>5. HolderOf(x) = NoWorker /\ Moves("held", PlaceOf(x), claims[op[p].job])
    BY <1>3, PlaceOfRow DEF Moves
  <1>6. o.job = op[p].job /\ OpFits(o, x)
    BY <1>3, ConstantsAssumption DEF OpFits
  <1> HIDE DEF x, o
  <1>7. /\ row' = [row EXCEPT ![op[p].job] = x]
        /\ \/ overwritten' = overwritten
           \/ overwritten' = overwritten \cup {op[p].job} /\ row[op[p].job] # Unborn
    BY <1>1, SaveFacts
  <1>8. /\ held' = [held EXCEPT ![op[p].job] = h]
        /\ op[p].job \notin overwritten' =>
             h = {} /\ PlaceOf(row[op[p].job]) = "held" /\ Delays(row[op[p].job], x)
    BY <1>1, AnswerUnderway
  <1> HIDE DEF h
  <1> QED BY <1>1, <1>2, <1>3, <1>4, <1>5, <1>6, <1>7, <1>8, HandlerStep

\* The attempts are used up, so as many claims have been granted.
LEMMA NackDLQStep ==
  ASSUME IInv, IInv', SInv, NEW p \in Loops, NackDLQ(p)
  PROVE  FitStep
  <1> DEFINE x == MarkDLQ(op[p].copy)
             h == held[op[p].job] \ {op[p].by}
  <1>1. /\ op[p].pc = "nack" /\ UNCHANGED <<due, claims>> /\ Release(p)
        /\ Save(op[p], x) /\ op' = [op EXCEPT ![p] = Idle]
        /\ ~CanRetry(op[p].copy)
    BY DEF NackDLQ, Finish
  <1>2. /\ op[p] # Idle /\ op[p].copy \in Row /\ claims[op[p].job] \in Nat
        /\ Good(op[p].copy, claims[op[p].job])
    BY <1>1, Underway
  <1>3. x \in Row /\ x.status = "dlq" /\ x.sched = op[p].copy.sched
    BY <1>2 DEF MarkDLQ, Row, Terminal
  <1>4. claims[op[p].job] >= MaxAttempts
    <2>1. op[p].copy.attempt \in Nat /\ op[p].copy.attempt <= claims[op[p].job]
      BY <1>2 DEF Good, Earned, Row
    <2> QED BY <1>1, <1>2, <2>1, ConstantsAssumption DEF CanRetry
  <1>5. HolderOf(x) = NoWorker /\ Moves("held", PlaceOf(x), claims[op[p].job])
    BY <1>3, <1>4, PlaceOfRow DEF Moves, Terminal
  <1> HIDE DEF x
  <1>6. /\ row' = [row EXCEPT ![op[p].job] = x]
        /\ \/ overwritten' = overwritten
           \/ overwritten' = overwritten \cup {op[p].job} /\ row[op[p].job] # Unborn
    BY <1>1, SaveFacts
  <1>7. /\ held' = [held EXCEPT ![op[p].job] = h]
        /\ op[p].job \notin overwritten' =>
             /\ h = {} /\ x.sched # "future"
             /\ PlaceOf(row[op[p].job]) = "held" /\ Delays(row[op[p].job], x)
    BY <1>1, <1>3, AnswerUnderway
  <1>8. op[p].job \notin overwritten' => RowFits(x, h)
    BY <1>3, <1>7 DEF RowFits
  <1> HIDE DEF h
  <1> QED BY <1>1, <1>2, <1>3, <1>5, <1>6, <1>7, <1>8, HandlerStep

LEMMA NackFinishStep ==
  ASSUME IInv, IInv', SInv, NEW p \in Loops, NackFinish(p)
  PROVE  FitStep
  <1>1. /\ op[p].pc = "retried" /\ UNCHANGED <<row, due, claims, held, overwritten>>
        /\ \/ op' = [op EXCEPT ![p] = [pc |-> "publish", job |-> op[p].job,
                                       by |-> op[p].by, copy |-> op[p].copy]]
           \/ op' = [op EXCEPT ![p] = Idle]
    BY DEF NackFinish, Step, Finish
  <1>2. OpFits(op[p], row[op[p].job]) /\ op[p] # Idle
    BY <1>1, Underway
  <1>3. \A q \in Loops : q # p => op'[q] = op[q]
    BY <1>1 DEF IInv, TypeOK
  <1>4. op'[p] = Idle \/ /\ op'[p].pc = "publish" /\ op'[p].job = op[p].job
                         /\ OpFits(op'[p], row[op[p].job])
    BY <1>1, <1>2 DEF IInv, TypeOK, OpFits
  <1>5. OpsFit'
    BY <1>1, <1>3, <1>4 DEF SInv, OpsFit
  <1>6. OneCreator'
    BY <1>3, <1>4 DEF SInv, OneCreator
  <1>7. RowsFit' /\ DueFits'
    BY <1>1 DEF SInv, RowsFit, DueFits
  <1>8. SInv'
    BY <1>5, <1>6, <1>7 DEF SInv
  <1> QED BY <1>1, <1>8, QuietStep

LEMMA CancelSaveStep ==
  ASSUME IInv, IInv', SInv, NEW p \in Loops, CancelSave(p)
  PROVE  FitStep
  <1> DEFINE x == MarkCancelled(op[p].copy)
             r == row[op[p].job]
  <1>1. /\ op[p].pc = "cancel" /\ UNCHANGED <<due, claims, held>>
        /\ Save(op[p], x) /\ op' = [op EXCEPT ![p] = Idle]
    BY DEF CancelSave, Finish
  <1>2. /\ op[p] # Idle /\ op[p].copy \in Row
        /\ op[p].copy.status \in {"pending", "scheduled", "running", "failed"}
        /\ held' = [held EXCEPT ![op[p].job] = held[op[p].job]]
    BY <1>1, Underway DEF OpFits
  <1>3. x \in Row /\ x.status = "cancelled" /\ x.sched = op[p].copy.sched
    BY <1>2 DEF MarkCancelled, Row, Terminal
  <1>4. RowFits(x, held[op[p].job])
    BY <1>3 DEF RowFits
  <1> HIDE DEF x
  <1>5. /\ row' = [row EXCEPT ![op[p].job] = x]
        /\ \/ overwritten' = overwritten
           \/ overwritten' = overwritten \cup {op[p].job} /\ r # Unborn
    BY <1>1, SaveFacts
  <1>6. ASSUME op[p].job \notin overwritten'
        PROVE  /\ HolderOf(x) = NoWorker
               /\ Moves(PlaceOf(r), PlaceOf(x), claims[op[p].job])
               /\ Delays(r, x)
    <2>1. /\ r \in Row /\ r.status \in {"pending", "scheduled", "running"}
          /\ r.sched = op[p].copy.sched
      BY <1>1, <1>2, <1>6, SaveFacts DEF SameRow, RowFits
    <2>2. Delays(r, x)
      BY <1>3, <2>1 DEF Delays
    <2> HIDE DEF r
    <2> QED BY <1>3, <2>1, <2>2, PlaceOfRow DEF Moves, Terminal
  <1> QED BY <1>1, <1>2, <1>3, <1>4, <1>5, <1>6, HandlerStep

LEMMA RetrySaveStep ==
  ASSUME IInv, IInv', SInv, NEW p \in Loops, RetrySave(p)
  PROVE  FitStep
  <1> DEFINE x == MarkRetryFromControl(op[p].copy)
             r == row[op[p].job]
  <1>1. /\ op[p].pc = "retry" /\ UNCHANGED <<due, claims, held>>
        /\ Save(op[p], x) /\ op' = [op EXCEPT ![p] = Idle]
    BY DEF RetrySave, Finish
  <1>2. /\ op[p] # Idle /\ op[p].copy \in Row
        /\ op[p].copy.status \in {"failed", "dlq"}
        /\ held' = [held EXCEPT ![op[p].job] = held[op[p].job]]
    BY <1>1, Underway DEF OpFits
  <1>3. x \in Row /\ x.status = "pending"
    BY <1>2 DEF MarkRetryFromControl, Row, Active
  <1> HIDE DEF x
  <1>4. /\ row' = [row EXCEPT ![op[p].job] = x]
        /\ \/ overwritten' = overwritten
           \/ overwritten' = overwritten \cup {op[p].job} /\ r # Unborn
    BY <1>1, SaveFacts
  <1>5. ASSUME op[p].job \notin overwritten'
        PROVE  /\ RowFits(x, held[op[p].job]) /\ HolderOf(x) = NoWorker
               /\ Moves(PlaceOf(r), PlaceOf(x), claims[op[p].job])
               /\ Delays(r, x)
    <2>1. /\ r \in Row /\ r.status = "dlq" /\ r.sched # "future"
          /\ held[op[p].job] = {}
      BY <1>1, <1>2, <1>5, SaveFacts DEF SameRow, RowFits
    <2>2. Delays(r, x) /\ RowFits(x, held[op[p].job])
      BY <1>3, <2>1 DEF Delays, RowFits
    <2> HIDE DEF r
    <2> QED BY <1>3, <2>1, <2>2, PlaceOfRow DEF Moves, Terminal
  <1> QED BY <1>1, <1>2, <1>3, <1>4, <1>5, ConstantsAssumption, HandlerStep

\* A request is admitted by what the row says when it is read.
LEMMA RequestStep ==
  ASSUME IInv, IInv', SInv, NEW p \in Procs, NEW j \in Jobs, Request(p, j)
  PROVE  FitStep
  <1>1. p \in Loops
    BY DEF Loops
  <1>2. ASSUME NEW o, op[p] = Idle, op' = [op EXCEPT ![p] = o],
               o.pc = "create" => j \notin Copied,
               o.job = j, OpFits(o, row[j]),
               UNCHANGED <<row, due, claims, held, overwritten>>
        PROVE  FitStep
    <2>1. SInv'
      BY <1>1, <1>2, ReadKeepsFit DEF IInv
    <2> QED BY <1>2, <2>1, QuietStep
  <1>3. CASE EnqueueBegin(p, j)
    <2>1. PICK sched \in {"none", "future", "due"} :
            op' = [op EXCEPT ![p] = [pc |-> "create", job |-> j, by |-> NoWorker,
                                     copy |-> NewJob(sched)]]
      BY <1>3 DEF EnqueueBegin
    <2> DEFINE o == [pc |-> "create", job |-> j, by |-> NoWorker, copy |-> NewJob(sched)]
    <2>2. /\ op[p] = Idle /\ j \notin Copied
          /\ UNCHANGED <<row, due, claims, held, overwritten>>
          /\ o.job = j /\ OpFits(o, row[j]) /\ op' = [op EXCEPT ![p] = o]
      BY <1>3, <2>1 DEF EnqueueBegin, OpFits
    <2> HIDE DEF o
    <2> QED BY <1>2, <2>2
  <1>4. ASSUME NEW pc \in {"ack", "nack", "cancel", "retry"},
               NEW w \in Workers \cup {NoWorker}, Read(p, pc, j, w),
               pc \in {"ack", "nack"} => w = row[j].worker,
               pc = "retry" => row[j].status \in {"failed", "dlq"},
               pc = "cancel" =>
                 row[j].status \in {"pending", "scheduled", "running", "failed"}
        PROVE  FitStep
    <2> DEFINE o == [pc |-> pc, job |-> j, by |-> w, copy |-> row[j]]
    <2>1. /\ op[p] = Idle /\ UNCHANGED <<row, due, claims, held, overwritten>>
          /\ op' = [op EXCEPT ![p] = o] /\ row[j] # Unborn
      BY <1>4 DEF Read, InDB
    <2>2. o.job = j /\ o.pc # "create" /\ OpFits(o, row[j])
      BY <1>4, <2>1 DEF OpFits
    <2> HIDE DEF o
    <2> QED BY <1>2, <2>1, <2>2
  <1>5. ASSUME NEW w \in Workers, AckRead(p, j, w) \/ NackRead(p, j, w)
        PROVE  FitStep
    <2>1. OwnedBy(j, w) /\ (Read(p, "ack", j, w) \/ Read(p, "nack", j, w))
      BY <1>5 DEF AckRead, NackRead
    <2>2. w = row[j].worker
      <3>1. row[j].status = "running" /\ Good(row[j], claims[j])
        BY <2>1 DEF OwnedBy, Has, IInv, GoodRows
      <3> QED BY <2>1, <3>1 DEF OwnedBy, Good, Consistent, NamesItsWorker
    <2> QED BY <1>4, <2>1, <2>2
  <1>6. CASE CancelRead(p, j)
    <2>1. row[j].status \in {"pending", "scheduled", "running", "failed"}
      BY <1>6 DEF CancelRead, Has, Active, Terminal
    <2> QED BY <1>4, <1>6, <2>1 DEF CancelRead
  <1>7. CASE RetryRead(p, j)
    <2>1. row[j].status \in {"failed", "dlq"}
      BY <1>7 DEF RetryRead, Has
    <2> QED BY <1>4, <1>7, <2>1 DEF RetryRead
  <1> QED BY <1>3, <1>5, <1>6, <1>7 DEF Request

LEMMA ContinueStep ==
  ASSUME IInv, IInv', SInv, NEW p \in Loops, Continue(p)
  PROVE  FitStep
  BY EnqueueCreateStep, PublishSaveStep, AckSaveStep, NackRetryStep, NackDLQStep,
     NackFinishStep, CancelSaveStep, RetrySaveStep DEF Continue

\* A handler or a scheduler that gives up leaves no copy behind.
LEMMA DropStep ==
  ASSUME IInv, IInv', SInv, UNCHANGED <<row, claims, held, overwritten>>,
         \A q \in Loops : op'[q] = op[q] \/ op'[q] = Idle,
         \A s \in Schedulers : due'[s] \subseteq due[s]
  PROVE  FitStep
  <1>1. SInv'
    BY DropKeepsFit DEF IInv
  <1> QED BY <1>1, QuietStep

-----------------------------------------------------------------------------
(* The scheduler loop, step by step *)

\* A due row is promoted: what the list holds of it becomes the row, and the
\* copy to publish.
LEMMA PromoteKeepsFit ==
  ASSUME IInv, SInv, NEW s \in Schedulers, op[s] = Idle, NEW d \in due[s],
         due' = [due EXCEPT ![s] = @ \ {d}], UNCHANGED <<claims, held>>,
         NEW x \in Row, x.status = "pending",
         row' = [row EXCEPT ![d.job] = x],
         op' = [op EXCEPT ![s] = [pc |-> "publish", job |-> d.job,
                                  by |-> NoWorker, copy |-> x]],
         overwritten \subseteq overwritten',
         d.job \notin overwritten' => held[d.job] = {}
  PROVE  SInv'
  <1> DEFINE o == [pc |-> "publish", job |-> d.job, by |-> NoWorker, copy |-> x]
  <1>1. /\ s \in Loops /\ d.job \in Jobs /\ x # Unborn /\ row[d.job] # Unborn
        /\ \A t \in Schedulers : due'[t] \subseteq due[t]
        /\ \A t \in Schedulers : \A e \in due[t] : e.job \in Jobs
    BY ConstantsAssumption DEF Loops, IInv, TypeOK, SInv, DueFits
  <1>2. /\ o.job = d.job /\ o.pc = "publish" /\ OpFits(o, x)
    BY <1>1 DEF OpFits
  <1> HIDE DEF o
  <1>3. /\ \A i \in Jobs : row'[i] = IF i = d.job THEN x ELSE row[i]
        /\ \A q \in Loops : op'[q] = IF q = s THEN o ELSE op[q]
    BY <1>1 DEF IInv, TypeOK, o
  <1>4. RowsFit'
    <2>1. d.job \notin overwritten' => Fits(x, held[d.job])
      BY <1>1 DEF Fits, RowFits
    <2> QED BY <1>3, <2>1 DEF SInv, RowsFit
  <1>5. OpsFit'
    <2> SUFFICES ASSUME NEW q \in Loops, op'[q] # Idle
                 PROVE  OpFits(op'[q], row'[op'[q].job])
      BY DEF OpsFit
    <2>1. CASE q = s
      BY <1>1, <1>2, <1>3, <2>1
    <2>2. CASE q # s
      <3>1. op'[q] = op[q] /\ op[q].job \in Jobs /\ OpFits(op[q], row[op[q].job])
        BY <1>3, <2>2 DEF IInv, TypeOK, Busy, SInv, OpsFit
      <3>2. row'[op[q].job] = Unborn <=> row[op[q].job] = Unborn
        BY <1>1, <1>3, <3>1
      <3> QED BY <3>1, <3>2 DEF OpFits
    <2> QED BY <2>1, <2>2
  <1>6. DueFits'
    BY <1>1, <1>3 DEF SInv, DueFits
  <1>7. OneCreator'
    BY <1>2, <1>3 DEF SInv, OneCreator
  <1> QED BY <1>4, <1>5, <1>6, <1>7 DEF SInv

\* Promoting a row moves no job in the abstract queue, and the row was due,
\* unless it overwrites.
LEMMA PromoteStep ==
  ASSUME IInv, IInv', SInv, NEW s \in Schedulers, Promote(s)
  PROVE  FitStep
  <1>1. PICK d \in due[s] :
          /\ due' = [due EXCEPT ![s] = @ \ {d}]
          /\ Save(d, MarkPendingForSchedule(d.copy))
          /\ op' = [op EXCEPT ![s] = [pc |-> "publish", job |-> d.job,
                      by |-> NoWorker, copy |-> MarkPendingForSchedule(d.copy)]]
    BY DEF Promote
  <1> DEFINE x == MarkPendingForSchedule(d.copy)
             r == row[d.job]
  <1>2. /\ d.job \in Jobs /\ d.copy \in Row /\ d.copy.status = "scheduled"
        /\ r # Unborn /\ d.copy.sched = "due"
        /\ op[s] = Idle /\ UNCHANGED <<claims, held>>
    BY DEF IInv, TypeOK, GoodDue, SInv, DueFits, Promote
  <1>3. x \in Row /\ x.status = "pending"
    BY <1>2 DEF MarkPendingForSchedule, Row, Active
  <1>4. row' = [row EXCEPT ![d.job] = x]
        /\ (overwritten' = overwritten \/ overwritten' = overwritten \cup {d.job})
    BY <1>1 DEF Save
  <1>5. ASSUME d.job \notin overwritten'
        PROVE  d.job \notin overwritten /\ overwritten' = overwritten
               /\ d.copy = r /\ held[d.job] = {}
    <2>1. d.job \notin overwritten /\ InDB(d.job) /\ SameRow(d.copy, r)
      BY <1>1, <1>5 DEF Save
    <2>2. r \in Row
      BY <1>2, <2>1, InDBRow DEF IInv
    <2>3. r.status = "scheduled"
      BY <1>2, <2>1 DEF SameRow
    <2>4. d.copy = r
      BY <1>2, <2>1, <2>2, <2>3, CopyIsRow
    <2>5. held[d.job] = {}
      BY <1>2, <2>1, <2>2, <2>3 DEF SInv, RowsFit, Fits, RowFits
    <2> QED BY <1>4, <1>5, <2>1, <2>4, <2>5
  <1>6. op' = [op EXCEPT ![s] = [pc |-> "publish", job |-> d.job,
                                 by |-> NoWorker, copy |-> x]]
    BY <1>1
  <1> HIDE DEF x
  <1>7. SInv'
    <2>1. overwritten \subseteq overwritten'
      BY <1>4
    <2> QED BY <1>1, <1>2, <1>3, <1>4, <1>5, <1>6, <2>1, PromoteKeepsFit
  <1>8. \A i \in Jobs : row'[i] = IF i = d.job THEN x ELSE row[i]
    BY <1>4 DEF IInv, TypeOK
  <1>9. DelayStep
    <2>1. \A r1 : Delays(r1, r1)
      BY DEF Delays
    <2>2. d.job \notin overwritten' => Delays(r, x)
      BY <1>2, <1>5 DEF Delays
    <2> QED BY <1>8, <2>1, <2>2 DEF DelayStep
  <1>10. CASE d.job \in overwritten
    <2>1. overwritten' = overwritten
      BY <1>4, <1>10
    <2>2. LeaseStep
      BY <1>2, <1>8, <1>10, <2>1, StaysPut DEF IInv
    <2> QED BY <1>7, <1>9, <2>2 DEF FitStep
  <1>11. CASE d.job \notin overwritten'
    <2>1. PlaceOf(x) = PlaceOf(r) /\ HolderOf(x) = HolderOf(r)
      BY <1>2, <1>3, <1>5, <1>11, PlaceOfRow
    <2>2. LeaseStep
      BY <1>2, <1>5, <1>8, <1>11, <2>1, StaysPut DEF IInv
    <2> QED BY <1>7, <1>9, <2>2 DEF FitStep
  <1>12. CASE d.job \notin overwritten /\ d.job \in overwritten'
    <2>1. overwritten' = overwritten \cup {d.job}
      BY <1>4, <1>12
    <2>2. LeaseStep
      BY <1>2, <1>8, <1>12, <2>1, LosesOne DEF IInv
    <2> QED BY <1>7, <1>9, <2>2 DEF FitStep
  <1> QED BY <1>10, <1>11, <1>12

LEMMA FindDueStep ==
  ASSUME IInv, IInv', SInv, NEW s \in Schedulers, FindDueScheduled(s)
  PROVE  FitStep
  BY FindDueKeepsFit, QuietStep DEF FindDueScheduled

LEMMA ArriveStep ==
  ASSUME IInv, IInv', SInv, NEW j \in Jobs, ScheduleArrives(j)
  PROVE  FitStep
  <1>1. /\ \A i \in Jobs : row'[i] = IF i = j /\ row[i] \in Row THEN Arrive(row[i]) ELSE row[i]
        /\ UNCHANGED <<claims, overwritten>>
    BY InDBRow DEF ScheduleArrives, IInv, TypeOK
  <1>2. ASSUME NEW r \in Row
        PROVE  Arrive(r) \in Row /\ Arrive(r).status = r.status
               /\ Arrive(r).worker = r.worker
    BY DEF Arrive, Row
  <1>3. DelayStep
    <2>1. \A r : Delays(r, r) /\ Delays(r, Arrive(r))
      BY DEF Delays
    <2> QED BY <1>1, <2>1 DEF DelayStep
  <1>4. LeaseStep
    <2>1. ASSUME NEW r \in Row
          PROVE  PlaceOf(Arrive(r)) = PlaceOf(r) /\ HolderOf(Arrive(r)) = HolderOf(r)
      <3>1. r.status \in {"pending", "scheduled", "running"} \cup Terminal
        BY DEF Row, Active
      <3> QED BY <1>2, <3>1, PlaceOfRow
    <2> QED BY <1>1, <2>1, StaysPut DEF IInv
  <1> QED BY <1>3, <1>4, ArriveKeepsFit DEF FitStep

-----------------------------------------------------------------------------
(* Single statements on the table, step by step *)

\* What is known of a running row that was never overwritten.
LEMMA RunningRow ==
  ASSUME IInv, SInv, NEW j \in Jobs \ overwritten, Has(j, {"running"})
  PROVE  /\ row[j] \in Row /\ row[j].status = "running" /\ row[j].sched # "future"
         /\ held[j] = IF row[j].lease = "fresh" THEN {row[j].worker} ELSE {}
         /\ PlaceOf(row[j]) = "held" /\ HolderOf(row[j]) = row[j].worker
  <1>1. row[j] \in Row /\ row[j].status = "running"
    BY InDBRow DEF Has, IInv
  <1>2. RowFits(row[j], held[j])
    BY <1>1 DEF SInv, RowsFit, Fits
  <1> QED BY <1>1, <1>2, PlaceOfRow DEF RowFits

\* The lease of a running row changes, and with it who has the job.
LEMMA LeaseOnly ==
  ASSUME IInv, SInv, NEW j \in Jobs \ overwritten, Has(j, {"running"}),
         NEW l \in {"fresh", "expired"}, row'[j] = [row[j] EXCEPT !.lease = l],
         held'[j] = IF l = "fresh" THEN {row[j].worker} ELSE {}
  PROVE  /\ Fits(row'[j], held'[j]) /\ Delays(row[j], row'[j])
         /\ PlaceOf(row'[j]) = PlaceOf(row[j]) /\ HolderOf(row'[j]) = HolderOf(row[j])
  <1>1. /\ row[j] \in Row /\ row[j].status = "running" /\ row[j].sched # "future"
        /\ PlaceOf(row[j]) = "held" /\ HolderOf(row[j]) = row[j].worker
    BY RunningRow
  <1>2. /\ row'[j] \in Row /\ row'[j].status = "running" /\ row'[j].lease = l
        /\ row'[j].worker = row[j].worker /\ row'[j].sched = row[j].sched
    BY <1>1 DEF Row
  <1>3. Fits(row'[j], held'[j])
    BY <1>1, <1>2, ConstantsAssumption DEF Fits, RowFits
  <1>4. PlaceOf(row'[j]) = "held" /\ HolderOf(row'[j]) = row[j].worker
    BY <1>2, PlaceOfRow
  <1>5. Delays(row[j], row'[j])
    BY <1>1 DEF Delays
  <1> QED BY <1>1, <1>3, <1>4, <1>5

\* A row that a statement leaves as it is.
LEMMA RowLeft ==
  ASSUME SInv, NEW j \in Jobs, row'[j] = row[j], held'[j] = held[j]
  PROVE  /\ j \notin overwritten => Fits(row'[j], held'[j])
         /\ Delays(row[j], row'[j])
         /\ PlaceOf(row'[j]) = PlaceOf(row[j]) /\ HolderOf(row'[j]) = HolderOf(row[j])
  BY DEF SInv, RowsFit, Delays

\* What a statement does to one job, whoever has copies of its row.
RowStep(j) == Fits(row'[j], held'[j]) /\ Delays(row[j], row'[j])

LEMMA StatementStep ==
  ASSUME IInv, IInv', SInv, UNCHANGED <<op, due, overwritten>>,
         \A j \in Jobs \ overwritten : RowStep(j),
         \A j \in Jobs : row'[j] = Unborn <=> row[j] = Unborn,
         LeaseStep
  PROVE  FitStep
  <1>1. SInv'
    BY StatementKeepsFit DEF RowStep
  <1>2. DelayStep
    BY DEF DelayStep, RowStep
  <1> QED BY <1>1, <1>2 DEF FitStep

LEMMA HeartbeatStep ==
  ASSUME IInv, IInv', SInv, NEW w \in Workers, Heartbeat(w)
  PROVE  FitStep
  <1>1. ASSUME NEW j \in Jobs, j \in RunningOf(w)
        PROVE  /\ Has(j, {"running"}) /\ row[j].worker = w
               /\ row'[j] = [row[j] EXCEPT !.lease = "fresh"]
               /\ held'[j] = held[j] \cup {w}
    BY <1>1 DEF RunningOf, Heartbeat
  <1>2. ASSUME NEW j \in Jobs, j \notin RunningOf(w)
        PROVE  row'[j] = row[j] /\ held'[j] = held[j]
    BY <1>2 DEF Heartbeat
  <1>3. UNCHANGED <<op, due, claims, overwritten>>
    BY DEF Heartbeat
  <1>4. ASSUME NEW j \in Jobs \ overwritten
        PROVE  /\ RowStep(j)
               /\ PlaceOf(row'[j]) = PlaceOf(row[j])
               /\ HolderOf(row'[j]) = HolderOf(row[j])
    <2>1. CASE j \in RunningOf(w)
      <3>1. held'[j] = {row[j].worker}
        BY <1>1, <2>1, RunningRow
      <3> QED BY <1>1, <2>1, <3>1, LeaseOnly DEF RowStep
    <2>2. CASE j \notin RunningOf(w)
      BY <1>2, <2>2, RowLeft DEF RowStep
    <2> QED BY <2>1, <2>2
  <1>5. \A j \in Jobs : row'[j] = Unborn <=> row[j] = Unborn
    <2> SUFFICES ASSUME NEW j \in Jobs, j \in RunningOf(w)
                 PROVE  row'[j] # Unborn /\ row[j] # Unborn
      BY <1>2
    <2>1. Good([row[j] EXCEPT !.lease = "fresh"], claims[j])
      BY <1>1, LeaseGood
    <2> QED BY <1>1, <2>1, ConstantsAssumption DEF Good, Has, InDB
  <1>6. LeaseStep
    BY <1>3, <1>4, StaysPut DEF IInv
  <1> QED BY <1>3, <1>4, <1>5, <1>6, StatementStep

LEMMA LeaseExpiresStep ==
  ASSUME IInv, IInv', SInv, NEW j \in Jobs, LeaseExpires(j)
  PROVE  FitStep
  <1>1. /\ Has(j, {"running"}) /\ UNCHANGED <<op, due, claims, overwritten>>
        /\ row'[j] = [row[j] EXCEPT !.lease = "expired"]
        /\ held'[j] = held[j] \ {row[j].worker}
        /\ \A i \in Jobs \ {j} : row'[i] = row[i] /\ held'[i] = held[i]
    BY DEF LeaseExpires, IInv, TypeOK
  <1>2. j \notin overwritten => held'[j] = {}
    BY <1>1, RunningRow
  <1>3. ASSUME NEW i \in Jobs \ overwritten
        PROVE  /\ RowStep(i)
               /\ PlaceOf(row'[i]) = PlaceOf(row[i])
               /\ HolderOf(row'[i]) = HolderOf(row[i])
    BY <1>1, <1>2, LeaseOnly, RowLeft DEF RowStep
  <1>4. \A i \in Jobs : row'[i] = Unborn <=> row[i] = Unborn
    <2>1. Good([row[j] EXCEPT !.lease = "expired"], claims[j])
      BY <1>1, LeaseGood
    <2> QED BY <1>1, <2>1, ConstantsAssumption DEF Good, Has, InDB
  <1>5. LeaseStep
    BY <1>1, <1>3, StaysPut DEF IInv
  <1> QED BY <1>1, <1>3, <1>4, <1>5, StatementStep

LEMMA PurgeStep ==
  ASSUME IInv, IInv', SInv, NEW j \in Jobs, Purge(j)
  PROVE  FitStep
  <1>1. /\ Has(j, Terminal) /\ UNCHANGED <<op, due, claims, held, overwritten>>
        /\ row'[j] = Gone /\ \A i \in Jobs \ {j} : row'[i] = row[i]
    BY DEF Purge, IInv, TypeOK
  <1>2. row[j] \in Row /\ row[j].status \in Terminal
    BY <1>1, InDBRow DEF Has, IInv
  <1>3. RowStep(j)
    BY <1>1, ConstantsAssumption DEF RowStep, Fits, Delays
  <1>4. \A i \in Jobs \ overwritten : RowStep(i)
    BY <1>1, <1>3, RowLeft DEF RowStep
  <1>5. \A i \in Jobs : row'[i] = Unborn <=> row[i] = Unborn
    BY <1>1, <1>2, ConstantsAssumption
  <1>6. LeaseStep
    <2>1. CASE j \in overwritten
      BY <1>1, <2>1, StaysPut DEF IInv
    <2>2. CASE j \notin overwritten
      <3>1. row[j].status # "failed"
        BY <1>2, <2>2 DEF SInv, RowsFit, Fits, RowFits
      <3>2. HolderOf(row'[j]) = NoWorker /\ Moves(PlaceOf(row[j]), PlaceOf(row'[j]), claims[j])
        BY <1>1, <1>2, <3>1, PlaceOfRow, PlaceOfNoRow DEF Moves, Terminal
      <3> QED BY <1>1, <2>2, <3>2, MovesOne DEF IInv
    <2> QED BY <2>1, <2>2
  <1> QED BY <1>1, <1>4, <1>5, <1>6, StatementStep

\* Expired rows wait again, and nobody has the job.
LEMMA ReclaimStep ==
  ASSUME IInv, IInv', SInv, ReclaimExpired
  PROVE  FitStep
  <1>1. PICK skip \in SUBSET Copied :
          /\ UNCHANGED <<op, due, claims, held, overwritten>>
          /\ \A j \in Jobs : row'[j] = IF j \in Expired \ skip
               THEN [row[j] EXCEPT !.status = "pending", !.worker = NoWorker,
                                   !.lease = "none"]
               ELSE row[j]
    BY DEF ReclaimExpired
  <1> DEFINE S == Expired \ skip
  <1>2. ASSUME NEW j \in S
        PROVE  /\ j \in Jobs /\ Has(j, {"running"}) /\ row[j].lease = "expired"
               /\ row[j] \in Row /\ row'[j] \in Row /\ row'[j].status = "pending"
               /\ PlaceOf(row'[j]) = "waiting" /\ HolderOf(row'[j]) = NoWorker
    <2>1. j \in Jobs /\ Has(j, {"running"}) /\ row[j].lease = "expired"
      BY DEF Expired
    <2>2. row[j] \in Row
      BY <2>1, InDBRow DEF Has, IInv
    <2>3. row'[j] \in Row /\ row'[j].status = "pending"
      BY <1>1, <2>1, <2>2 DEF Row, Active
    <2> QED BY <2>1, <2>2, <2>3, PlaceOfRow
  <1>3. ASSUME NEW j \in S \ overwritten
        PROVE  RowStep(j) /\ PlaceOf(row[j]) = "held"
    <2>1. held[j] = {} /\ row[j].sched # "future" /\ PlaceOf(row[j]) = "held"
      BY <1>2, RunningRow
    <2>2. Fits(row'[j], held'[j])
      BY <1>1, <1>2, <2>1, ConstantsAssumption DEF Fits, RowFits
    <2>3. Delays(row[j], row'[j])
      BY <2>1 DEF Delays
    <2> QED BY <2>1, <2>2, <2>3 DEF RowStep
  <1>4. \A j \in Jobs \ S : row'[j] = row[j] /\ held'[j] = held[j]
    BY <1>1
  <1> HIDE DEF S
  <1>5. \A j \in Jobs \ overwritten : RowStep(j)
    BY <1>3, <1>4, RowLeft DEF RowStep
  <1>6. \A j \in Jobs : row'[j] = Unborn <=> row[j] = Unborn
    BY <1>2, <1>4, ConstantsAssumption
  <1>7. LeaseStep
    <2> DEFINE T == {j \in Jobs : j \in S \ overwritten}
    <2>1. \A i \in Jobs : /\ Place(i)' = IF i \in T THEN "waiting" ELSE Place(i)
                          /\ Holder(i)' = IF i \in T THEN NoWorker ELSE Holder(i)
                          /\ Grants(i)' = Grants(i)
      <3>1. SUFFICES ASSUME NEW i \in Jobs
                     PROVE  /\ Place(i)' = IF i \in T THEN "waiting" ELSE Place(i)
                            /\ Holder(i)' = IF i \in T THEN NoWorker ELSE Holder(i)
                            /\ Grants(i)' = Grants(i)
        OBVIOUS
      <3>2. /\ i \in overwritten' <=> i \in overwritten
            /\ claims'[i] = claims[i]
        BY <1>1
      <3>3. CASE i \in overwritten
        BY <3>2, <3>3, Mapping, MappingNext DEF IInv
      <3>4. CASE i \in T
        BY <1>2, <3>2, <3>4, Mapping, MappingNext DEF IInv
      <3>5. CASE i \notin overwritten /\ i \notin T
        <4>1. row'[i] = row[i]
          BY <1>4, <3>5
        <4> QED BY <3>2, <3>5, <4>1, Mapping, MappingNext DEF IInv
      <3> QED BY <3>3, <3>4, <3>5
    <2>2. \A i \in T : Place(i) = "held"
      BY <1>3, Mapping DEF IInv
    <2>3. T \in SUBSET Jobs
      OBVIOUS
    <2> HIDE DEF T
    <2>4. T \in SUBSET Lease!Held /\ Lease!TakeBack(T)
      BY <2>1, <2>2, <2>3 DEF Lease!TakeBack, Lease!Held
    <2> QED BY <2>4 DEF LeaseStep, Lease!Next
  <1> QED BY <1>1, <1>5, <1>6, <1>7, StatementStep

\* A claimed row goes to the one worker.
LEMMA ClaimedRow ==
  ASSUME IInv, SInv, NEW w \in Workers, NEW S \in SUBSET Jobs, NEW T,
         HandOut(S, T, w), NEW j \in S, Has(j, {"pending", "scheduled"}),
         row[j].sched # "future"
  PROVE  /\ row'[j] \in Row /\ row[j] \in Row
         /\ PlaceOf(row'[j]) = "held" /\ HolderOf(row'[j]) = w
         /\ PlaceOf(row[j]) = "waiting"
         /\ j \notin overwritten => RowStep(j)
  <1>1. row[j] \in Row /\ row[j].status \in {"pending", "scheduled"}
    BY InDBRow DEF Has, IInv
  <1>2. /\ row'[j] = [row[j] EXCEPT !.status = "running", !.worker = w,
                        !.attempt = row[j].attempt + 1, !.lease = "fresh"]
        /\ held'[j] = held[j] \cup {w}
    BY DEF HandOut
  <1>3. row'[j] \in Row
    <2>1. row[j].attempt \in Nat /\ row[j].attempt + 1 \in Nat
      BY <1>1 DEF Row
    <2>2. PICK a \in Nat : a = row[j].attempt + 1
      BY <2>1
    <2> QED BY <1>1, <1>2, <2>2 DEF Row, Active
  <1>4. /\ row'[j].status = "running" /\ row'[j].worker = w
        /\ row'[j].lease = "fresh" /\ row'[j].sched = row[j].sched
    BY <1>1, <1>2 DEF Row
  <1>5. ASSUME j \notin overwritten
        PROVE  RowStep(j)
    <2>1. held'[j] = {w}
      BY <1>1, <1>2, <1>5 DEF SInv, RowsFit, Fits, RowFits
    <2>2. Fits(row'[j], held'[j])
      BY <1>3, <1>4, <2>1, ConstantsAssumption DEF Fits, RowFits
    <2> QED BY <2>2 DEF RowStep, Delays
  <1> QED BY <1>1, <1>3, <1>4, <1>5, PlaceOfRow

\* The heartbeat in a claim renews the leases of that worker.
LEMMA RenewedRow ==
  ASSUME IInv, SInv, NEW w \in Workers, NEW S \in SUBSET Jobs, NEW T \in SUBSET Jobs,
         HandOut(S, T, w), NEW j \in T \ S, Has(j, {"running"}), row[j].worker = w
  PROVE  /\ row'[j] \in Row /\ row[j] \in Row
         /\ j \notin overwritten => /\ RowStep(j)
                                    /\ PlaceOf(row'[j]) = PlaceOf(row[j])
                                    /\ HolderOf(row'[j]) = HolderOf(row[j])
  <1>1. row'[j] = [row[j] EXCEPT !.lease = "fresh"] /\ held'[j] = held[j] \cup {w}
    BY DEF HandOut
  <1>2. row[j] \in Row /\ row'[j] \in Row
    BY <1>1, LeaseGood DEF Good
  <1>3. ASSUME j \notin overwritten
        PROVE  /\ RowStep(j)
               /\ PlaceOf(row'[j]) = PlaceOf(row[j])
               /\ HolderOf(row'[j]) = HolderOf(row[j])
    <2>1. held'[j] = {row[j].worker}
      BY <1>1, <1>3, RunningRow
    <2> QED BY <1>1, <1>3, <2>1, LeaseOnly DEF RowStep
  <1> QED BY <1>2, <1>3

\* A claim takes rows that wait, whoever has copies of them.
LEMMA PullStep ==
  ASSUME IInv, IInv', SInv, NEW w \in Workers, Pull(w)
  PROVE  FitStep
  <1> DEFINE U(S) == IF w \in Registered /\ S \cap PlatformJobs = {}
                     THEN RunningOf(w) ELSE {}
  <1>1. PICK Q \in {PlatformJobs, Jobs \ PlatformJobs}, skip \in SUBSET Copied,
             S \in SUBSET Jobs :
          FirstClaimable(S, Q, skip) /\ HandOut(S, U(S), w)
    BY DEF Pull, Dequeue
  <1>2. \E T \in SUBSET Jobs : /\ HandOut(S, T, w)
                               /\ \A j \in T : Has(j, {"running"}) /\ row[j].worker = w
    BY <1>1 DEF RunningOf
  <1> HIDE DEF U
  <1>3. PICK T \in SUBSET Jobs : /\ HandOut(S, T, w)
                                 /\ \A j \in T : Has(j, {"running"}) /\ row[j].worker = w
    BY <1>2
  <1>4. \A j \in S : /\ j \in Jobs /\ Has(j, {"pending", "scheduled"})
                     /\ row[j].sched # "future"
    BY <1>1 DEF FirstClaimable, Claimable
  <1>5. \A j \in T : j \notin S
    BY <1>3, <1>4 DEF Has
  <1>6. UNCHANGED <<op, due, overwritten>>
    BY DEF Pull, Dequeue
  <1>7. ASSUME NEW j \in S
        PROVE  /\ row'[j] \in Row /\ row[j] \in Row
               /\ PlaceOf(row'[j]) = "held" /\ HolderOf(row'[j]) = w
               /\ PlaceOf(row[j]) = "waiting"
               /\ j \notin overwritten => RowStep(j)
    BY <1>3, <1>4, ClaimedRow
  <1>8. ASSUME NEW j \in T
        PROVE  /\ row'[j] \in Row /\ row[j] \in Row
               /\ j \notin overwritten => /\ RowStep(j)
                                          /\ PlaceOf(row'[j]) = PlaceOf(row[j])
                                          /\ HolderOf(row'[j]) = HolderOf(row[j])
    BY <1>3, <1>5, RenewedRow
  <1>9. \A j \in Jobs \ (S \cup T) : row'[j] = row[j] /\ held'[j] = held[j]
    BY <1>3 DEF HandOut
  <1>10. \A j \in Jobs \ overwritten : RowStep(j)
    BY <1>7, <1>8, <1>9, RowLeft DEF RowStep
  <1>11. \A j \in Jobs : row'[j] = Unborn <=> row[j] = Unborn
    BY <1>7, <1>8, <1>9, ConstantsAssumption
  <1>12. LeaseStep
    <2> DEFINE G == S \ overwritten
    <2>1. claims' = [j \in Jobs |-> IF j \in S THEN claims[j] + 1 ELSE claims[j]]
      BY <1>3 DEF HandOut
    <2>2. \A i \in Jobs : /\ Place(i)' = IF i \in G THEN "held" ELSE Place(i)
                          /\ Holder(i)' = IF i \in G THEN w ELSE Holder(i)
      BY <1>6, <1>7, <1>8, <1>9, RowLeft, Mapping, MappingNext DEF IInv
    <2>3. \A i \in Jobs : Grants(i)' = IF i \in G THEN Grants(i) + 1 ELSE Grants(i)
      <3> SUFFICES ASSUME NEW i \in Jobs
                   PROVE  Grants(i)' = IF i \in G THEN Grants(i) + 1 ELSE Grants(i)
        OBVIOUS
      <3>1. CASE i \in overwritten
        BY <1>6, <3>1, Mapping, MappingNext DEF IInv
      <3>2. CASE i \notin overwritten
        BY <1>6, <2>1, <3>2, Mapping, MappingNext DEF IInv
      <3> QED BY <3>1, <3>2
    <2>4. G \in SUBSET Jobs /\ \A i \in G : Place(i) = "waiting"
      BY <1>7, Mapping DEF IInv
    <2> HIDE DEF G
    <2>5. G \in SUBSET Lease!Waiting /\ Lease!Grant(G, w)
      BY <2>2, <2>3, <2>4 DEF Lease!Grant, Lease!Waiting
    <2> QED BY <2>5 DEF LeaseStep, Lease!Next
  <1> QED BY <1>6, <1>10, <1>11, <1>12, StatementStep

-----------------------------------------------------------------------------
(* The theorems about jobs whose row was never overwritten *)

LEMMA NextStep ==
  ASSUME IInv, IInv', SInv, Next
  PROVE  FitStep
  <1>1. ASSUME NEW p \in Procs,
               Enqueue(p) \/ Ack(p) \/ Nack(p) \/ Cancel(p) \/ Retry(p)
        PROVE  FitStep
    <2>1. Continue(p) \/ \E j \in Jobs : Request(p, j)
      BY <1>1 DEF Enqueue, Ack, Nack, Cancel, Retry, Continue, Request
    <2> QED BY <2>1, RequestStep, ContinueStep DEF Loops
  <1>2. ASSUME NEW p \in Loops, PublishSave(p) \/ Fail(p) \/ Crash(p)
        PROVE  FitStep
    <2>1. CASE PublishSave(p)
      BY <2>1, PublishSaveStep
    <2>2. CASE Fail(p) \/ Crash(p)
      <3>1. /\ UNCHANGED <<row, claims, held, overwritten>>
            /\ \A q \in Loops : op'[q] = op[q] \/ op'[q] = Idle
            /\ \A s \in Schedulers : due'[s] \subseteq due[s]
        BY <2>2 DEF Fail, Crash, Finish, IInv, TypeOK
      <3> QED BY <3>1, DropStep
    <2> QED BY <1>2, <2>1, <2>2
  <1>3. ASSUME NEW w \in Workers, Pull(w) \/ Heartbeat(w)
        PROVE  FitStep
    BY <1>3, PullStep, HeartbeatStep
  <1>4. CASE SchedulerLoop
    <2>1. ASSUME NEW s \in Schedulers, PromoteSkips(s)
          PROVE  FitStep
      <3>1. /\ UNCHANGED <<row, op, claims, held, overwritten>>
            /\ \A t \in Schedulers : due'[t] \subseteq due[t]
        BY <2>1 DEF PromoteSkips, IInv, TypeOK
      <3> QED BY <3>1, DropStep
    <2> QED BY <1>4, <2>1, FindDueStep, PromoteStep, ReclaimStep DEF SchedulerLoop
  <1>5. ASSUME NEW j \in Jobs, Purge(j) \/ ScheduleArrives(j) \/ LeaseExpires(j)
        PROVE  FitStep
    BY <1>5, PurgeStep, ArriveStep, LeaseExpiresStep
  <1> QED BY <1>1, <1>2, <1>3, <1>4, <1>5 DEF Next

LEMMA InitFits == Init => SInv
  BY ConstantsAssumption
  DEF Init, SInv, RowsFit, Fits, OpsFit, DueFits, OneCreator, Loops

LEMMA AnyStep == IInv /\ IInv' /\ SInv /\ [Next]_vars => FitStep
  <1> SUFFICES ASSUME IInv, IInv', SInv, [Next]_vars
               PROVE  FitStep
    OBVIOUS
  <1>1. CASE Next
    BY <1>1, NextStep
  <1>2. CASE UNCHANGED vars
    <2>1. /\ UNCHANGED <<row, claims, held, overwritten>>
          /\ \A q \in Loops : op'[q] = op[q] \/ op'[q] = Idle
          /\ \A s \in Schedulers : due'[s] \subseteq due[s]
      BY <1>2 DEF vars
    <2> QED BY <2>1, DropStep
  <1> QED BY <1>1, <1>2

LEMMA AlwaysSInv == Spec => []SInv
  <1>1. IInv /\ IInv' /\ SInv /\ [Next]_vars => SInv'
    BY AnyStep DEF FitStep
  <1> QED BY <1>1, InitFits, AlwaysIInv, PTL DEF Spec

\* The row of a running job names the one worker that has it for as long as
\* its lease runs, and a job that waits or whose lease is over is with nobody:
\* what ClaimPending, ExtendLease, the answers and ReclaimExpired keep
\* together however they overlap, until a Save of an outdated copy writes over
\* the row of that job.
THEOREM HolderNamed == Spec => []RowNamesHolder
  <1>1. IInv /\ SInv => RowNamesHolder
    BY InDBRow DEF IInv, SInv, RowsFit, Fits, RowFits, RowNamesHolder
  <1> QED BY <1>1, AlwaysIInv, AlwaysSInv, PTL

\* The delay of a nack or of a delayed enqueue is cut short by nothing else:
\* neither ClaimPending nor PublishDueScheduled takes the job before its
\* instant, and no handler takes the instant away.
THEOREM DelaysKept == Spec => DelayKept
  <1>1. IInv /\ IInv' /\ SInv /\ [Next]_vars =>
          [\A j \in Jobs :
             (j \notin overwritten' /\ InDB(j) /\ row[j].sched = "future"
                /\ row'[j] # Gone) =>
               \/ row'[j] = Arrive(row[j])
               \/ row'[j].sched = "future"
                    /\ row'[j].status \in {row[j].status, "cancelled"}]_vars
    <2> SUFFICES ASSUME IInv, IInv', SInv, [Next]_vars, NEW j \in Jobs,
                        j \notin overwritten', InDB(j), row[j].sched = "future",
                        row'[j] # Gone
                 PROVE  \/ row'[j] = Arrive(row[j])
                        \/ row'[j].sched = "future"
                             /\ row'[j].status \in {row[j].status, "cancelled"}
      OBVIOUS
    <2>1. Delays(row[j], row'[j]) /\ row[j] \in Row
      BY AnyStep, InDBRow DEF FitStep, DelayStep, IInv
    <2> QED BY <2>1 DEF Delays
  <1> QED BY <1>1, AlwaysIInv, AlwaysSInv, PTL DEF Spec, DelayKept

\* The table and its handlers implement the queue of JobLease: a job waits, is
\* with one worker, or is done for good, is given up only after it was handed
\* out MaxAttempts times, and comes back only from the dead-letter state,
\* until its row is overwritten.
THEOREM LeaseImplemented == Spec => ImplementsLease
  <1> SUFFICES Spec => Lease!Spec
    BY DEF ImplementsLease
  <1>1. Init => Lease!Init
    <2> SUFFICES ASSUME Init PROVE Lease!Init
      OBVIOUS
    <2>1. \A j \in Jobs : Place(j) = "unborn" /\ Holder(j) = NoWorker /\ Grants(j) = 0
      BY InitGood, Mapping, PlaceOfNoRow DEF Init, IInv
    <2> QED BY <2>1 DEF Init, Lease!Init
  <1>2. IInv /\ IInv' /\ SInv /\ [Next]_vars => [Lease!Next]_(Lease!vars)
    BY AnyStep DEF FitStep, LeaseStep
  <1> QED BY <1>1, <1>2, AlwaysIInv, AlwaysSInv, PTL DEF Spec, Lease!Spec
=============================================================================
