---------------------------- MODULE PlatformTick ----------------------------
(***************************************************************************)
(* The platform tasks of the schedule service: at each tick of its cron an *)
(* instance takes the task's execution lock in Redis and enqueues a job    *)
(* with an idempotency key made from the time bucket.  Several instances   *)
(* may run their cron at once (QueueLeader shows when).                    *)
(*                                                                         *)
(* Time passes in units of a quarter of a minute.  The lock is never       *)
(* released, it runs out; it does so somewhere within its last unit.  An   *)
(* error, the death of a process and work that a unit passes over are      *)
(* faults.                                                                 *)
(***************************************************************************)
EXTENDS Naturals

CONSTANTS
  Instances,
  Tasks,
  Schedule,     \* units between two ticks of a task's cron schedule
  Bucket,       \* units of the task's idempotency bucket
  LockTimeout,  \* units
  Skew,         \* units by which an instance's clock is fast
  Horizon,      \* bound on time
  LastBucket,   \* the bucket of Horizon
  FaultBound    \* bound on faults

VARIABLES
  now,
  on,      \* the instances whose cron runs
  free,    \* the tasks whose lock nobody holds
  left,    \* units left of a task's lock
  work,    \* what each instance is doing for each task
  rows,    \* rows in the job table with the key <<task, bucket>>
  ticked,  \* history: the <<task, bucket>> for which some cron has fired
  faults

vars == <<now, on, free, left, work, rows, ticked, faults>>

ASSUME TickAssumption ==
  /\ \A t \in Tasks : /\ Schedule[t] \in Nat \ {0} /\ Bucket[t] \in Nat \ {0}
                      /\ LockTimeout[t] \in Nat \ {0}
  /\ \A i \in Instances : Skew[i] \in Nat
  /\ Horizon \in Nat /\ LastBucket \in Nat /\ FaultBound \in Nat
  /\ \A i \in Instances, t \in Tasks : (Horizon + Skew[i]) \div Bucket[t] <= LastBucket

Idle == [pc |-> "idle", bucket |-> 0]
Doing(i, t) == work[i][t].pc
Becomes(i, t, pc, b) ==
  work' = [work EXCEPT ![i][t] = [pc |-> pc, bucket |-> b]]

Clock(i) == now + Skew[i]
\* IdempotencyKey: the bucket in which the instance's clock is.
\* Mutant: the key does not tell two ticks that follow each other.
IdempotencyKey_Coarse(t, time) == time \div (2 * Bucket[t])
IdempotencyKey(t, time) == time \div Bucket[t]
Keys == Tasks \X (0..LastBucket)

-----------------------------------------------------------------------------
Init ==
  /\ now = 0
  /\ on \in SUBSET Instances
  /\ free = Tasks
  /\ left = [t \in Tasks |-> 0]
  /\ work = [i \in Instances |-> [t \in Tasks |-> Idle]]
  /\ rows = [k \in Keys |-> 0]
  /\ ticked = {}
  /\ faults = 0

Fault == faults < FaultBound /\ faults' = faults + 1

\* tryAcquireLock: SetNX with the task's timeout.
TryAcquireLock(i, t) ==
  /\ Doing(i, t) = "due"
  /\ \/ /\ t \in free
        /\ free' = free \ {t}
        /\ left' = [left EXCEPT ![t] = LockTimeout[t]]
        /\ Becomes(i, t, "locked", 0)
     \/ /\ t \notin free
        /\ Becomes(i, t, "idle", 0)
        /\ UNCHANGED <<free, left>>
  /\ UNCHANGED <<now, on, rows, ticked, faults>>

\* The key is made from the clock after the lock has been taken.
MakeKey(i, t) ==
  /\ Doing(i, t) = "locked"
  /\ Becomes(i, t, "keyed", IdempotencyKey(t, Clock(i)))
  /\ UNCHANGED <<now, on, free, left, rows, ticked, faults>>

\* Enqueue looks the key up and returns the job it finds.
FindByKey(i, t) ==
  LET b == work[i][t].bucket
  IN /\ Doing(i, t) = "keyed"
     /\ IF rows[<<t, b>>] > 0 THEN Becomes(i, t, "idle", 0)
                              ELSE Becomes(i, t, "insert", b)
     /\ UNCHANGED <<now, on, free, left, rows, ticked, faults>>

\* The insert, which the unique index refuses if the key is taken by now: the
\* error is logged and the tick is over.
\* Mutant: there is no unique index.
Insert_NoIndex(i, t) ==
  /\ Doing(i, t) = "insert"
  /\ rows' = [rows EXCEPT ![<<t, work[i][t].bucket>>] = @ + 1]
  /\ Becomes(i, t, "idle", 0)
  /\ UNCHANGED <<now, on, free, left, ticked, faults>>
Insert(i, t) ==
  LET k == <<t, work[i][t].bucket>>
  IN /\ Doing(i, t) = "insert"
     /\ rows' = IF rows[k] = 0 THEN [rows EXCEPT ![k] = 1] ELSE rows
     /\ Becomes(i, t, "idle", 0)
     /\ UNCHANGED <<now, on, free, left, ticked, faults>>

\* An error of Redis or of the database ends the tick; the lock, if taken,
\* stays.
Fails(i, t) ==
  /\ Doing(i, t) # "idle"
  /\ Fault
  /\ Becomes(i, t, "idle", 0)
  /\ UNCHANGED <<now, on, free, left, rows, ticked>>

\* The process dies in the middle of whatever it does.
Dies(i) ==
  /\ \E t \in Tasks : Doing(i, t) # "idle"
  /\ Fault
  /\ on' = on \ {i}
  /\ work' = [work EXCEPT ![i] = [t \in Tasks |-> Idle]]
  /\ UNCHANGED <<now, free, left, rows, ticked>>

\* The cron of an instance is started when it becomes leader and stopped when
\* it stops; a tick being worked on is not interrupted.
CronStarts(i) == /\ i \notin on
                 /\ on' = on \cup {i}
                 /\ UNCHANGED <<now, free, left, work, rows, ticked, faults>>
CronStops(i) == /\ i \in on
                /\ on' = on \ {i}
                /\ UNCHANGED <<now, free, left, work, rows, ticked, faults>>

LockExpires(t) ==
  /\ t \notin free /\ left[t] = 0
  /\ free' = free \cup {t}
  /\ UNCHANGED <<now, on, left, work, rows, ticked, faults>>

\* The cron of instance i ticks for task t at the time given.
Ticks(i, t, time) == i \in on /\ (time + Skew[i]) % Schedule[t] = 0

\* A unit passes: locks run down and crons tick.  A cron whose last tick is
\* still being worked on is not modelled as ticking again.
Advance ==
  /\ now < Horizon
  /\ \A t \in Tasks : t \notin free => left[t] > 0
  /\ \A i \in Instances, t \in Tasks : Ticks(i, t, now + 1) => Doing(i, t) = "idle"
  /\ now' = now + 1
  /\ left' = [t \in Tasks |-> IF t \in free THEN left[t] ELSE left[t] - 1]
  /\ work' = [i \in Instances |-> [t \in Tasks |->
                IF Ticks(i, t, now + 1) THEN [pc |-> "due", bucket |-> 0]
                                        ELSE work[i][t]]]
  /\ ticked' = ticked \cup
       {<<p[2], (now + 1 + Skew[p[1]]) \div Bucket[p[2]]>> :
          p \in {q \in Instances \X Tasks : Ticks(q[1], q[2], now + 1)}}
  /\ IF \A i \in Instances, t \in Tasks : Doing(i, t) = "idle"
     THEN UNCHANGED faults ELSE Fault
  /\ UNCHANGED <<on, free, rows>>

Next ==
  \/ Advance
  \/ \E t \in Tasks : LockExpires(t)
  \/ \E i \in Instances :
       \/ CronStarts(i) \/ CronStops(i) \/ Dies(i)
       \/ \E t \in Tasks : \/ TryAcquireLock(i, t) \/ MakeKey(i, t)
                           \/ FindByKey(i, t) \/ Insert(i, t) \/ Fails(i, t)

Spec == Init /\ [][Next]_vars

-----------------------------------------------------------------------------
(* Properties *)

\* No task is enqueued twice for one bucket, although several crons may tick,
\* with clocks that differ, and the lock may run out while its holder is still
\* about to insert: CHANGELOG "Platform cron enqueue uses per-minute
\* idempotency keys".
OnePerBucket == \A k \in Keys : rows[k] <= 1

\* The bucket k has had its tick and nobody is working on its task any more.
Over(k) == k \in ticked /\ \A i \in Instances : Doing(i, k[1]) = "idle"

\* The lock of the task is over when the next tick comes to the instance whose
\* clock is fastest: it is never released, so it must be shorter than the period.
Outlived(t) == \A i, k \in Instances :
                 LockTimeout[t] + Skew[i] < Schedule[t] + Skew[k]

\* The clocks of two instances differ by at most a unit, and by less than the
\* period of every task: what the skipping of a tick is judged under.
ClocksAgree ==
  \A i, k \in Instances :
    /\ Skew[i] <= Skew[k] + 1
    /\ \A t \in Tasks : Skew[i] < Skew[k] + Schedule[t]

\* Every tick has its job ("minutely stale-worker purge"), unless the lock of an
\* earlier tick that has its job is still held, which can only be so for a task
\* whose lock is long: tryAcquireLock gives up without a second attempt.
SkippedOnlyWhileLocked ==
  faults = 0 =>
    \A k \in ticked : Over(k) =>
      \/ rows[k] = 1
      \/ /\ ~Outlived(k[1])
         /\ \E b \in 0..(k[2] - 1) :
              /\ rows[<<k[1], b>>] = 1
              /\ (k[2] - b) * Bucket[k[1]] <= LockTimeout[k[1]] + Bucket[k[1]]

\* A tick of the cron makes one job: never two, and none only under the lock.
EachTickOnce == OnePerBucket /\ SkippedOnlyWhileLocked
=============================================================================
