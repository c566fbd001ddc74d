--------------------------- MODULE PlatformRuntime ---------------------------
(***************************************************************************)
(* The queue runtime of one instance: a loop that takes, task by task, a   *)
(* job of the platform, runs its handler and acks or nacks it, and the     *)
(* Stop that waits for the loop.  Platform jobs are of project 0, whose    *)
(* expired leases nobody takes back (JobQueue), so one that is not         *)
(* answered stays running for good.                                        *)
(***************************************************************************)
EXTENDS Naturals

CONSTANTS
  Duties,        \* the tasks of the registry; each has a queue of its own
  Attempts,      \* max_attempts of a job
  TickBound,     \* bound on the jobs the cron enqueues for a task
  MishapBound,   \* bound on errors of the database and panics
  NoDuty

ASSUME RuntimeAssumption ==
  /\ NoDuty \notin Duties
  /\ Attempts \in Nat \ {0} /\ TickBound \in Nat /\ MishapBound \in Nat

VARIABLES
  runtime,   \* off, started, stopping (Stop waits) or stopped
  loop,      \* the worker loop
  platform,  \* platform[d]: the last job of d's queue
  ticks,     \* jobs the cron has enqueued for a task
  lost,      \* history: tasks whose last job was claimed, or answered, and the database failed
  mishaps

runtimeVars == <<runtime, loop, platform, ticks, lost, mishaps>>

\* todo: the tasks of this round still to come; duty: whose job it has.
Waiting == [pc |-> "select", todo |-> {}, duty |-> NoDuty]
NoJob == [status |-> "none", attempt |-> 0]

RuntimeInit ==
  /\ runtime = "off"
  /\ loop = [Waiting EXCEPT !.pc = "exited"]
  /\ platform = [d \in Duties |-> NoJob]
  /\ ticks = [d \in Duties |-> 0]
  /\ lost = {} /\ mishaps = 0

Mishap == mishaps < MishapBound /\ mishaps' = mishaps + 1
Cancelled == runtime = "stopping"

-----------------------------------------------------------------------------
\* Start does nothing the second time.
StartRuntime ==
  /\ runtime = "off" /\ runtime' = "started"
  /\ loop' = Waiting
  /\ UNCHANGED <<platform, ticks, lost, mishaps>>

\* The ticker and the end of the context may be ready at once.
WorkerLoop ==
  /\ loop.pc = "select"
  /\ \/ loop' = [loop EXCEPT !.pc = "round", !.todo = Duties]
     \/ Cancelled /\ loop' = [loop EXCEPT !.pc = "exited"]
  /\ UNCHANGED <<runtime, platform, ticks, lost, mishaps>>

\* processPlatformQueues goes through the tasks in the order of a map.
ProcessPlatformQueues ==
  /\ loop.pc = "round" /\ loop.todo = {}
  /\ loop' = Waiting
  /\ UNCHANGED <<runtime, platform, ticks, lost, mishaps>>

\* processQueue: Dequeue, which claims nothing once the context is over.
ProcessQueue ==
  /\ loop.pc = "round"
  /\ \E d \in loop.todo :
       IF platform[d].status = "pending" /\ ~Cancelled
       THEN /\ platform' = [platform EXCEPT ![d] = [status |-> "running", attempt |-> @.attempt + 1]]
            /\ \/ /\ loop' = [loop EXCEPT !.pc = "job", !.todo = @ \ {d}, !.duty = d]
                  /\ UNCHANGED <<lost, mishaps>>
               \/ /\ Mishap /\ lost' = lost \cup {d}
                  /\ loop' = [loop EXCEPT !.todo = @ \ {d}]
       ELSE /\ loop' = [loop EXCEPT !.todo = @ \ {d}]
            /\ UNCHANGED <<platform, lost, mishaps>>
  /\ UNCHANGED <<runtime, ticks>>

\* executeJob runs the handler: it returns, with an error or without, or panics.
\* Mutant: after a panic the loop goes on.
RunHandler_Recovers ==
  /\ loop.pc = "job"
  /\ \/ \E outcome \in {"ack", "nack"} : loop' = [loop EXCEPT !.pc = outcome] /\ UNCHANGED mishaps
     \/ Mishap /\ loop' = [loop EXCEPT !.pc = "round", !.duty = NoDuty]
  /\ UNCHANGED <<runtime, platform, ticks, lost>>
RunHandler ==
  /\ loop.pc = "job"
  /\ \/ \E outcome \in {"ack", "nack"} : loop' = [loop EXCEPT !.pc = outcome] /\ UNCHANGED mishaps
     \/ Mishap /\ loop' = [loop EXCEPT !.pc = "nack"]
  /\ UNCHANGED <<runtime, platform, ticks, lost>>

\* What the router makes of the answer; an error is logged and that is all.
Settle(status) ==
  /\ \/ /\ platform' = [platform EXCEPT ![loop.duty].status = status]
        /\ UNCHANGED <<lost, mishaps>>
     \/ Mishap /\ lost' = lost \cup {loop.duty} /\ UNCHANGED platform
  /\ loop' = [loop EXCEPT !.pc = "round", !.duty = NoDuty]
  /\ UNCHANGED <<runtime, ticks>>

AckJob == loop.pc = "ack" /\ Settle("completed")
NackJob ==
  /\ loop.pc = "nack"
  /\ Settle(IF platform[loop.duty].attempt < Attempts THEN "delayed" ELSE "dlq")
ExecuteJob == RunHandler \/ AckJob \/ NackJob

\* Stop cancels the context and waits for the loop, whatever its own context says.
StopRuntime ==
  /\ \/ runtime = "started" /\ runtime' = "stopping"
     \/ Cancelled /\ loop.pc = "exited" /\ runtime' = "stopped"
  /\ UNCHANGED <<loop, platform, ticks, lost, mishaps>>

-----------------------------------------------------------------------------
\* The cron of the leader, which may be another instance (PlatformTick), enqueues
\* the next job: one at a time here, a lost one left out of account.
Enqueues(d) ==
  /\ ticks[d] < TickBound
  /\ platform[d].status \notin {"pending", "running", "delayed"} \/ d \in lost
  /\ platform' = [platform EXCEPT ![d] = [status |-> "pending", attempt |-> 0]]
  /\ ticks' = [ticks EXCEPT ![d] = @ + 1]
  /\ lost' = lost \ {d}
  /\ UNCHANGED <<runtime, loop, mishaps>>

DelayEnds(d) ==
  /\ platform[d].status = "delayed"
  /\ platform' = [platform EXCEPT ![d].status = "pending"]
  /\ UNCHANGED <<runtime, loop, ticks, lost, mishaps>>

RuntimeNext ==
  \/ StartRuntime \/ WorkerLoop \/ ProcessPlatformQueues \/ ProcessQueue
  \/ ExecuteJob \/ StopRuntime
  \/ \E d \in Duties : Enqueues(d) \/ DelayEnds(d)

RuntimeSpec == RuntimeInit /\ [][RuntimeNext]_runtimeVars

-----------------------------------------------------------------------------
\* A job the runtime claimed is answered before it takes another and before
\* Stop returns, also when its handler panics or the shutdown comes in the
\* middle of it; nothing is claimed after that.  Only the database can keep a
\* job from its answer (executeJob, Stop).
JobsAnswered ==
  \A d \in Duties : platform[d].status = "running" =>
    d \in lost \/ (d = loop.duty /\ runtime \in {"started", "stopping"})
=============================================================================
