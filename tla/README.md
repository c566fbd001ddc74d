# qpub-server: a verification development

qpub-server is a realtime messaging and job-queue server written in Go.  Many
instances run side by side; they share a SQL database (jobs, queues, workers,
tenants, API keys, instances), Redis (leader key, execution locks, migration
lock, sums and gauges) and NATS (messages between instances, JetStream streams
for queues).  This directory models it in TLA+, checks the models with TLC and
proves theorems about them with TLAPS.  File names below are relative to
`src/internal/`.

## 1. Inventory

### Queue subsystem

| Component | State | Operations | Hard part | What makes it correct |
|---|---|---|---|---|
| Job table and router (`application/service/queue/router`, `.../job`, `infrastructure/repository/queue/job`, `domain/queue/job`) | rows of `jobs`; copies of rows in request goroutines; lists of due rows in scheduler loops | enqueue, dequeue (long poll), ack, nack, cancel, manual retry, progress, promote due jobs, reclaim expired leases, purge | handlers read a row and later save all of its columns, without a transaction; single statements of other instances run in between; workers and servers die | rows stay possible rows; a job is with one worker at a time; attempts are counted and bounded; delays are kept; expired jobs return |
| Workers (`.../queue/worker`) | rows of `queue_workers` | register, heartbeat (extends all leases), touch on a claim, stale purge, detach from a queue | purge and cascade against heartbeats that save a copy | a worker with a job keeps its row; nobody names a queue that is gone |
| Schedule service (`.../queue/schedule`) | leader key in Redis with TTL, `isLeader`, cron, execution locks | become leader, heartbeat, takeover, stop, enqueue a platform task | an unconditional `SET` as heartbeat, an unconditional `DEL` on stop; two leaders | a platform task runs once per tick; somebody reclaims |
| Lifecycle and cleanup (`.../queue/cleanup`, `domain/queue/lifecycle`, `.../queue/queue`) | status of `queues` and `tenants`, running cascades | write barrier, delete queue or tenant, cascade, resume | check-then-act of the barrier; cascade interrupted by a crash | a deleted queue ends with no jobs and no row; an active one is never emptied |
| Tenants (`application/service/tenant`) | two caches per instance, rows of tenants and of limits | ensure, get, set and get limits | caches no other instance clears | a deleted tenant does not come back; the limit in force is the one that was set |
| Platform runtime (`.../queue/runtime`, `.../queue/platform`) | the loop of an instance, jobs of project 0 | claim, execute, ack, nack, stop | panic, shutdown or crash in a task; nobody reclaims a job of project 0 | a claimed job is answered |
| Queue broker (`infrastructure/repository/queue/broker`) | streams, cache of ensured streams | publish, delete stream | two caches, nobody consumes | the table alone decides |

### Messaging subsystem

| Component | State | Operations | Hard part | What makes it correct |
|---|---|---|---|---|
| Publications (`api/http/handler/messaging/publication`, `application/service/messaging/publication`) | none of its own | publish on a list of channels or one | a request fails in the middle | the answer says what was published |
| Router (`.../messaging/router`) | a buffer per subscription, listening channels | publish inbound, on broker message, deliver, flush | two goroutines at a buffer without a lock | each message once, in the order of its channel |
| Egress pipeline (`.../messaging/session`, `.../egress`) | bounded queue, writer, registry | enqueue with timeout, run, stop | stop against enqueue, slow consumer closed by a sender | the queue drains, the writer ends |
| Subscriptions (`.../messaging/subscription` and its repository) | members of a channel, channels of a subscription, the session's cache | subscribe, unsubscribe, close | a goroutine per message; messages in flight after the disconnection | one subscription a client; no ghosts; what a client was told holds |
| Channels (`.../messaging/channel`, `.../channel/lifecycle`) | channels, pending cleanups | get-or-create, listen, delayed cleanup | creation races | a channel that is published to is listened to |
| Connections, sessions, clients (`.../messaging/connection`, `client`, `session`) | entries, handlers with a write mutex, clients | open, send, ping, close, clean up | a send stores the entry again after its removal; writes without a deadline | one writer a socket; a disconnection ends and leaves nothing |
| Rate limits (`.../messaging/backpressure`) | a fixed-window limiter per project and direction | allow | the limiter is replaced when the limit changes | the rate is held |
| Telemetry, snapshots, instances (`.../telemetry`, `application/service/project/stat/realtime`, `application/service/cluster/instance`) | counters, sums and gauges in Redis, the instance's row | record, snapshot, heartbeat, deregister | the aggregator deletes keys between two snapshots; a pass that outlives its service | an event is counted once; a stopped server leaves nothing |

### Server

| Component | State | Operations | Hard part | What makes it correct |
|---|---|---|---|---|
| API keys and tokens (`application/service/auth/{apikey,token}`, `application/service/apikey`, `api/http/middleware/auth`) | rows of keys | create, update, delete; issue, request, authenticate | read, fill in, read again, save | a key is what the requests made of it; nobody is let in without cause |
| Bootstrap (`bootstrap`) | container, cleanup handlers, migration lock | start, migrate, resolve, shut down | order of eighteen steps and of sixty factories; a lock that runs out | no start is miswired or hangs; what is used stops last |

The components call each other directly: HTTP and WebSocket handlers call the
services, the services the repositories.  Instances meet only in the shared
stores.

What nothing but tests calls is not part of the program and not modelled:
`EventChannelEmpty` is never published, and with it the cleanup of channels,
`Delete` of a channel and `StopListeningToChannel` cannot happen; nor can
`CleanClosedSubscriptions`, `CleanDisconnectedClients`, `CloseAllByProject`,
`CleanupStaleInstances`, `BroadcastToProject`, `Broadcast`, `DeliverOutbound`,
`SendPingToClient`, the batch operations and `GetSummary` of the realtime
statistics, `UpdateProgress` of a job, `RevokeAPIKeyToken`, `PurgeExpired`, the
middleware `TokenAuth`, `Delete` and `BeginDelete` of the tenant service and
`Update` of the queue service.  `BrokerServiceLifecycle` and
`ChannelLifecycleManagerLifecycle` are registered and never asked for.

## 2. Modules

| Module | What it is |
|---|---|
| `JobLease` | abstract: a job waits, is held by one worker, or is done for good; of a job that was written over nothing is promised |
| `JobQueue` | the job table with every handler and statement that writes it; refines `JobLease`, job by job, until an outdated copy is saved over a job's row |
| `QueueLeader` | the leader key of the schedule service, with its time to live, heartbeats, takeover and stop |
| `PlatformTick` | a tick of the leader's cron: execution lock, idempotency key, insert; assumes nothing of `QueueLeader`: any set of crons may run |
| `QueueLifecycle` | status of queues and of the tenant, write barrier, deletion requests, cascades and their resumption |
| `QueueWorkers` | rows of workers under registration, heartbeats, the purge and a queue's cascade |
| `PlatformRuntime` | the loop that runs the platform's jobs, and its stop |
| `Subscriptions` | the indexes of subscriptions under the messages and the end of websocket clients |
| `Connections` | a connection from upgrade to hang-up: entry, send mutex, pipeline, slow consumer, ping |
| `Fanout` | a message from the publishing request to the pipelines of the subscribers |
| `Publishing` | a publish request or message from its permission to its answer |
| `RateGate` | the tenant's limit, its cache and the limiters of a project |
| `Meter` | an event from its counter to the aggregator, a gauge, and the row of the instance |
| `Access` | an API key under control requests, its tokens, and who is let in |
| `Bootstrap` | start, migration, dependency container and shutdown of instances |
| `MCJobQueue`, `MCQueueLeader`, `MCQueueLifecycle`, `MCConnections`, `MCFanout`, `MCBootstrap` | constants for TLC |
| `MCServices`, `MCClients` | constants for six services, and for `Subscriptions` and `Access`, that share no state; a behaviour is one of one of them |
| `JobQueueProofs`, `QueueLeaderProofs`, `QueueLifecycleProofs`, `ServiceProofs`, `RequestProofs`, `SubscriptionsProofs`, `FanoutProofs`, `BootstrapProofs` | theorems |

Modules meet where the components do.  `Fanout` takes subscribers that join and
leave at will, of which `Subscriptions` has the steps, and ends at the
pipeline, where `Connections` begins; `Publishing` ends at the broker, where
`Fanout` begins, and asks a gate that may refuse at will, which is `RateGate`.
`PlatformTick` enqueues what `PlatformRuntime` runs, and what a task then does
is in `QueueLifecycle`, `QueueWorkers` and `JobQueue`.  `Bootstrap` says in which
order all of them start and stop.

### JobQueue

`row[j]` is the row of job `j`: `status`, `worker_id`, `attempt`, `schedule_at`
(none, future, due), the lease (`started_at` against the visibility timeout:
none, fresh, expired) and whether `terminal_at` is set.  `Unborn` is a job whose
id has not been generated, `Gone` one whose row was deleted.  `op[p]` is what
goroutine `p` is in the middle of: the place in the handler and its copy of the
row.  `due[s]` is the rest of the list that `PublishDueScheduled` of scheduler
loop `s` read.  `claims`, `held` and `overwritten` are history.

| Action | Code |
|---|---|
| `Enqueue`: `EnqueueBegin`, `EnqueueCreate` | `Service.Enqueue`: lookup of the key, then the insert |
| `PublishSave`, `Fail` | `publishToBroker`: the broker, then `Update` of the whole copy; or an error |
| `Pull`: `Dequeue` | `Service.Dequeue` -> `ClaimPending`, with `touchRegisteredWorker` |
| `Ack`: `AckRead`, `AckSave`; `Nack`: `NackRead`, `NackRetry`, `NackDLQ`, `NackFinish` | `Service.Ack`, `Service.Nack` |
| `Cancel`: `CancelRead`, `CancelSave`; `Retry`: `RetryRead`, `RetrySave` | cancel, manual retry |
| `Heartbeat` | worker heartbeat -> `ExtendLease` |
| `SchedulerLoop`: `FindDueScheduled`, `Promote`, `PromoteSkips`, `ReclaimExpired` | `PublishDueScheduled`, on every instance; the leader's reclaim |
| `Purge` | the daily purge |
| `ScheduleArrives`, `LeaseExpires`, `Crash` | time and the death of a process |

`Save` is `gorm`'s `Save`: it writes every column and inserts the row again if
it was deleted.  This is the cause of most of what section 4 says.  The code
compares nothing when it saves; the model records in `overwritten` the job whose
row was no longer the copy that the handler had read (`SameRow`), or was no longer
there.  A row is the same if only its lease has moved on while it runs, as under
every handler of a worker that also sends heartbeats.  No step depends on
`overwritten`.  It says of which job the program has broken its word: of the others
the lease, the holder and the delay are promised whatever handlers, claims,
reclaims and scheduler loops do at the same time, to the same rows and to others.

The claim of `Dequeue` and the lease extension that follows it are one step, in
which the leases are those after both.

### QueueLeader

`owner` and `ttl` are the Redis key and the time it has left.  Of each process:
`life`, the place in `ensureLeaderAndCron` (`pc`), `isLeader`, whether the cron
runs, and the timers `beat` (heartbeat goroutine) and `watch` (takeover loop).
Time passes in units of five seconds: `Tick` when nothing is due, `LateTick`
when something is, which is a fault like an error of Redis.

| Action | Code (`application/service/queue/schedule/service.go`) |
|---|---|
| `Start`, `TryBecomeLeader`, `TryFails`, `Lead` | `Start`, `ensureLeaderAndCron`, `tryBecomeLeader` |
| `TakeoverRound`, `BlindRound` | `runLeadershipTakeover` with `isLeadershipStale` |
| `Heartbeat`, `HeartbeatFails` | `startLeaderHeartbeat` |
| `StopBegin`, `StopEnd`, `StopFails` | `Stop`, `releaseLeadership` |
| `Exit`, `Tick`, `LateTick` | death of a process, time |

The first takeover round comes after the call of `ensureLeaderAndCron` in `Start`
is over (they are twenty-five seconds apart).

### PlatformTick

`on` are the instances whose cron runs, `free` and `left` the execution locks,
`work` what an instance does for a task, `rows` how many jobs have a key.  Each
instance has a clock that may be fast (`Skew`).

| Action | Code |
|---|---|
| `Advance`, `Ticks` | the cron fires (`startCron`) |
| `TryAcquireLock`, `LockExpires` | `tryAcquireLock`: `SetNX`, and the expiry of its key |
| `MakeKey` | `IdempotencyKey` of `platform/registry.go` |
| `FindByKey`, `Insert` | `Enqueue` of the platform job: the lookup, then the insert under a unique index |
| `Fails`, `Dies`, `CronStarts`, `CronStops` | errors, deaths, changes of leader |

A cron does not tick again while its last tick is being worked on (a minute is
long for two round trips to Redis and two to the database).

### QueueLifecycle

`tenant` is the status of one tenant's row, `cached` the instances whose tenant
service holds it, `queue[q]` the row of a queue name (its id tells a row from
the next one of that name), `job[j]` whether a job is active, done (completed or
cancelled), out of attempts (`dlq`) or deleted, `op[p]` what a handler, scheduler
loop or cascade is in the middle of, with its copies and lists.

| Action | Code |
|---|---|
| `Enqueue`, `EnsureFind`, `EnsureCreate`, `Insert`, `PublishSave`; `UpsertQueue` | `Service.Enqueue` with `queueService.Ensure`; the queue's HTTP handler |
| `SettleRead`, `SettleSave`, `NackFind` | ack, nack, cancel; a nack that publishes the job again at once |
| `RetryRead`, `RetrySave` | the manual retry of `job/service.go` |
| `FindDueScheduled`, `NextDue`, `Promote`, `PublishSave` | `PublishDueScheduled`: the list, then for each job the lookup of its queue, the save and the publish, without the guard |
| `PurgeTerminalJobs` | the purge of finished jobs |
| `DeleteQueue`, `CountActive`, `MarkQueue`, `ForceCancel` | `RequestDeleteQueue` |
| `DeleteJobs`, `DeleteRow` | `cascadeQueue` |
| `DeleteTenant`, `MarkTenant` | the control handler and `RequestDeleteTenant` |
| `ListQueues`, `TenantMarks`, `DeleteAllJobs`, `TenantDeletesRow`, `DropTenant` | `cascadeTenant` |
| `ListDeleting`, `ResumeQueue`, `ResumeTenant` | `ResumePendingCascades` |
| `EnsureTenant`, `GetTenant` | `tenant.Service.Ensure` and `Get` |
| `Crash` | a process dies, or gives up on an error |

`overtaken` is history: it becomes true when a step writes although what its
process checked or read no longer holds: an insert or a manual retry into a queue
that is being deleted by now, a row created while the last cascade of its name
still runs, a tenant made active under a cascade, and any save of a job, by a
handler, by the publish that follows or by a scheduler loop, that was active when
it was read and is not any more.  So a scheduler loop that brings back a cancelled
or deleted job, with or without its queue, has overtaken somebody; one that saves a
job which is still active has not, even in a queue that is being deleted, since the
job is counted and deleted like any other.  The code prevents none of these; the
safety properties say what holds until one happens.

The statements that keep an active job active (claims, leases, reclaims) are not
steps of this module: none of them finds a job that is not active.

### QueueWorkers

`worker[w]` is the row of a worker id (whether it is stale and whether its list
names the queue), `queueRow` the queue that list may name, `running`
the workers that run a job, `task[h]` what a handler is in the middle of, with
its copy or list.  `vouched` (workers that had a row, and no
purge past its checks, when they claimed) and `behind` (rows named by a write past the cascade's) are history.

| Action | Code |
|---|---|
| `Registers`: `RegisterChecks`, `RegisterCreates` | `Register` of the handler and the service: the guard, then the insert |
| `WorkerBeats`: `HeartbeatFinds`, `HeartbeatSaves` | `Heartbeat`: the row is read, changed and saved |
| `TouchRegisteredWorker` | `touchRegisteredWorker` of a claim |
| `PurgeStaleWorkers`: `ListStale`, `HasRunningJobs`, `DeleteStale` | the purge task |
| `MarkDeleting`; `DetachQueueFromWorkers`: `ListByProject`, `RemoveQueue`; `DropQueue` | deletion of the queue, its cascade |
| `JobEnds`, `Stops`, `FallsSilent` | the job's row, an error or a death of a server, time |

### PlatformRuntime

`platform[d]` is the job of task `d`, `loop` the goroutine with the job it has
in hand, `runtime` the service.  `lost` are the jobs whose answer the database
refused.

| Action | Code (`application/service/queue/runtime/service.go`) |
|---|---|
| `StartRuntime`, `StopRuntime` | `Start`; `Stop`, which cancels and waits for the loop without a bound |
| `WorkerLoop`, `ProcessPlatformQueues`, `ProcessQueue` | the ticker, the sweep of the queues, the claim |
| `ExecuteJob`: `RunHandler`, `AckJob`, `NackJob` | the handler, with its `recover`; the answer, which does not use the cancelled context |
| `Enqueues`, `DelayEnds` | a tick of the cron (`PlatformTick`), the delay of a nack |

### Subscriptions

`reader[c]` is where the goroutine that reads a connection is, `h[r]` where the
goroutine of one message is.  `named` is the id in the client, `cache` the
session's subscription, `members` and `chansOf` the two indexes.  `raced`,
`overtaken` and `deaf` are history: the cases in which the code promises less.

| Action | Code |
|---|---|
| `HandleConnection`, `ReadMessage` | `readWebSocketMessages` and the goroutine for each message |
| `SubscribeMessage`: `GetOrCreateSubscription`, `FindChannel`, `CreateChannel`, `AlreadySubscribed`, `AddChecksClosed`, `AddInserts`, `EnsureChannelListening` | `handleSubscribeMessage`, `Subscribe` with the repositories' locks as step boundaries |
| `UnsubscribeMessage`: `FindSubscription`, `Unsubscribe` | `handleUnsubscribeMessage` |
| `Disconnection`: `HandleDisconnection`, `LookupSubscription`, `CloseSubscription`, `UnregisterConnection` | the deferred calls of the reader |

The session's subscription and the client's note of its id
(`handler.go:494-497`) are one step: what a disconnection between the two would
miss is what it misses of any message still being handled, which
`GhostsAreLate` excepts.

### Connections

One entry, one send handler with its mutex, one pipeline for each connection;
`op[p]` is the place of a process, which is the reader, the writer or the pinger
of a connection or a sender.  Messages are counted only.

| Action | Code |
|---|---|
| `HandleConnection`, `RegisterConnection` | upgrade, `Register`, the session's pipeline; then the goroutines |
| `Send`: `SendLooksUp`, `SendLocks`, `SendWrites`, `SendStores` | `Send` of the connection service |
| `Close`: `CloseFinds`, `CloseMarks`, `Unregister` | `Close` |
| `Run`: `WriterTakes`, `WriterExits` | `Run` and `deliver` of the pipeline |
| `Deliver`, `HandlePing`, `EnqueueChecksStop`, `Enqueue`, `HandleDrop`: `DropReads`, `DropWrites`, `DropJudges` | the session's `Deliver`, pongs, `Enqueue` with its timeout, the slow consumer |
| `ReadFails`, `PingFails`, `Disconnect`, `RemovePipeline`, `StopPipeline`, `JoinWriter`, `UnregisterConnection`, `HangUp` | the ends of the reader and the pinger |
| `CleanStaleConnections` | the server's maintenance |
| `Peer` | the client: it stalls, recovers, is gone |

The branch of the upgrade for a client that cannot be stored is left out: the store
refuses only an id it has, and `New` of the client makes a new one.

### Fanout

`wire[ch]` are the messages of a channel on their way, `g[l]` a goroutine of the
NATS client in the router's callback, `buf[s]` the bounded queue of a
subscription.  A push and a pop are a read and a write of the slice, because the
queue has no lock.  `crossed` and `torn` record when two goroutines were at one
buffer.  The length that a push checks and the slice it appends to are one read; a
change between them is `torn` as well.

| Action | Code |
|---|---|
| `PublishInbound`; `Lose` | `PublishInbound`, `EnsureChannelListening`; NATS delivers at most once |
| `Join`, `Leave`, `Close` | what `Subscriptions` does to the index, in any order |
| `OnBrokerMessage`, `NextSubscriber` | the callback and its loop |
| `DeliverToSubscriber`: `AllowOutbound`, `PushReads`, `PushWrites`, `PopReads`, `PopWrites`, `Deliver` | `deliverToSubscriber` with the policy of a full buffer, and the flush |

### Publishing

`pub[p]` is a request with its list of channels, or a websocket message with
one; `at` is the channel at hand, `failed` the ones that failed.

| Action | Code |
|---|---|
| `Receive`, `ClientGone` | the handler up to its loop, permissions included |
| `Create`, then `Publish`: `AllowInbound`, `Lookup`, `Inserts`, `Listens`, `BrokerTakes` | the publication, the rate limit, `GetOrCreate`, the listener, NATS |
| `InsertedBySubscriber`, `LinkDrops`, `LinkReturns` | a subscriber's `GetOrCreate`; the connection to NATS |

### RateGate

`limitsRow` and `limitsCache` are the tenant's limits in the store and in this
instance, `limiters` the limiters made so far, of which the last is in force.
`passed` (when a message passed, and which limiter) and `moves` (how often the
limits a request would be told have changed) are history.

| Action | Code |
|---|---|
| `GetLimits`, `FindLimits`, `CacheLimits`, `PickLimiter`, `Allow` | a message at the gate: the cache, the row (read without the lock), the cache again, the limiter of the project, its window |
| `SetLimits`, `SetElsewhere`, `ForgetLimits` | the control handler here and elsewhere, the deletion of the tenant |
| `ClockTicks` | time |

### Meter

`counter` is the counter of events in memory, `totals` and `gauge` what is in
Redis, `row` the row of the instance.  Events are ids, so that a lost one and
one that is counted twice differ.

| Action | Code |
|---|---|
| `Register`, `StartSnapshots`, `StopSnapshots`, `StopHeartbeat`, `Deregister`, `Exit` | start and shutdown, in the order of the container |
| `Connections`, `CreateChannel`, `Record` | what is counted |
| `SyncStatsToRedis`: `Tick`, `CheckAndReset`, `ReadFigures`, `WriteGauges`, `WriteSums` | a pass of the snapshot service |
| `Heartbeat` | `FindByID`, then `Save` |
| `Aggregate` | the aggregator, a program outside this repository that reads and deletes the keys |

### Access

`key` is the row of one API key, `control[w]` a control request in the middle of
it, `tokens` the tokens in circulation, `call[c]` a request with a key or token.

| Action | Code |
|---|---|
| `CreateAPIKey`, `UpdateAPIKey`: `UpdateReads`, `UpdateReadsAgain`, `UpdateSaves`; `DeleteAPIKey`: `DeleteReads`, `DeleteReadsAgain`, `DeleteRemoves` | the control handler and the service, which each read the row |
| `IssueToken`, `RequestToken` | the token handlers, the second behind `TokenRequestAuth` |
| `APIKeyOrTokenAuth`: `Arrive`, `TryAPIKeyAuth`, `TryTokenAuth`; `Served` | the middleware and the end of the request |
| `TimePasses` | time |

### Bootstrap

The tables at the top of the module are the ones of `bootstrap/modules`: what
each factory asks the container for, in order.  `app[i]` is an instance: its
step in `App.Start`, the stack of factories in progress, what is built, what is
up, the cleanup handlers.  `lock` is the migration lock in Redis.  The tables are
sets of rows, `Needs` looks a row up, and `Below` follows the needs of a part to
the end; that sixteen steps are the end is an assumption TLC evaluates.

| Action | Code |
|---|---|
| `SetupValue`, `Connect`, `SetupFails`, `SetupDatabase` | the steps of `App.Start` |
| `RunMigrations`, `Migrate`, `MigrateFails`, `WaitForMigrations`, `WaitTimesOut`, `LockExpires`, `LockOutrun` | `bootstrap/database.go` |
| `SetupContainer`, `RegisterServiceModules`, `Ask`, `Get`, `Build`, `BuildFails`, `Ready` | the container |
| `Signal`, `CleanupRun`, `StopService`, `ContainerStopped`, `Exit`, `Crash` | shutdown, which ends at the first error |

A service is down when its `Stop` was called.  `Stop` of the snapshot service and of
the schedule service return while a pass or a job of theirs may still use Redis or the
database, so `StopsInOrder` is about the order of the calls; what a pass that outlives
its service can still write is in `Meter`.

## 3. What the runs check

| Run | Instance | Shows |
|---|---|---|
| `race` | 2 jobs with one idempotency key, 2 requests, 1 scheduler loop, 2 claims | `RowsConsistent`, `AttemptsEarned` under every overwrite |
| `lease` | 2 jobs, 2 workers, batches of 2, 1 request and 1 scheduler loop | `RowNamesHolder`, `DelayKept`, the refinement of `JobLease` |
| `live` | 1 job of a tenant's project, 2 scheduler loops, fairness | `ExpiredIsReclaimed`, `DueIsPromoted` |
| `twice` | 1 job, 2 workers | the finding of section 4 |
| `leader` | 3 instances, 3 starts, 1 fault; key 30 s, heartbeat 20 s, rounds 25 s | `OneLeader` until something fails; `ReplacedInTime` and `LeaderFound` whatever failed |
| `lifecycle` | 1 queue created twice, 2 jobs deleted one at a time, 2 requests, 1 scheduler loop, the maintenance task, 1 death | `NoOrphans`, `OnlyByForce`, `TenantGoesLast` |
| `ends` | the same with 1 request and 1 job, fairness | `DeletionEnds` |
| `clients` | either 1 key, 2 control requests, 1 caller, 1 token; or 2 clients, 2 channels, 2 messages at once, 3 in all, 1 failure of the broker | `UpdateHolds`, `AdmittedForCause`; `GhostsAreLate`, `OneSubscription`, `ToldIsTrue` |
| `connections` | 1 connection, 1 sender, 3 messages, a queue of 1, 2 drops to a slow consumer, fairness | `OneWriter`, `DisconnectEnds`, `EntryGoes`, `QueueDrains` |
| `fanout` | 2 channels, 1 subscription on both, 2 NATS goroutines, 3 messages, 1 fault, fairness | `OnceEach`, `InOrder`, `FanoutEnds` |
| `bootstrap` | 2 instances, 2 migrations, 1 failure, fairness | `NeverMiswired`, `SchemaFirst`, `StopsInOrder`, `StartEnds` |
| `services` | one of six services in each behaviour, see below | `EachTickOnce`, `CountedExactly`, `LeavesNothing`, `GaugeFollows`, `RateHeld`, `LimitsHold`, `AnswerIsTrue`, `FailsForCause`, `WorkersHold`, `JobsAnswered` |

`services` puts six modules that share no state side by side: `turn` chooses
one, and the others rest.  Its states are those of six separate runs, added
up, not multiplied; each property speaks of one module.  `clients` does the same
with two.

Bounds of the job table: two requests and a scheduler loop in flight on one row
give every pair of handlers, each overwriting the other; a third adds only
further stale copies of the same kind.  Two claims of a job with two attempts reach
the dead-letter state and the manual retry, and a third (`live`) the attempt after
it.  Two jobs are needed where a statement takes several rows (batches,
heartbeats, keys).

`lease` lets a handler and the scheduler loop, which carries a list, interleave with
claims, reclaims and heartbeats of both jobs.  Its constraint, `SomeNotOverwritten`,
gives up a behaviour once the rows of both jobs have been written over: the three
properties are about the other jobs, and no job is taken off `overwritten` again, so
that nothing is left to check behind that point (767,952 states remain).

`live` is about jobs of tenants' projects, as the two properties are: the queries of
`FindDueScheduled` and `ReclaimExpired` join `tenants`, which has no row for project 0
(section 4).

Bounds of the leader: three starts give a leader, a rival and a successor, or a
restart of either; one fault (`FaultBound`) at any point is what the properties
about faults distinguish, since they speak of the time after the last one.
`BootBound` bounds starts and with them everything else.

Bounds of the lifecycle: one queue name with two rows (`IdBound`) and two
requests give every pair of handlers, or a handler beside two cascades, on a
queue that is deleted and created again; two jobs and `Batch = 1` give a cascade
several batches; one death (`CrashBound`) cuts a cascade at any statement.  A
scheduler loop has both jobs on its list or one of them.
Requests and jobs are interchangeable, so `lifecycle` uses their symmetry; `ends`
checks liveness and does not.  Each safety property is true of every step once
`overtaken` is, and it stays so; the constraint `NotYetOvertaken` therefore gives up
a behaviour there (2,396,136 states remain).  `ends` goes on, as its property does
not speak of `overtaken`; one job and one batch make 110,137 states of it.

Bounds of the messaging runs: two messages of one client in flight, or one of
each client, are what the indexes can be torn between, and the third
(`RequestBound`) sees what the first two left; two subscriptions of a client
(`SubBound`) are one more than there should be.  Of a key, two control requests
overlap, with one caller, one token and three ticks of time; a token for which no
lifetime is asked lives two ticks and a lifetime that is asked for is at most one,
since `config/auth/token.go` does not compare the two, and a signed request may be a
tick from the clock on either side (`Tolerance`).  Requests, clients, channels and
permissions are interchangeable.  A connection and its sender
are five processes at one entry; connections share nothing else.  With a buffer
of one, the second message of a goroutine finds it full; three messages on two
channels give one goroutine a successor while the other is at the buffer.

Bounds of `bootstrap`: one instance migrates and one waits; one failure,
death or timeout at any step of either (`FaultBound`).  The tables are the real
ones.

Bounds of `services`: the cron has thirteen quarters of a minute (`Horizon`),
which hold three ticks, two instances with clocks fifteen seconds apart, the two
minutely tasks and one fault; the figures have one event, one connection and one
error, since passes are told apart by what they carry; the gate has limits of 0,
1 and 2 set twice, two messages at once, three that pass, a clock of three values
and a window of two, in which a limiter passes twice its limit and a change of
limits makes the three limiters that `FewLimiters` allows; publications are two, on lists that name a channel twice and a refused one
first; one worker has three handlers about it, so that a purge, a cascade and a
heartbeat meet; two platform jobs have two attempts and two mishaps between them.

Fairness.  `live`: goroutines of a live server go on, the scheduler loops tick
every five seconds and the leader's reclaims; promotion and reclaim are strongly
fair because a crash, an error or a row lock can hold up a single round and not
every one.  `leader`: time goes on and so do the goroutines of a live process;
starts, stops, deaths and faults are not fair.  `ends`: the maintenance task
goes on, and nobody else need; `EachTickOnce` says that it is enqueued, and that a lost tick is
followed by another.  `connections`: the goroutines of the server and its
maintenance ticker go on, a Go mutex is handed on in turn and so is `select`
between a queue and a stop, which is why those two are strongly fair; clients
owe nothing.  `fanout`: the goroutines of the NATS client go on.  `bootstrap`: a
start goes on unless it fails, and Redis expires a key.  `services`: the ticker
of the snapshot loop ticks.  Clients, workers and the goroutine a request leaves
behind are not fair at all.

Deadlock is not checked where a bound ends the behaviours or everybody may have
left: `services`, `clients`, `connections`, `fanout`, `bootstrap`, `twice`.

## 4. Findings

* `twice`: `publishToBroker` saves the job it inserted before the publish.  A
  worker that claims the row in between loses it, and a second worker gets it.

Other behaviour the models make visible, without a run of its own:

* `PublishDueScheduled` saves rows from a list, without the guard; a job cancelled in
  the meantime is pending again, and one deleted in the meantime is inserted again,
  even when its queue has gone.
* A manual retry that has passed the guard saves its job into a queue that is being
  deleted by now, where it is deleted without force.
* `ReclaimExpired` joins `tenants`: a platform job (project 0) whose instance
  died stays running for ever.
* An enqueue that has passed the guard inserts its job into a queue or tenant
  that is being deleted, possibly after its rows are gone; a worker registers the
  same way.
* A token for which no lifetime is asked lives for the configured duration, which
  nothing compares with the longest lifetime that may be asked for.
* A lease that ran out is given to the next worker without a look at the
  attempts.
* A leader that is late by a heartbeat goes on beside its successor, which
  `OnePerBucket` makes harmless for platform tasks; the two minute lock of the
  cascade task outlives the tick of the next minute.
* `Ensure` answers from a cache that no deletion on another instance clears, and
  makes a tenant active that is being deleted; the cached limits of a tenant
  outlive it.
* The save of a heartbeat or of a cascade brings back a queue name another one
  removed, or a worker row that was purged.
* A stale worker that claims a job between the purge's look for running jobs and
  its delete runs without a row, and its heartbeats are answered "not found".
* Control requests that overlap on one key can lose an update, or insert the row
  of a deleted key again.
* `domain/messaging/channel/service.go:16` says "GetOrCreate gets a channel by ID, creating
  it if it doesn't exist"; the loser of a race to create it gets an error.
* A 429 in the middle of a publish request says nothing of the channels before.
* A lookup that read the row before a change writes the old limits into the cache
  after it.  Requests that still have the old limits and requests that have the
  new ones then replace each other's limiter, and each new limiter begins with an
  empty window: one change of the limits can make two limiters for every request
  that overlaps it, each with its full rate.  A window that is fixed lets up to
  twice the limit through where two windows meet.  `RateHeld` states both bounds.
* A subscription the broker refused stays in the index; the next try is told it
  is subscribed, without a listener.
* After `Close` the connection is gone from the repository, so that the event
  "Connection closed" of the disconnection is not published.

## 5. Proofs

| Module | Theorem | States |
|---|---|---|
| `JobQueueProofs` | `TypeCorrect`, `RowsStayConsistent`, `AttemptsStayEarned` | types, `RowsConsistent`, `AttemptsEarned` |
| | `HolderNamed`, `DelaysKept`, `LeaseImplemented` | `RowNamesHolder`, `DelayKept`, the refinement of `JobLease` |
| `QueueLeaderProofs` | `LeaderTypes`, `KeyIsTheLeaders`, `AtMostOneLeader`, `LeaderReplaced` | types, `KeyNamesLeader`, `OneLeader`, `ReplacedInTime` |
| `QueueLifecycleProofs` | `LifecycleTypes`, `JobsHaveTheirQueue`, `DeletedOnlyByForce`, `TenantRowGoesLast` | types, `NoOrphans`, `OnlyByForce`, `TenantGoesLast` |
| `ServiceProofs` | `WorkersKeepHolding`, `ClaimedJobsAnswered` | `WorkersHold`, `JobsAnswered` |
| | `LimitsKeepHolding`, `RateAlwaysHeld` | `LimitsHold`, `RateHeld` |
| | `TickMakesOneJob`, `OneJobPerBucket` | `EachTickOnce`, under `ClocksAgree`; its first half, `OnePerBucket`, without |
| | `EventsCountedOnce`, `ShutdownClears` | `CountedExactly`, `LeavesNothing` |
| `SubscriptionsProofs` | `OneSubscriptionAlways`, `GhostsAlwaysLate`, `ToldAlwaysTrue` | `OneSubscription`, `GhostsAreLate`, `ToldIsTrue` |
| `FanoutProofs` | `DeliveredOnce`, `OrderKept` | `OnceEach`, `InOrder` |
| `RequestProofs` | `NobodyWithoutCause`, `LastUpdateHolds` | `AdmittedForCause`, `UpdateHolds` |
| | `AnswersAreTrue`, `FailuresHaveCause` | `AnswerIsTrue`, `FailsForCause` |
| | `OneWriterAlways` | `OneWriter` |
| `BootstrapProofs` | `TypeCorrect`, `StartsAreWired`, `SchemaComesFirst`, `StopsInOrderAlways` | types, `NeverMiswired`, `SchemaFirst`, `StopsInOrder` |

Each holds for every value of the constants that satisfies the module's
assumption.  One hypothesis occurs besides: `ClocksAgree` bounds
the clock skew under which a skipped tick is judged; `MCServices` states it of its
instance.  `NoKeyAssumption` and the finite `Requests` of `GateAssumption` only
name a value and a set that are so in any run of the program.

`JobQueueProofs`: `RowsConsistent` is not inductive: a save replaces a row by a
copy made long ago.  The inductive invariant `IInv` therefore asks of every copy
in flight, and of every row in a scheduler's list, what it asks of the rows, with
what each handler has checked (`CopyFits`: an ack or a nack holds a copy of a
running row, an enqueue one of a waiting row).  `MarksGood` shows that what a
handler makes of a good copy is a good row; each action then has its lemma, and
`GoodMonotone` covers the one that counts a claim.  For the lease, `SInv` says more:
that the row of a job that is not `overwritten` fits who has the job, the ghost `held`
being the worker of a running row whose lease is fresh (`RowsFit`); that a handler's
copy is one its checks admit, whoever else has a copy of the same row (`OpsFit`); that
a loop's list has due rows only (`DueFits`); and that a job that is not yet in the
table has one creator (`OneCreator`).  Nothing excludes that many copies of a row are
in flight.  A save either finds the row as it was copied, and then what the copy was
admitted with is true of the row, or it puts the job among the `overwritten`; so no
copy need be compared with the row before it is saved.  `SaveFacts` says this once,
`HandlerStep` and `StatementStep` turn it into a step of `JobLease`, or a stutter, for
the two kinds of writers.  That one save cannot harm a second job is part of the
theorem: what is promised is lost job by job.

`QueueLeaderProofs`: of `LeaderAssumption`, `Beat < KeyTTL` is what matters.  That
the key names the leader is not inductive: nothing in it says that the key will
still be there at the next heartbeat.  `KeyHeld` adds it: while nothing has
failed, the key of who leads has at least `beat + KeyTTL - Beat` units left, and
`Orderly` says which combinations of `life`, `pc` and timers a process can be in.
`LeaderReplaced` speaks of time without a leader: `WaitInv` says that while nobody
leads, the key has run out or will before `KeyTTL` of quiet is over, and that the
next takeover round of every instance that is up comes before `Replacement` is.

`QueueLifecycleProofs`: a cascade deletes the row on the strength of what it
found earlier.  `Fit` says what a process has in hand at each place in the code;
`Barred` adds that, until something was overtaken, the queue of a cascade is not
active, that nothing is left in it when its row goes, and that the rows a
tenant's cascade has yet to mark are the ones it listed.  The steps of other
processes keep this because each is `Mild`: a queue with a cascade does not become
active, jobs come only to active queues, and rows with jobs stay.  `Stepped` is a
mild step that leaves its own process barred; each action has its lemma that it
is one, and `SteppedKeeps` is the one proof that such a step keeps the invariant.
The history `overtaken` is the condition of the theorem as of the run: nothing but
a write past a stale check can orphan a job.  `CInv` adds what a process has found
out: a deletion without force that counted no active job marks a queue that still
has none (`Meant`), and what is left of a tenant is on the list of its cascade,
which has emptied it when the row goes (`Emptied`).

`ServiceProofs`: a worker with a job keeps its row because the purge looks for
running jobs after its list and nobody is past that look (`Spared`); no row names a queue that is gone because a cascade still has before it
every row that does (`Covered`, `Detaching`).  The runtime's invariant ties the job
in hand to its place in the loop (`LoopFits`), the gate's ties what a lookup read
to the row (`LookupFits`).

The rate has two halves.  `LimitersFit` keeps of each limiter that what has passed
since its window began is its count, and that every window of that length, wherever
it begins, holds at most twice the limit; `Narrower`, `Joined`, `OneMore` and
`NonePassed` are the facts about `Cardinality` of windows it takes.  The number of limiters is a potential argument:
`Owing` is what the requests at the gate can still cost while the limits stay as
they are (two for each with other limits, one more if the newest limiter has
others), no step but a change of limits raises it together with what was made
(`PickAffords`), and a change raises it by at most `Each` (`MoveAffords`).

For the cron, `TickInv` says why a tick that finds the lock held needs no job: a
lock that is held was taken at a tick, by an instance that made the job of its
bucket or is about to (`LockIsATicks`), so that every bucket that was reached has
its job, or is within the life of the lock of one that has, or is being worked on
(`TicksMet`).  Unique keys alone, without an invariant, exclude a second job.
`MeterInv` follows an event from the counter to the sums: while nothing was
aggregated in the middle of a pass, the sums in Redis are part of the counter,
and the counter has nothing that was aggregated before, or is about to start
again (`SumsGoOn`); `StopsKnown` follows what a stopped pass can still write.

`SubscriptionsProofs`: while a client is read, the cache holds the only
subscription ever made for it, none of its subscriptions is closed, and nobody
works with a higher number than was made; so all members of an index are that one.
`IndexInv` adds that the two indexes agree (`Linked`), that a client that left with
no message in flight had at most that one and is past closing it (`Left`), and for
each client and channel what the one handler that is about it has done so far, or
else that the client was told the truth (`ToldInOrder`).

`FanoutProofs`: `FanInv` says of each subscription where its messages are.  `Fresh`
says which have not been there: the ones on the wire, and the one in hand for whoever
is still on the goroutine's list.  `Placed` says that those that are due are at one of three
places (`Somewhere`) and at no two (`Once`), of which the sum in `OnceEach` is a
consequence (`CopiesCounted`).  That a goroutine about to write the items back has read what is
still there (`Apart`) is so until accesses overlapped (`torn`).  No buffer is left alone
because there are at least as many goroutines flushing it as items in it (`Flushed`).
For the order, `Single` says that whoever delivers to a subscription alone delivers what
it brought, so that what is due of the same channel is nothing but that message (`OnlyOneDue`).
Each action is a step that touches one subscription at most (`OneTouched`).

`RequestProofs`: for access, what the requests that overlap have been counted for
(`Counted`), that a lone deletion is on its way to the row (`Going`), and that a
late caller finds neither key nor request (`GoneFor`).  For publications, `Done`
accounts for every channel of a request up to the one at hand: failed with a
cause, or taken and listened to; the answer is read off it at the end.  For a key,
`KeyInv` follows every value a request is about to write back to a request of the
overlap or to the row before it (`Prepared`, `KeyFrom`), and the last update that
was saved, if none is about to be (`LastHolds`).  For a socket, who is inside a write
holds the mutex of its connection (`WritersHold`), which nothing but the end of the
write releases.

`BootstrapProofs`: every type has a place in an order of building, `Rank`, and each
factory asks only for lower ranks (`FactoriesFit`, `RootsFit`, over the real tables).
So the ranks of the factories in progress fall (`Linked`), none can meet itself, and
what one asks for is a value that `App.Start` made before the container (`Stocked`)
or has a factory (`NeedsFit`): the branch of `Get` that fails is never taken.  The one
row that would miss, of `*ChannelLifecycleManagerLifecycle`, is `NeverAsked`; the proof
shows that nothing asks for it.  The lifecycle services and the cleanup handlers are
stacks, prefixes of the order of the start (`Stacked`), as long as the step says while
it goes up (`Rising`), and on the way down the container is emptied before the clients
close (`Falling`).  `UsesOfLifecycle` turns this into `StopsInOrder`: what a lifecycle
service uses through any chain of factories has no higher rank (`BelowLow`), and the
ranks of what the lifecycle services stop are in the order of their start.  For the
schema, `Migrating`: while migrations are missing and nothing was broken, the holder of
the lock is the instance that migrates, who waits finds it held, and nobody is past it.

Only model-checked: everything that must eventually happen
(`ExpiredIsReclaimed`, `DueIsPromoted`, `LeaderFound`, `DeletionEnds`,
`DisconnectEnds`, `EntryGoes`, `QueueDrains`, `FanoutEnds`, `StartEnds`,
`GaugeFollows`), since liveness under fairness is out of the prover's reach.

## 6. Left to do

The promises of `Bootstrap` that take time: how long a start can wait for the
migrations of another instance.

## 7. Not modelled

* Payloads, results, error texts, logs; HTTP and websocket decoding and
  validation; identifiers, pages, sizes; configuration.
* Queue broker: the JetStream messages of a queue are published and never
  consumed, so only the success or failure of the publish is modelled, in
  `JobQueue`.
* Queue telemetry and backpressure: counters nobody reads back, and a gate that
  always opens.
* Messaging events: handlers called in turn that only log; the one event that
  would change state is never published.
* Webhooks: a platform queue has no URL.
* The settings of a queue and the counters of local subscriptions of a channel.
* In `Access`: names, metadata and expiry of a key, the permission inside a token;
  signatures are taken to be right, the deletion of a tenant's keys is left out.
* What nothing but tests calls (section 1).
