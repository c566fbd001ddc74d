------------------------------ MODULE Bootstrap ------------------------------
(***************************************************************************)
(* Start and shutdown of server instances: the steps of App.Start, the     *)
(* schema migrations under a lock in Redis, the dependency container that  *)
(* builds every service from the factories of the modules, the lifecycle   *)
(* services it starts on the way, and the cleanup handlers a signal runs.  *)
(*                                                                         *)
(* A service is the name of the type it is registered under.  The tables   *)
(* of the modules give what each factory asks the container for, in order. *)
(***************************************************************************)
EXTENDS Naturals, Sequences, FiniteSets, SequencesExt

CONSTANTS
  Instances,
  None,
  Versions,     \* migrations to apply
  FaultBound    \* bound on failures, crashes and timeouts, all instances

ASSUME BootstrapAssumption ==
  None \notin Instances /\ Versions \in Nat /\ FaultBound \in Nat

VARIABLES
  app,      \* of each instance: see Off
  lock,     \* lock:db:migrate:server in Redis
  applied,  \* migrations applied
  faults,
  broken    \* history: a migrator failed, died or outran the lock before its last migration

vars == <<app, lock, applied, faults, broken>>

-----------------------------------------------------------------------------
\* What the factories of the modules ask for.

Factory(type, needs) == [type |-> type, needs |-> needs]

Infrastructure ==
  {Factory("*goredis.Client", <<"redis.Service">>),
   Factory("*gonats.Conn", <<"nats.Service">>)}

InstanceModule ==
  {Factory("instance.Repository", <<"*gorm.DB">>),
   Factory("instance.Service", <<"*config.Config", "logger.Service", "id.ULID",
                                 "instance.Repository", "realtime.Service">>)}

APIKeyModule ==
  {Factory("apikey.Repository", <<"*gorm.DB">>),
   Factory("apikey.Service", <<"logger.Service", "apikey.Repository">>),
   Factory("apikey.ExtendedService", <<"apikey.Service">>)}

ProjectStatModule ==
  {Factory("realtime.Repository", <<"*goredis.Client">>),
   Factory("realtime.Service", <<"realtime.Repository">>)}

TenantModule ==
  {Factory("tenant.Repository", <<"*gorm.DB">>),
   Factory("tenant.Service", <<"logger.Service", "tenant.Repository">>)}

AuthModule ==
  {Factory("authToken.Repository", <<"*gorm.DB">>),
   Factory("authToken.Service", <<"*config.Config", "authToken.Repository",
                                  "apikey.Service", "*apikey.Parser">>),
   Factory("authAPIKey.Service", <<"logger.Service", "apikey.Service", "*apikey.Parser">>)}

\* The messaging module: events and telemetry,
MessagingTelemetry ==
  {Factory("messaging.ChannelConfig", <<>>),
   Factory("event.Service", <<"logger.Service">>),
   Factory("*EventBusLifecycle", <<"logger.Service", "event.Service">>),
   Factory("telemetry.Repository", <<"logger.Service">>),
   Factory("telemetry.Service", <<"logger.Service", "id.ULID", "telemetry.Repository">>),
   Factory("*snapshot.Service", <<"logger.Service", "id.ULID",
                                  "subscription.Repository", "channel.Repository",
                                  "connection.Repository", "telemetry.Repository",
                                  "realtime.Service">>)}

\* its snapshots, the broker, connections and clients,
MessagingConnections ==
  {Factory("*TelemetrySnapshotServiceLifecycle", <<"logger.Service", "*snapshot.Service">>),
   Factory("broker.Service", <<"logger.Service", "id.ULID", "*gonats.Conn">>),
   Factory("*BrokerServiceLifecycle", <<"logger.Service", "broker.Service">>),
   Factory("connection.Repository", <<"logger.Service">>),
   Factory("connection.Service", <<"logger.Service", "id.ULID", "connection.Repository">>),
   Factory("client.Repository", <<"logger.Service">>),
   Factory("client.Service", <<"logger.Service", "id.ULID", "client.Repository",
                               "connection.Service">>)}

\* channels and sessions; the manager is registered as a value and asked for
\* as a pointer, which nothing does while the server runs,
MessagingChannels ==
  {Factory("channel.Repository", <<"logger.Service">>),
   Factory("channel.Service", <<"logger.Service", "id.ULID", "channel.Repository",
                                "broker.Service", "event.Service">>),
   Factory("lifecycle.Manager", <<"logger.Service", "channel.Service", "event.Service",
                                  "messaging.ChannelConfig">>),
   Factory("*ChannelLifecycleManagerLifecycle", <<"logger.Service", "*lifecycle.Manager">>),
   Factory("subscription.Repository", <<"logger.Service", "id.ULID">>),
   Factory("*session.Service", <<"logger.Service", "id.ULID", "connection.Service",
                                 "telemetry.Service">>),
   Factory("delivery.Deliverer", <<"*session.Service">>)}

\* and the services that route messages.
MessagingRouting ==
  {Factory("backpressure.LimitsProvider", <<"logger.Service", "tenant.Service">>),
   Factory("backpressure.Gatekeeper", <<"logger.Service", "backpressure.LimitsProvider">>),
   Factory("messaging/router.Service", <<"logger.Service", "id.ULID", "broker.Service",
                                         "channel.Service", "subscription.Repository",
                                         "delivery.Deliverer", "telemetry.Service",
                                         "backpressure.Gatekeeper">>),
   Factory("subscription.Service", <<"logger.Service", "id.ULID",
                                     "subscription.Repository", "channel.Service",
                                     "messaging/router.Service", "delivery.Deliverer",
                                     "event.Service">>),
   Factory("publication.Service", <<"logger.Service", "client.Service",
                                    "messaging/router.Service">>)}

\* The queue module: repositories, queues, jobs and workers,
QueueJobs ==
  {Factory("queue.Repository", <<"*gorm.DB">>),
   Factory("job.Repository", <<"*gorm.DB">>),
   Factory("worker.Repository", <<"*gorm.DB">>),
   Factory("queue/telemetry.Repository", <<>>),
   Factory("queue/telemetry.Service", <<"queue/telemetry.Repository">>),
   Factory("queue.Service", <<"queue.Repository", "logger.Service">>),
   Factory("logBroadcast.Service", <<"logger.Service", "publication.Service">>),
   Factory("job.Service", <<"job.Repository", "logger.Service", "logBroadcast.Service",
                            "*lifecycle.Guard">>),
   Factory("worker.Service", <<"worker.Repository", "job.Repository", "logger.Service",
                               "logBroadcast.Service", "*lifecycle.Guard">>)}

\* the guard, the cleanup and the router,
QueueRouting ==
  {Factory("*lifecycle.Guard", <<"tenant.Repository", "queue.Repository">>),
   Factory("cleanup.Service", <<"*config.Config", "job.Repository", "queue.Repository",
                                "worker.Repository", "tenant.Repository",
                                "nats.Service", "logger.Service", "apikey.Service">>),
   Factory("*maintenance.Service", <<"cleanup.Service">>),
   Factory("queue/router.Service", <<"job.Repository", "queue.Repository",
                                     "nats.Service", "logger.Service",
                                     "queue/telemetry.Service", "telemetry.Service",
                                     "logBroadcast.Service", "id.ULID", "queue.Service",
                                     "worker.Service", "*lifecycle.Guard">>)}

\* and what runs in the background.
QueueRuntime ==
  {Factory("*platform.Registry", <<"cleanup.Service", "*maintenance.Service",
                                   "logger.Service">>),
   Factory("*webhook.Service", <<>>),
   Factory("runtime.Service", <<"queue/router.Service", "job.Repository",
                                "queue.Repository", "*webhook.Service",
                                "*platform.Registry", "logger.Service", "id.ULID">>),
   Factory("*schedule.Service", <<"redis.Service", "queue/router.Service",
                                  "*platform.Registry", "logger.Service", "id.ULID">>),
   Factory("*QueueRuntimeLifecycle", <<"runtime.Service", "*schedule.Service",
                                       "logger.Service">>)}

Factories ==
  UNION {Infrastructure, InstanceModule, APIKeyModule, ProjectStatModule, TenantModule,
         MessagingTelemetry, MessagingConnections, MessagingChannels, MessagingRouting,
         QueueJobs, QueueRouting, QueueRuntime, AuthModule}

\* What the last steps of the start ask for.
LifecycleServices ==
  <<"instance.Service", "*EventBusLifecycle", "*TelemetrySnapshotServiceLifecycle",
    "*QueueRuntimeLifecycle">>

Handlers ==
  <<"authToken.Service", "publication.Service", "connection.Service", "client.Service",
    "subscription.Service", "*session.Service", "logBroadcast.Service",
    "queue/router.Service", "queue.Service", "job.Service", "worker.Service",
    "tenant.Service", "apikey.Service", "cleanup.Service">>

Roots ==
  {Factory("lifecycle", LifecycleServices),
   Factory("handlers", Handlers),
   Factory("httpServers", <<"authToken.Service", "authAPIKey.Service", "apikey.Service">>),
   Factory("wsServer", <<"connection.Service">>)}

Types(table) == {f.type : f \in table}
NeedsOf(type) == (CHOOSE f \in Factories \cup Roots : f.type = type).needs
Needs == [type \in Types(Factories \cup Roots) |-> NeedsOf(type)]

-----------------------------------------------------------------------------
\* The steps of App.Start, in order.
\* Mutant: the container is set up before the database.
Start_LateDatabase ==
  <<"brand", "config", "logger", "timezone", "id", "instanceID", "redis", "apikeyParser",
    "token", "permission", "nats", "container", "database", "modules", "lifecycle",
    "handlers", "httpServers", "wsServer">>
Start ==
  <<"brand", "config", "logger", "timezone", "id", "instanceID", "redis", "apikeyParser",
    "token", "permission", "database", "nats", "container", "modules", "lifecycle",
    "handlers", "httpServers", "wsServer">>

\* What a step leaves for setupContainer to register.
Makes ==
  {<<"config", "*config.Config">>, <<"logger", "logger.Service">>,
   <<"instanceID", "id.ULID">>, <<"redis", "redis.Service">>,
   <<"apikeyParser", "*apikey.Parser">>, <<"database", "*gorm.DB">>,
   <<"nats", "nats.Service">>}

Made(step) == {m[2] : m \in {p \in Makes : p[1] = step}}

\* The services of the server that are container.Lifecycle.
Lifecycles == Range(LifecycleServices)

\* Factories, and Initialize methods, with an error of their own.
Breakable ==
  {"*goredis.Client", "*gonats.Conn", "cleanup.Service", "queue/router.Service",
   "instance.Service", "*QueueRuntimeLifecycle"}

\* An instance: pc, the step it is at, what its steps made, its container
\* (services, factories, the factories that are running with the place of the
\* dependency each is at, the lifecycle services), what it has running or open,
\* the handlers of its Cleanup, and the error of Container.Shutdown.
Off == [pc |-> "start", step |-> 1, values |-> {}, services |-> {}, factories |-> {},
        stack |-> <<>>, lifecycle |-> <<>>, up |-> {}, cleanup |-> <<>>, lastErr |-> FALSE]
Ended(pc) == [Off EXCEPT !.pc = pc]

Becomes(i, a) == app' = [app EXCEPT ![i] = a]
Starting(i) == app[i].pc = "start" /\ app[i].step <= Len(Start)
At(i, step) == Starting(i) /\ Start[app[i].step] = step
Serving(i) == app[i].pc = "start" /\ app[i].step > Len(Start)
Resolving(i) == Starting(i) /\ app[i].stack # <<>>
Done(a) == [a EXCEPT !.step = @ + 1, !.values = @ \cup Made(Start[a.step])]
Fault == faults < FaultBound /\ faults' = faults + 1
shared == <<lock, applied, broken>>

Init ==
  /\ app = [i \in Instances |-> Off]
  /\ lock = None /\ applied = 0 /\ faults = 0 /\ broken = FALSE

-----------------------------------------------------------------------------
\* The setups that only make a value; the logger's has a cleanup handler.
SetupValue(i) ==
  \E s \in {"brand", "config", "logger", "timezone", "id", "instanceID", "apikeyParser",
            "token", "permission"} :
    /\ At(i, s)
    /\ Becomes(i, [Done(app[i]) EXCEPT !.cleanup = IF s = "logger" THEN Append(@, s) ELSE @])
    /\ UNCHANGED <<shared, faults>>

\* setupRedis and setupNATS connect, and register the handler that closes.
Connect(i) ==
  \E s \in {"redis", "nats"} :
    /\ At(i, s)
    /\ Becomes(i, [Done(app[i]) EXCEPT !.up = @ \cup {s}, !.cleanup = Append(@, s)])
    /\ UNCHANGED <<shared, faults>>

SetupFails(i) ==
  /\ \E s \in {"config", "logger", "timezone", "instanceID", "redis", "database", "nats"} :
       At(i, s)
  /\ Fault
  /\ Becomes(i, Ended("dead"))
  /\ UNCHANGED shared

\* setupDatabase connects; then one instance at a time migrates the schema.
SetupDatabase(i) ==
  /\ At(i, "database") /\ "database" \notin app[i].up
  /\ Becomes(i, [app[i] EXCEPT !.up = @ \cup {"database"}, !.cleanup = Append(@, "database")])
  /\ UNCHANGED <<shared, faults>>

RunMigrations(i) ==
  /\ At(i, "database") /\ "database" \in app[i].up
  /\ \/ lock = None /\ lock' = i /\ Becomes(i, [app[i] EXCEPT !.pc = "migrating"])
     \/ lock # None /\ lock' = lock /\ Becomes(i, [app[i] EXCEPT !.pc = "waiting"])
  /\ UNCHANGED <<applied, broken, faults>>

\* Each migration not applied yet, in order; the lock is deleted at the end.
Migrate(i) ==
  /\ app[i].pc = "migrating"
  /\ IF applied < Versions
     THEN applied' = applied + 1 /\ UNCHANGED <<app, lock>>
     ELSE lock' = None /\ Becomes(i, [Done(app[i]) EXCEPT !.pc = "start"])
          /\ UNCHANGED applied
  /\ UNCHANGED <<broken, faults>>

MigrateFails(i) ==
  /\ app[i].pc = "migrating" /\ applied < Versions
  /\ Fault
  /\ lock' = None /\ broken' = TRUE
  /\ Becomes(i, Ended("dead"))
  /\ UNCHANGED applied

\* An instance without the lock polls for its end, for five minutes at most.
\* Mutant: a key that is gone is taken for an error, and the loop polls on.
WaitForMigrations_NilIsError(i) ==
  app[i].pc = "waiting" /\ lock = i /\ UNCHANGED vars
\* Mutant: whoever lacks the lock goes on at once.
WaitForMigrations_FirstPoll(i) ==
  /\ app[i].pc = "waiting"
  /\ Becomes(i, [Done(app[i]) EXCEPT !.pc = "start"])
  /\ UNCHANGED <<shared, faults>>
WaitForMigrations(i) ==
  /\ app[i].pc = "waiting" /\ lock = None
  /\ Becomes(i, [Done(app[i]) EXCEPT !.pc = "start"])
  /\ UNCHANGED <<shared, faults>>

WaitTimesOut(i) ==
  /\ app[i].pc = "waiting" /\ lock # None
  /\ Fault
  /\ Becomes(i, Ended("dead"))
  /\ UNCHANGED shared

\* The lock's time to live, of an instance that is gone,
LockExpires ==
  /\ \E i \in Instances : lock = i /\ app[i].pc # "migrating"
  /\ lock' = None
  /\ UNCHANGED <<app, applied, broken, faults>>

\* or of one that takes longer than that; it goes on without the lock, and
\* deletes the next one's in the end.
LockOutrun ==
  /\ \E i \in Instances : lock = i /\ app[i].pc = "migrating"
  /\ Fault
  /\ lock' = None /\ broken' = (broken \/ applied < Versions)
  /\ UNCHANGED <<app, applied>>

-----------------------------------------------------------------------------
SetupContainer(i) ==
  /\ At(i, "container")
  /\ Becomes(i, [Done(app[i]) EXCEPT !.services = app[i].values,
                                     !.cleanup = Append(@, "container")])
  /\ UNCHANGED <<shared, faults>>

RegisterServiceModules(i) ==
  /\ At(i, "modules")
  /\ Becomes(i, [Done(app[i]) EXCEPT !.factories = Types(Factories)])
  /\ UNCHANGED <<shared, faults>>

\* A step that asks the container for services.
Ask(i) ==
  /\ Starting(i) /\ Start[app[i].step] \in Types(Roots) /\ app[i].stack = <<>>
  /\ Becomes(i, [app[i] EXCEPT !.stack = <<[type |-> Start[app[i].step], next |-> 1]>>])
  /\ UNCHANGED <<shared, faults>>

Top(a) == Last(a.stack)
HasAll(a) == Top(a).next > Len(Needs[Top(a).type])
Got(a) == [a EXCEPT !.stack[Len(a.stack)].next = @ + 1]

\* An error ends the start, unless it is the stat service the instance service
\* can do without.
Forgiving(f) ==
  /\ f.type = "instance.Service" /\ f.next <= Len(Needs[f.type])
  /\ Needs[f.type][f.next] = "realtime.Service"
Raised(a, end) ==
  LET forgiving == {k \in DOMAIN a.stack : Forgiving(a.stack[k])}
  IN IF forgiving = {} THEN Ended(end)
     ELSE Got([a EXCEPT !.stack = SubSeq(@, 1, Max(forgiving))])

\* Container.Get for the next dependency of the factory that runs.
Get(i) ==
  LET a == app[i]
      type == Needs[Top(a).type][Top(a).next]
      initializing == {f.type : f \in Range(a.stack)}
  IN
  /\ Resolving(i) /\ ~HasAll(a)
  /\ Becomes(i, IF type \in a.services THEN Got(a)
                ELSE IF type \in a.factories \ initializing
                THEN [a EXCEPT !.stack = Append(@, [type |-> type, next |-> 1])]
                ELSE Raised(a, "miswired"))
  /\ UNCHANGED <<shared, faults>>

\* A factory has all it asked for: the service is made, started when it is a
\* lifecycle service, and kept.
Build(i) ==
  LET a == app[i]
      type == Top(a).type
      built == [a EXCEPT !.stack = Front(@), !.services = @ \cup {type}]
  IN
  /\ Resolving(i) /\ HasAll(a) /\ Len(a.stack) > 1
  /\ Becomes(i, Got(IF type \in Lifecycles
                    THEN [built EXCEPT !.up = @ \cup {type}, !.lifecycle = Append(@, type)]
                    ELSE built))
  /\ UNCHANGED <<shared, faults>>

BuildFails(i) ==
  /\ Resolving(i) /\ HasAll(app[i]) /\ Top(app[i]).type \in Breakable
  /\ Fault
  /\ Becomes(i, Raised([app[i] EXCEPT !.stack = Front(@)], "dead"))
  /\ UNCHANGED shared

\* The step has its services: setupHTTPServers and setupWebSocketServer serve.
Ready(i) ==
  LET s == Start[app[i].step]
      a == [Done(app[i]) EXCEPT !.stack = <<>>]
  IN
  /\ Resolving(i) /\ HasAll(app[i]) /\ Len(app[i].stack) = 1
  /\ Becomes(i, IF s = "httpServers" THEN [a EXCEPT !.up = @ \cup {s}]
                ELSE IF s = "wsServer"
                THEN [a EXCEPT !.up = @ \cup {s}, !.cleanup = Append(@, s)]
                ELSE a)
  /\ UNCHANGED <<shared, faults>>

-----------------------------------------------------------------------------
\* A signal: App.Shutdown runs the cleanup handlers, the last one first.
Signal(i) ==
  /\ Serving(i)
  /\ Becomes(i, [app[i] EXCEPT !.pc = "cleanup"])
  /\ UNCHANGED <<shared, faults>>

CleanupRun(i) ==
  LET h == Last(app[i].cleanup) IN
  /\ app[i].pc = "cleanup" /\ app[i].cleanup # <<>> /\ h # "container"
  /\ \/ /\ Becomes(i, [app[i] EXCEPT !.up = @ \ {h}, !.cleanup = Front(@)])
        /\ UNCHANGED faults
     \/ /\ h \in {"redis", "database"} /\ Fault      \* an error ends the run
        /\ Becomes(i, [app[i] EXCEPT !.cleanup = <<>>])
  /\ UNCHANGED shared

\* Container.Shutdown: the lifecycle services, the last one first; the row of
\* the instance may fail to be updated, which ends the run of the cleanup, but
\* after every service.
\* Mutant: the services are stopped in the order they were started.
StopService_FirstUp(i) ==
  LET a == app[i]
      stopped == [a EXCEPT !.up = @ \ {Head(a.lifecycle)}, !.lifecycle = Tail(@)]
  IN
  /\ a.pc = "cleanup" /\ a.cleanup # <<>> /\ Last(a.cleanup) = "container"
  /\ a.lifecycle # <<>>
  /\ \/ Becomes(i, stopped) /\ UNCHANGED faults
     \/ /\ Head(a.lifecycle) = "instance.Service" /\ Fault
        /\ Becomes(i, [stopped EXCEPT !.lastErr = TRUE])
  /\ UNCHANGED shared
StopService(i) ==
  LET a == app[i]
      stopped == [a EXCEPT !.up = @ \ {Last(a.lifecycle)}, !.lifecycle = Front(@)]
  IN
  /\ a.pc = "cleanup" /\ a.cleanup # <<>> /\ Last(a.cleanup) = "container"
  /\ a.lifecycle # <<>>
  /\ \/ Becomes(i, stopped) /\ UNCHANGED faults
     \/ /\ Last(a.lifecycle) = "instance.Service" /\ Fault
        /\ Becomes(i, [stopped EXCEPT !.lastErr = TRUE])
  /\ UNCHANGED shared

ContainerStopped(i) ==
  LET a == app[i] IN
  /\ a.pc = "cleanup" /\ a.cleanup # <<>> /\ Last(a.cleanup) = "container"
  /\ a.lifecycle = <<>>
  /\ Becomes(i, [a EXCEPT !.cleanup = IF a.lastErr THEN <<>> ELSE Front(@)])
  /\ UNCHANGED <<shared, faults>>

Exit(i) ==
  /\ app[i].pc = "cleanup" /\ app[i].cleanup = <<>>
  /\ Becomes(i, Ended("exited"))
  /\ UNCHANGED <<shared, faults>>

\* The process dies.
Crash(i) ==
  /\ app[i].pc \in {"start", "migrating", "waiting", "cleanup"}
  /\ Fault
  /\ broken' = (broken \/ (app[i].pc = "migrating" /\ applied < Versions))
  /\ Becomes(i, Ended("dead"))
  /\ UNCHANGED <<lock, applied>>

-----------------------------------------------------------------------------
StartStep(i) ==
  \/ SetupValue(i) \/ Connect(i) \/ SetupDatabase(i)
  \/ RunMigrations(i) \/ Migrate(i) \/ WaitForMigrations(i)
  \/ SetupContainer(i) \/ RegisterServiceModules(i)
  \/ Ask(i) \/ Get(i) \/ Build(i) \/ Ready(i)

Shutdown(i) == CleanupRun(i) \/ StopService(i) \/ ContainerStopped(i) \/ Exit(i)

Failure(i) ==
  SetupFails(i) \/ MigrateFails(i) \/ WaitTimesOut(i) \/ BuildFails(i) \/ Crash(i)

Next ==
  \/ \E i \in Instances : StartStep(i) \/ Signal(i) \/ Shutdown(i) \/ Failure(i)
  \/ LockExpires \/ LockOutrun

\* A start goes on unless it fails; Redis expires the lock.
Fairness == WF_vars(LockExpires) /\ \A i \in Instances : WF_vars(StartStep(i))

Spec == Init /\ [][Next]_vars /\ Fairness

-----------------------------------------------------------------------------
\* No start ends on a factory that is missing or that needs itself: the tables
\* of the modules, their registration and the order of App.Start fit together
\* (container.Get, registerServiceModules, setupHandlers).
NeverMiswired == \A i \in Instances : app[i].pc # "miswired"

\* An instance past its migrations has the whole schema, unless a migrator
\* failed, died or outran the lock (runMigrations, waitForMigrations).
SchemaFirst ==
  \A i \in Instances :
    app[i].pc = "start" /\ (\E k \in 1..(app[i].step - 1) : Start[k] = "database") =>
      applied = Versions \/ broken

\* What each running part needs, directly or not, of what can be stopped: no
\* chain of factories is longer than sixteen.
Near(S) == S \cup UNION {Range(Needs[type]) : type \in S \cap DOMAIN Needs}
Below(type) ==
  LET two(S) == Near(Near(S))
      four(S) == two(two(S))
  IN four(four(four(four({type}))))
StoppedBy ==
  {<<"event.Service", "*EventBusLifecycle">>,
   <<"*snapshot.Service", "*TelemetrySnapshotServiceLifecycle">>,
   <<"runtime.Service", "*QueueRuntimeLifecycle">>,
   <<"*schedule.Service", "*QueueRuntimeLifecycle">>,
   <<"redis.Service", "redis">>, <<"*gorm.DB", "database">>, <<"nats.Service", "nats">>}
Uses ==
  [x \in Lifecycles \cup {"wsServer"} |->
     {p[2] : p \in {q \in StoppedBy : q[1] \in Below(x)}} \ {x}]

ASSUME BelowAssumption == \A x \in DOMAIN Uses : Near(Below(x)) = Below(x)

\* Nothing is stopped or closed before what runs on it, but for the HTTP
\* servers, which nothing stops; and a shutdown stops every lifecycle service
\* and the WebSocket server, whatever fails on the way (Cleanup.Run,
\* Container.Shutdown).  This is the order of the calls: the Stop of the
\* snapshot and of the schedule service do not wait for a pass under way.
StopsInOrder ==
  \A i \in Instances :
    /\ \A x \in app[i].up \cap DOMAIN Uses : Uses[x] \subseteq app[i].up
    /\ app[i].pc = "cleanup" /\ app[i].cleanup = <<>> =>
         app[i].up \cap (Lifecycles \cup {"wsServer"}) = {}

\* No start hangs: it serves, or it has failed (waitForMigrations and the time
\* to live of the lock).
StartEnds ==
  \A i \in Instances :
    <>(Serving(i) \/ app[i].pc \in {"cleanup", "dead", "exited", "miswired"})
=============================================================================
