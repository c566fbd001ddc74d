--------------------------- MODULE BootstrapProofs ---------------------------
(***************************************************************************)
(* Start and shutdown, for any number of instances, migrations and         *)
(* failures.  Three arguments.                                             *)
(*                                                                         *)
(* The tables of the modules can be built in an order, Rank: what a        *)
(* factory asks for has a lower rank than what it makes.  So the factories *)
(* that are running at a time have falling ranks, none can meet itself,    *)
(* and what one asks for is a value App.Start has made before (rank 0) or  *)
(* has a factory: the container never misses.                              *)
(*                                                                         *)
(* While migrations are missing, the lock is with the instance that        *)
(* migrates, and every other instance waits or is not that far.            *)
(*                                                                         *)
(* The ranks also put what a lifecycle service stops above the lifecycle   *)
(* services before it.  So what a lifecycle service uses is open or has    *)
(* been started when it starts; and both stacks, the one of the lifecycle  *)
(* services and the one of the cleanup handlers, are prefixes of the order *)
(* of the start, taken down from the end.                                  *)
(***************************************************************************)
EXTENDS Bootstrap, SequenceTheorems, TLAPS

\* Registered, asked for by nothing, and it would miss its dependency.
NeverAsked == "*ChannelLifecycleManagerLifecycle"

\* A place of each type in an order of building; of the steps, the last one.
Rank(type) ==
  IF type \in {"*config.Config", "logger.Service", "id.ULID", "redis.Service",
               "*apikey.Parser", "*gorm.DB", "nats.Service"} THEN 0
  ELSE IF type \in {"*goredis.Client", "*gonats.Conn", "instance.Repository",
                    "apikey.Repository", "tenant.Repository", "authToken.Repository",
                    "messaging.ChannelConfig", "telemetry.Repository",
                    "connection.Repository", "client.Repository", "channel.Repository",
                    "subscription.Repository", "queue.Repository", "job.Repository",
                    "worker.Repository", "queue/telemetry.Repository",
                    "*webhook.Service"} THEN 1
  ELSE IF type \in {"apikey.Service", "realtime.Repository", "tenant.Service",
                    "telemetry.Service", "broker.Service", "connection.Service",
                    "queue/telemetry.Service", "queue.Service", "*lifecycle.Guard"} THEN 2
  ELSE IF type \in {"apikey.ExtendedService", "realtime.Service", "authToken.Service",
                    "authAPIKey.Service", "*BrokerServiceLifecycle", "client.Service",
                    "*session.Service", "backpressure.LimitsProvider", "cleanup.Service"} THEN 3
  ELSE IF type \in {"instance.Service", "delivery.Deliverer", "backpressure.Gatekeeper",
                    "*maintenance.Service"} THEN 4
  ELSE IF type \in {"event.Service", "*platform.Registry"} THEN 5
  ELSE IF type \in {"*EventBusLifecycle", "channel.Service"} THEN 6
  ELSE IF type \in {"*snapshot.Service", "lifecycle.Manager", "messaging/router.Service"} THEN 7
  ELSE IF type \in {"*TelemetrySnapshotServiceLifecycle", "subscription.Service",
                    "publication.Service"} THEN 8
  ELSE IF type \in {"logBroadcast.Service"} THEN 9
  ELSE IF type \in {"job.Service", "worker.Service"} THEN 10
  ELSE IF type \in {"queue/router.Service"} THEN 11
  ELSE IF type \in {"runtime.Service", "*schedule.Service"} THEN 12
  ELSE IF type \in {"*QueueRuntimeLifecycle"} THEN 13
  ELSE 100

\* What the setups make, and what can be asked for, of the container or by it.
Values == {m[2] : m \in Makes}
Asked == Types(Factories \cup Roots) \ {NeverAsked}

CleanupOrder == <<"logger", "redis", "database", "nats", "container", "wsServer">>
Hooks == {"logger", "redis", "database", "nats", "container", "wsServer"}
Opened == {"redis", "database", "nats"}

Frame == [type : Asked, next : Nat \ {0}]
Instance ==
  [pc : {"start", "migrating", "waiting", "cleanup", "dead", "exited"},
   step : 1..19,
   values : SUBSET Values,
   services : SUBSET (Values \cup Types(Factories)),
   factories : SUBSET Types(Factories),
   stack : Seq(Frame),
   lifecycle : Seq(Lifecycles),
   up : SUBSET (Lifecycles \cup Opened \cup {"httpServers", "wsServer"}),
   cleanup : Seq(Hooks),
   lastErr : BOOLEAN]

TypeOK ==
  /\ app \in [Instances -> Instance]
  /\ lock \in Instances \cup {None}
  /\ applied \in 0..Versions
  /\ faults \in Nat
  /\ broken \in BOOLEAN

\* The factories that run: each but the last is at what the next one makes.
Linked(stack) ==
  /\ \A k \in 1..Len(stack) : stack[k].next <= Len(Needs[stack[k].type]) + 1
  /\ \A k \in 1..(Len(stack) - 1) :
       /\ stack[k].next <= Len(Needs[stack[k].type])
       /\ Needs[stack[k].type][stack[k].next] = stack[k + 1].type
  /\ \A j, k \in 1..Len(stack) : j < k => Rank(stack[k].type) < Rank(stack[j].type)

\* What an instance has at each step of its start.
Stocked(a) ==
  /\ a.pc \in {"migrating", "waiting"} =>
       a.step = 11 /\ a.stack = <<>> /\ "database" \in a.up
  /\ a.step < 13 => a.services = {}
  /\ \A k \in 1..Len(Start) : k < a.step => Made(Start[k]) \subseteq a.values
  /\ a.step > 13 => Values \subseteq a.services
  /\ a.step > 14 => a.factories = Types(Factories)
  /\ a.stack # <<>> => a.step \in 15..18 /\ a.stack[1].type = Start[a.step]

\* How many lifecycle services, and cleanup handlers, a start has so far.
LifecyclesAt(a) ==
  IF a.step < 15 THEN 0
  ELSE IF a.step > 15 THEN 4
  ELSE IF a.stack = <<>> THEN 0
  ELSE a.stack[1].next - 1
CleanupsAt(a) ==
  IF a.step <= 3 THEN 0
  ELSE IF a.step <= 7 THEN 1
  ELSE IF a.step <= 11 /\ "database" \notin a.up THEN 2
  ELSE IF a.step <= 12 THEN 3
  ELSE IF a.step = 13 THEN 4
  ELSE IF a.step <= 18 THEN 5 ELSE 6

Prefix(s, t) == Len(s) <= Len(t) /\ \A k \in 1..Len(s) : s[k] = t[k]

\* The lifecycle services and the handlers, and what is up.
Stacked(a) ==
  /\ Prefix(a.lifecycle, LifecycleServices)
  /\ Prefix(a.cleanup, CleanupOrder)
  /\ \A k \in 1..4 : LifecycleServices[k] \in a.up <=> k <= Len(a.lifecycle)
  /\ Len(a.lifecycle) > 0 => Opened \subseteq a.up
  /\ "wsServer" \in a.up => Len(a.lifecycle) = 4
Rising(a) ==
  a.pc \in {"start", "migrating", "waiting"} =>
    /\ Len(a.lifecycle) = LifecyclesAt(a)
    /\ Len(a.cleanup) = CleanupsAt(a)
    /\ \A k \in 1..4 : LifecycleServices[k] \in a.services <=> k <= Len(a.lifecycle)
    /\ a.step > 7 => "redis" \in a.up
    /\ "database" \in a.up => a.step > 10
    /\ a.step > 11 => "database" \in a.up
    /\ a.step > 12 => "nats" \in a.up
    /\ "wsServer" \in a.up => a.step = 19
Falling(a) ==
  a.pc = "cleanup" =>
    /\ a.step = 19 /\ a.stack = <<>>
    /\ "wsServer" \in a.up => Len(a.cleanup) = 6
    /\ Len(a.cleanup) = 6 => Len(a.lifecycle) = 4
    /\ Len(a.cleanup) < 5 => Len(a.lifecycle) = 0

Sound(a) == Linked(a.stack) /\ Stocked(a) /\ Stacked(a) /\ Rising(a) /\ Falling(a)

\* While migrations are missing: the lock is with the one that migrates.
Past(a) == a.pc = "start" /\ a.step > 11
Migrating ==
  ~broken /\ applied < Versions =>
    \A i \in Instances :
      /\ lock = i <=> app[i].pc = "migrating"
      /\ app[i].pc = "waiting" => lock # None
      /\ ~Past(app[i])

Inv == TypeOK /\ (\A i \in Instances : Sound(app[i])) /\ Migrating

-----------------------------------------------------------------------------
\* The tables.

LEMMA LifecyclesAre ==
  Lifecycles = {"instance.Service", "*EventBusLifecycle",
                "*TelemetrySnapshotServiceLifecycle", "*QueueRuntimeLifecycle"}
BY DEF Lifecycles, Range, LifecycleServices

\* The rank of every type, layer by layer.
LEMMA Rank0 ==
  /\ Rank("*config.Config") = 0
  /\ Rank("logger.Service") = 0
  /\ Rank("id.ULID") = 0
  /\ Rank("redis.Service") = 0
  /\ Rank("*apikey.Parser") = 0
  /\ Rank("*gorm.DB") = 0
  /\ Rank("nats.Service") = 0
BY DEF Rank

LEMMA Rank1 ==
  /\ Rank("*goredis.Client") = 1
  /\ Rank("*gonats.Conn") = 1
  /\ Rank("instance.Repository") = 1
  /\ Rank("apikey.Repository") = 1
  /\ Rank("tenant.Repository") = 1
  /\ Rank("authToken.Repository") = 1
  /\ Rank("messaging.ChannelConfig") = 1
  /\ Rank("telemetry.Repository") = 1
  /\ Rank("connection.Repository") = 1
  /\ Rank("client.Repository") = 1
  /\ Rank("channel.Repository") = 1
  /\ Rank("subscription.Repository") = 1
  /\ Rank("queue.Repository") = 1
  /\ Rank("job.Repository") = 1
  /\ Rank("worker.Repository") = 1
  /\ Rank("queue/telemetry.Repository") = 1
  /\ Rank("*webhook.Service") = 1
BY DEF Rank

LEMMA Rank2 ==
  /\ Rank("apikey.Service") = 2
  /\ Rank("realtime.Repository") = 2
  /\ Rank("tenant.Service") = 2
  /\ Rank("telemetry.Service") = 2
  /\ Rank("broker.Service") = 2
  /\ Rank("connection.Service") = 2
  /\ Rank("queue/telemetry.Service") = 2
  /\ Rank("queue.Service") = 2
  /\ Rank("*lifecycle.Guard") = 2
BY DEF Rank

LEMMA Rank3 ==
  /\ Rank("apikey.ExtendedService") = 3
  /\ Rank("realtime.Service") = 3
  /\ Rank("authToken.Service") = 3
  /\ Rank("authAPIKey.Service") = 3
  /\ Rank("*BrokerServiceLifecycle") = 3
  /\ Rank("client.Service") = 3
  /\ Rank("*session.Service") = 3
  /\ Rank("backpressure.LimitsProvider") = 3
  /\ Rank("cleanup.Service") = 3
BY DEF Rank

LEMMA Rank4 ==
  /\ Rank("instance.Service") = 4
  /\ Rank("delivery.Deliverer") = 4
  /\ Rank("backpressure.Gatekeeper") = 4
  /\ Rank("*maintenance.Service") = 4
BY DEF Rank

LEMMA Rank5 ==
  /\ Rank("event.Service") = 5
  /\ Rank("*platform.Registry") = 5
BY DEF Rank

LEMMA Rank6 ==
  /\ Rank("*EventBusLifecycle") = 6
  /\ Rank("channel.Service") = 6
BY DEF Rank

LEMMA Rank7 ==
  /\ Rank("*snapshot.Service") = 7
  /\ Rank("lifecycle.Manager") = 7
  /\ Rank("messaging/router.Service") = 7
BY DEF Rank

LEMMA Rank8 ==
  /\ Rank("*TelemetrySnapshotServiceLifecycle") = 8
  /\ Rank("subscription.Service") = 8
  /\ Rank("publication.Service") = 8
BY DEF Rank

LEMMA Rank9 ==
  /\ Rank("logBroadcast.Service") = 9
BY DEF Rank

LEMMA Rank10 ==
  /\ Rank("job.Service") = 10
  /\ Rank("worker.Service") = 10
BY DEF Rank

LEMMA Rank11 ==
  /\ Rank("queue/router.Service") = 11
BY DEF Rank

LEMMA Rank12 ==
  /\ Rank("runtime.Service") = 12
  /\ Rank("*schedule.Service") = 12
BY DEF Rank

LEMMA Rank13 ==
  /\ Rank("*QueueRuntimeLifecycle") = 13
BY DEF Rank

\* A row whose factory asks only for lower ranks, and for no lifecycle service.
FitsTo(needs, rank) ==
  /\ Len(needs) \in Nat /\ DOMAIN needs = 1..Len(needs)
  /\ \A n \in 1..Len(needs) : Rank(needs[n]) < rank /\ needs[n] \notin Lifecycles
Fits(f) == f.type # NeverAsked => Rank(f.type) \in 1..13 /\ FitsTo(f.needs, Rank(f.type))

LEMMA InfrastructureFits == \A f \in Infrastructure : Fits(f)
BY LifecyclesAre, Rank0, Rank1
DEF Infrastructure, Fits, FitsTo, Factory, NeverAsked

LEMMA InstanceModuleFits == \A f \in InstanceModule : Fits(f)
BY LifecyclesAre, Rank0, Rank1, Rank3, Rank4
DEF InstanceModule, Fits, FitsTo, Factory, NeverAsked

LEMMA APIKeyModuleFits == \A f \in APIKeyModule : Fits(f)
BY LifecyclesAre, Rank0, Rank1, Rank2, Rank3
DEF APIKeyModule, Fits, FitsTo, Factory, NeverAsked

LEMMA ProjectStatModuleFits == \A f \in ProjectStatModule : Fits(f)
BY LifecyclesAre, Rank1, Rank2, Rank3
DEF ProjectStatModule, Fits, FitsTo, Factory, NeverAsked

LEMMA TenantModuleFits == \A f \in TenantModule : Fits(f)
BY LifecyclesAre, Rank0, Rank1, Rank2
DEF TenantModule, Fits, FitsTo, Factory, NeverAsked

LEMMA AuthModuleFits == \A f \in AuthModule : Fits(f)
BY LifecyclesAre, Rank0, Rank1, Rank2, Rank3
DEF AuthModule, Fits, FitsTo, Factory, NeverAsked

LEMMA MessagingTelemetryFits == \A f \in MessagingTelemetry : Fits(f)
BY LifecyclesAre, Rank0, Rank1, Rank2, Rank3, Rank5, Rank6, Rank7
DEF MessagingTelemetry, Fits, FitsTo, Factory, NeverAsked

LEMMA MessagingConnectionsFits == \A f \in MessagingConnections : Fits(f)
BY LifecyclesAre, Rank0, Rank1, Rank2, Rank3, Rank7, Rank8
DEF MessagingConnections, Fits, FitsTo, Factory, NeverAsked

LEMMA MessagingChannelsFits == \A f \in MessagingChannels : Fits(f)
BY LifecyclesAre, Rank0, Rank1, Rank2, Rank3, Rank4, Rank5, Rank6, Rank7
DEF MessagingChannels, Fits, FitsTo, Factory, NeverAsked

LEMMA MessagingRoutingFits == \A f \in MessagingRouting : Fits(f)
BY LifecyclesAre, Rank0, Rank1, Rank2, Rank3, Rank4, Rank5, Rank6, Rank7, Rank8, SMTT(90)
DEF MessagingRouting, Fits, FitsTo, Factory, NeverAsked

LEMMA QueueJobsFits == \A f \in QueueJobs : Fits(f)
BY LifecyclesAre, Rank0, Rank1, Rank2, Rank8, Rank9, Rank10
DEF QueueJobs, Fits, FitsTo, Factory, NeverAsked

LEMMA QueueRoutingFits == \A f \in QueueRouting : Fits(f)
BY LifecyclesAre, Rank0, Rank1, Rank2, Rank3, Rank4, Rank9, Rank10, Rank11, SMTT(90)
DEF QueueRouting, Fits, FitsTo, Factory, NeverAsked

LEMMA QueueRuntimeFits == \A f \in QueueRuntime : Fits(f)
BY LifecyclesAre, Rank0, Rank1, Rank3, Rank4, Rank5, Rank11, Rank12, Rank13
DEF QueueRuntime, Fits, FitsTo, Factory, NeverAsked

LEMMA InfrastructureTypes ==
  {"*goredis.Client", "*gonats.Conn"}
    \subseteq Types(Infrastructure)
BY DEF Infrastructure, Types, Factory

LEMMA InstanceModuleTypes ==
  {"instance.Repository", "instance.Service"}
    \subseteq Types(InstanceModule)
BY DEF InstanceModule, Types, Factory

LEMMA APIKeyModuleTypes ==
  {"apikey.Repository", "apikey.Service", "apikey.ExtendedService"}
    \subseteq Types(APIKeyModule)
BY DEF APIKeyModule, Types, Factory

LEMMA ProjectStatModuleTypes ==
  {"realtime.Repository", "realtime.Service"}
    \subseteq Types(ProjectStatModule)
BY DEF ProjectStatModule, Types, Factory

LEMMA TenantModuleTypes ==
  {"tenant.Repository", "tenant.Service"}
    \subseteq Types(TenantModule)
BY DEF TenantModule, Types, Factory

LEMMA AuthModuleTypes ==
  {"authToken.Repository", "authToken.Service", "authAPIKey.Service"}
    \subseteq Types(AuthModule)
BY DEF AuthModule, Types, Factory

LEMMA MessagingTelemetryTypes ==
  {"messaging.ChannelConfig", "event.Service", "*EventBusLifecycle",
   "telemetry.Repository", "telemetry.Service", "*snapshot.Service"}
    \subseteq Types(MessagingTelemetry)
BY DEF MessagingTelemetry, Types, Factory

LEMMA MessagingConnectionsTypes ==
  {"*TelemetrySnapshotServiceLifecycle", "broker.Service", "*BrokerServiceLifecycle",
   "connection.Repository", "connection.Service", "client.Repository", "client.Service"}
    \subseteq Types(MessagingConnections)
BY DEF MessagingConnections, Types, Factory

LEMMA MessagingChannelsTypes ==
  {"channel.Repository", "channel.Service", "lifecycle.Manager",
   "*ChannelLifecycleManagerLifecycle", "subscription.Repository", "*session.Service",
   "delivery.Deliverer"}
    \subseteq Types(MessagingChannels)
BY DEF MessagingChannels, Types, Factory

LEMMA MessagingRoutingTypes ==
  {"backpressure.LimitsProvider", "backpressure.Gatekeeper", "messaging/router.Service",
   "subscription.Service", "publication.Service"}
    \subseteq Types(MessagingRouting)
BY DEF MessagingRouting, Types, Factory

LEMMA QueueJobsTypes ==
  {"queue.Repository", "job.Repository", "worker.Repository",
   "queue/telemetry.Repository", "queue/telemetry.Service", "queue.Service",
   "logBroadcast.Service", "job.Service", "worker.Service"}
    \subseteq Types(QueueJobs)
BY DEF QueueJobs, Types, Factory

LEMMA QueueRoutingTypes ==
  {"*lifecycle.Guard", "cleanup.Service", "*maintenance.Service", "queue/router.Service"}
    \subseteq Types(QueueRouting)
BY DEF QueueRouting, Types, Factory

LEMMA QueueRuntimeTypes ==
  {"*platform.Registry", "*webhook.Service", "runtime.Service", "*schedule.Service",
   "*QueueRuntimeLifecycle"}
    \subseteq Types(QueueRuntime)
BY DEF QueueRuntime, Types, Factory

LEMMA FactoriesFit == \A f \in Factories : Fits(f)
BY InfrastructureFits, InstanceModuleFits, APIKeyModuleFits, ProjectStatModuleFits,
   TenantModuleFits, AuthModuleFits, MessagingTelemetryFits, MessagingConnectionsFits,
   MessagingChannelsFits, MessagingRoutingFits, QueueJobsFits, QueueRoutingFits,
   QueueRuntimeFits
DEF Factories

LEMMA RankRange == \A type : Rank(type) \in 0..13 \cup {100}
BY DEF Rank

LEMMA RankNat == \A type : Rank(type) \in Nat
BY RankRange

LEMMA ValuesAre ==
  Values = {"*config.Config", "logger.Service", "id.ULID", "redis.Service",
            "*apikey.Parser", "*gorm.DB", "nats.Service"}
BY DEF Values, Makes

LEMMA RankOfValues == \A type : Rank(type) = 0 <=> type \in Values
BY ValuesAre DEF Rank

\* A type with a rank in between has a factory.
LEMMA RankOfFactories == \A type : Rank(type) \in 1..13 => type \in Types(Factories)
<1> SUFFICES ASSUME NEW type, Rank(type) \in 1..13 PROVE type \in Types(Factories)
  OBVIOUS
<1>1. \A table \in {Infrastructure, InstanceModule, APIKeyModule, ProjectStatModule,
                    TenantModule, MessagingTelemetry, MessagingConnections,
                    MessagingChannels, MessagingRouting, QueueJobs, QueueRouting,
                    QueueRuntime, AuthModule} :
         type \in Types(table) => type \in Types(Factories)
  BY DEF Factories, Types
<1>2. Rank(type) \in 1..1 => type \in Types(Factories)
  BY <1>1, InfrastructureTypes, InstanceModuleTypes, APIKeyModuleTypes,
     TenantModuleTypes, AuthModuleTypes, MessagingTelemetryTypes,
     MessagingConnectionsTypes, MessagingChannelsTypes, QueueJobsTypes, QueueRuntimeTypes
     DEF Rank
<1>3. Rank(type) \in 2..3 => type \in Types(Factories)
  BY <1>1, APIKeyModuleTypes, ProjectStatModuleTypes, TenantModuleTypes,
     AuthModuleTypes, MessagingTelemetryTypes, MessagingConnectionsTypes,
     MessagingChannelsTypes, MessagingRoutingTypes, QueueJobsTypes, QueueRoutingTypes DEF
     Rank
<1>4. Rank(type) \in 4..13 => type \in Types(Factories)
  BY <1>1, InstanceModuleTypes, MessagingTelemetryTypes, MessagingConnectionsTypes,
     MessagingChannelsTypes, MessagingRoutingTypes, QueueJobsTypes, QueueRoutingTypes,
     QueueRuntimeTypes DEF Rank
<1> QED
  BY <1>2, <1>3, <1>4

LEMMA RootsFit ==
  \A f \in Roots :
    /\ Rank(f.type) = 100 /\ f.type # NeverAsked
    /\ Len(f.needs) \in Nat /\ DOMAIN f.needs = 1..Len(f.needs)
    /\ \A n \in 1..Len(f.needs) : Rank(f.needs[n]) < 100
    /\ f.type = "lifecycle" => f.needs = LifecycleServices
    /\ f.type # "lifecycle" => \A n \in 1..Len(f.needs) : f.needs[n] \notin Lifecycles
<1>1. \A t \in {"lifecycle", "handlers", "httpServers", "wsServer"} : Rank(t) = 100
  BY DEF Rank
<1>2. Len(LifecycleServices) \in Nat /\ DOMAIN LifecycleServices = 1..Len(LifecycleServices) /\
      \A n \in 1..Len(LifecycleServices) : Rank(LifecycleServices[n]) < 100
  BY Rank4, Rank6, Rank8, Rank13 DEF LifecycleServices
<1>3. FitsTo(Handlers, 100)
  BY LifecyclesAre, Rank1, Rank2, Rank3, Rank8, Rank9, Rank10, Rank11 DEF FitsTo, Handlers
<1>4. FitsTo(<<"authToken.Service", "authAPIKey.Service", "apikey.Service">>, 100)
  BY LifecyclesAre, Rank2, Rank3 DEF FitsTo
<1>5. FitsTo(<<"connection.Service">>, 100)
  BY LifecyclesAre, Rank2 DEF FitsTo
<1> TAKE f \in Roots
<1>6. \/ f.type = "lifecycle" /\ f.needs = LifecycleServices
      \/ f.type = "handlers" /\ f.needs = Handlers
      \/ /\ f.type = "httpServers"
         /\ f.needs = <<"authToken.Service", "authAPIKey.Service", "apikey.Service">>
      \/ f.type = "wsServer" /\ f.needs = <<"connection.Service">>
  BY DEF Roots, Factory
<1>7. Rank(f.type) = 100 /\ f.type # NeverAsked
  BY <1>1, <1>6 DEF NeverAsked
<1>8. CASE f.type = "lifecycle"
  BY <1>2, <1>6, <1>7, <1>8
<1>9. CASE f.type # "lifecycle"
  <2>1. FitsTo(f.needs, 100)
    BY <1>3, <1>4, <1>5, <1>6, <1>9
  <2> QED
    BY <1>7, <1>9, <2>1 DEF FitsTo
<1> QED
  BY <1>8, <1>9

LEMMA RootTypes == Types(Roots) = {"lifecycle", "handlers", "httpServers", "wsServer"}
BY DEF Types, Roots, Factory

\* The row the container finds for what can be asked for.
LEMMA RowOf ==
  ASSUME NEW type \in Asked
  PROVE  \E f \in Factories \cup Roots : f.type = type /\ f.needs = Needs[type]
<1> DEFINE f == CHOOSE g \in Factories \cup Roots : g.type = type
<1>1. type \in Types(Factories \cup Roots)
  BY DEF Asked
<1>2. f \in Factories \cup Roots /\ f.type = type
  BY <1>1 DEF Types
<1>3. Needs[type] = f.needs
  BY <1>1 DEF Needs, NeedsOf
<1> QED
  BY <1>2, <1>3

LEMMA AskedRank == \A type \in Asked : Rank(type) \in 1..13 \cup {100}
<1> TAKE type \in Asked
<1>1. PICK f \in Factories \cup Roots : f.type = type
  BY RowOf
<1>2. type # NeverAsked
  BY DEF Asked
<1> QED
  BY <1>1, <1>2, FactoriesFit, RootsFit DEF Fits

\* What is asked for has a lower rank, and is a value or can be asked for.
LEMMA NeedsFit ==
  ASSUME NEW type \in Asked
  PROVE  /\ Len(Needs[type]) \in Nat /\ DOMAIN Needs[type] = 1..Len(Needs[type])
         /\ \A n \in 1..Len(Needs[type]) :
              /\ Rank(Needs[type][n]) < Rank(type)
              /\ Needs[type][n] \in Values \cup (Types(Factories) \cap Asked)
         /\ type # "lifecycle" =>
              \A n \in 1..Len(Needs[type]) : Needs[type][n] \notin Lifecycles
<1>1. PICK f \in Factories \cup Roots : f.type = type /\ f.needs = Needs[type]
  BY RowOf
<1>2. type # NeverAsked
  BY DEF Asked
<1>3. /\ Len(Needs[type]) \in Nat /\ DOMAIN Needs[type] = 1..Len(Needs[type])
      /\ \A n \in 1..Len(Needs[type]) : Rank(Needs[type][n]) < Rank(type)
      /\ type # "lifecycle" =>
           \A n \in 1..Len(Needs[type]) : Needs[type][n] \notin Lifecycles
  <2>1. CASE f \in Factories
    BY <1>1, <1>2, <2>1, FactoriesFit DEF Fits, FitsTo
  <2>2. CASE f \in Roots
    BY <1>1, <2>2, RootsFit
  <2> QED
    BY <1>1, <2>1, <2>2
<1>4. ASSUME NEW n \in 1..Len(Needs[type])
      PROVE  Needs[type][n] \in Values \cup (Types(Factories) \cap Asked)
  <2> DEFINE d == Needs[type][n]
  <2>1. Rank(d) \in 0..13
    BY <1>3, <1>4, AskedRank, RankRange
  <2>2. CASE Rank(d) = 0
    BY <2>2, RankOfValues
  <2>3. CASE Rank(d) \in 1..13
    <3>1. d \in Types(Factories)
      BY <2>3, RankOfFactories
    <3>2. Rank(NeverAsked) = 100
      BY DEF NeverAsked, Rank
    <3>3. d \in Types(Factories \cup Roots)
      BY <3>1 DEF Types
    <3> QED
      BY <3>1, <3>2, <3>3, <2>3 DEF Asked
  <2> HIDE DEF d
  <2> QED
    BY <2>1, <2>2, <2>3 DEF d
<1> QED
  BY <1>3, <1>4

LEMMA LifecycleNeeds == Needs["lifecycle"] = LifecycleServices
<1>1. "lifecycle" \in Asked
  BY RootTypes DEF Asked, Types, NeverAsked
<1>2. PICK f \in Factories \cup Roots : f.type = "lifecycle" /\ f.needs = Needs["lifecycle"]
  BY <1>1, RowOf
<1>3. Rank("lifecycle") = 100
  BY DEF Rank
<1>4. f \in Roots
  BY <1>2, <1>3, FactoriesFit DEF Fits, NeverAsked
<1> QED
  BY <1>2, <1>4, RootsFit

LEMMA RootsAsked == Types(Roots) \subseteq Asked
BY RootTypes DEF Asked, Types, NeverAsked

-----------------------------------------------------------------------------
\* The orders: the steps of the start, the lifecycle services, the handlers.

LEMMA StartIs ==
  /\ Len(Start) = 18
  /\ Start[1] = "brand"
  /\ Start[2] = "config"
  /\ Start[3] = "logger"
  /\ Start[4] = "timezone"
  /\ Start[5] = "id"
  /\ Start[6] = "instanceID"
  /\ Start[7] = "redis"
  /\ Start[8] = "apikeyParser"
  /\ Start[9] = "token"
  /\ Start[10] = "permission"
  /\ Start[11] = "database"
  /\ Start[12] = "nats"
  /\ Start[13] = "container"
  /\ Start[14] = "modules"
  /\ Start[15] = "lifecycle"
  /\ Start[16] = "handlers"
  /\ Start[17] = "httpServers"
  /\ Start[18] = "wsServer"
BY DEF Start

LEMMA StepOf ==
  \A n \in 1..18 :
    /\ Start[n] = "logger" <=> n = 3
    /\ Start[n] = "redis" <=> n = 7
    /\ Start[n] = "database" <=> n = 11
    /\ Start[n] = "nats" <=> n = 12
    /\ Start[n] = "container" <=> n = 13
    /\ Start[n] = "modules" <=> n = 14
    /\ Start[n] = "lifecycle" <=> n = 15
    /\ Start[n] = "httpServers" <=> n = 17
    /\ Start[n] = "wsServer" <=> n = 18
    /\ Start[n] \in Types(Roots) <=> n \in 15..18
BY StartIs, RootTypes

LEMMA LifecycleServicesAre ==
  /\ Len(LifecycleServices) = 4
  /\ LifecycleServices[1] = "instance.Service"
  /\ LifecycleServices[2] = "*EventBusLifecycle"
  /\ LifecycleServices[3] = "*TelemetrySnapshotServiceLifecycle"
  /\ LifecycleServices[4] = "*QueueRuntimeLifecycle"
BY DEF LifecycleServices

LEMMA CleanupOrderIs ==
  /\ Len(CleanupOrder) = 6
  /\ CleanupOrder[1] = "logger"
  /\ CleanupOrder[2] = "redis"
  /\ CleanupOrder[3] = "database"
  /\ CleanupOrder[4] = "nats"
  /\ CleanupOrder[5] = "container"
  /\ CleanupOrder[6] = "wsServer"
BY DEF CleanupOrder

LEMMA MadeIs ==
  /\ \A step : Made(step) \subseteq Values
  /\ Made("config") = {"*config.Config"}
  /\ Made("logger") = {"logger.Service"}
  /\ Made("instanceID") = {"id.ULID"}
  /\ Made("redis") = {"redis.Service"}
  /\ Made("apikeyParser") = {"*apikey.Parser"}
  /\ Made("database") = {"*gorm.DB"}
  /\ Made("nats") = {"nats.Service"}
BY DEF Made, Makes, Values

\* Before the container is set up, its values have been made.
LEMMA ContainerValues ==
  ASSUME NEW values, \A k \in 1..Len(Start) : k < 13 => Made(Start[k]) \subseteq values
  PROVE  Values \subseteq values
<1>1. \A k \in 1..12 : Made(Start[k]) \subseteq values
  BY StartIs
<1>2. Made("config") \subseteq values /\ Made("logger") \subseteq values
  BY <1>1, StartIs
<1>3. Made("instanceID") \subseteq values /\ Made("redis") \subseteq values
  BY <1>1, StartIs
<1>4. Made("apikeyParser") \subseteq values /\ Made("database") \subseteq values
  BY <1>1, StartIs
<1>5. Made("nats") \subseteq values
  BY <1>1, StartIs
<1> QED
  BY <1>2, <1>3, <1>4, <1>5, MadeIs, ValuesAre

LEMMA PrefixAppend ==
  ASSUME NEW S, NEW s \in Seq(S), NEW t, Len(t) \in Nat, Prefix(s, t),
         Len(s) < Len(t), t[Len(s) + 1] \in S
  PROVE  LET r == Append(s, t[Len(s) + 1])
         IN r \in Seq(S) /\ Prefix(r, t) /\ Len(r) = Len(s) + 1
BY DEF Prefix

LEMMA FirstFrames ==
  ASSUME NEW S, NEW s \in Seq(S), NEW n \in 0..Len(s)
  PROVE  LET r == SubSeq(s, 1, n)
         IN r \in Seq(S) /\ Len(r) = n /\ \A k \in 1..n : r[k] = s[k]
<1>1. /\ SubSeq(s, 1, n) \in Seq(S)
      /\ Len(SubSeq(s, 1, n)) = IF 1 <= n THEN n - 1 + 1 ELSE 0
      /\ \A k \in 1..(n - 1 + 1) : SubSeq(s, 1, n)[k] = s[1 + k - 1]
  <2>1. \A k \in 1..n : k \in 1..Len(s)
    OBVIOUS
  <2> QED
    BY <2>1, SubSeqProperties
<1>2. \A k \in 1..n : k \in 1..(n - 1 + 1) /\ 1 + k - 1 = k
  OBVIOUS
<1> QED
  BY <1>1, <1>2

LEMMA FrontFacts ==
  ASSUME NEW S, NEW s \in Seq(S), s # <<>>
  PROVE  /\ Front(s) \in Seq(S) /\ Len(Front(s)) = Len(s) - 1
         /\ \A k \in 1..(Len(s) - 1) : Front(s)[k] = s[k]
BY FirstFrames, Len(s) - 1 \in 0..Len(s) DEF Front

LEMMA PrefixFront ==
  ASSUME NEW S, NEW s \in Seq(S), NEW t, Len(t) \in Nat, Prefix(s, t), s # <<>>
  PROVE  /\ Front(s) \in Seq(S) /\ Prefix(Front(s), t) /\ Len(Front(s)) = Len(s) - 1
         /\ Last(s) = t[Len(s)] /\ Len(s) \in 1..Len(t)
<1>1. Len(s) \in Nat \ {0}
  OBVIOUS
<1>2. Last(s) = t[Len(s)] /\ Len(s) \in 1..Len(t)
  BY <1>1 DEF Prefix, Last
<1>3. /\ Front(s) \in Seq(S) /\ Len(Front(s)) = Len(s) - 1
      /\ \A k \in 1..(Len(s) - 1) : Front(s)[k] = s[k]
  BY <1>1, FrontFacts
<1>4. Prefix(Front(s), t)
  BY <1>1, <1>3 DEF Prefix
<1> QED
  BY <1>2, <1>3, <1>4

LEMMA PrefixEmpty == ASSUME NEW t, Len(t) \in Nat PROVE Prefix(<<>>, t)
BY DEF Prefix

-----------------------------------------------------------------------------
\* The factories that run.

LEMMA GotFacts ==
  ASSUME NEW a \in Instance, a.stack # <<>>
  PROVE  LET b == Got(a)
             n == Len(a.stack)
         IN /\ b \in Instance
            /\ b = [a EXCEPT !.stack = b.stack]
            /\ Len(b.stack) = n
            /\ \A k \in 1..(n - 1) : b.stack[k] = a.stack[k]
            /\ b.stack[n].type = a.stack[n].type
            /\ b.stack[n].next = a.stack[n].next + 1
<1> DEFINE n == Len(a.stack)
           s == [a.stack EXCEPT ![n].next = @ + 1]
<1>1. a.stack \in Seq(Frame) /\ n \in 1..Len(a.stack) /\ n \in Nat
  BY DEF Instance
<1>2. a.stack[n] \in Frame
  BY <1>1
<1>3. [a.stack[n] EXCEPT !.next = @ + 1] \in Frame
  BY <1>2 DEF Frame
<1>4. s \in Seq(Frame) /\ Len(s) = n /\ \A k \in 1..(n - 1) : s[k] = a.stack[k]
  BY <1>1, <1>3
<1>5. s[n] = [a.stack[n] EXCEPT !.next = @ + 1]
  BY <1>1
<1>6. s[n].type = a.stack[n].type /\ s[n].next = a.stack[n].next + 1
  BY <1>2, <1>5 DEF Frame
<1>7. Got(a) = [a EXCEPT !.stack = s]
  BY DEF Got, Instance
<1> HIDE DEF s
<1>8. Got(a).stack = s /\ Got(a) \in Instance
  BY <1>4, <1>7 DEF Instance
<1> QED
  BY <1>4, <1>6, <1>7, <1>8

LEMMA TopFacts ==
  ASSUME NEW s \in Seq(Frame), s # <<>>
  PROVE  /\ Len(s) \in Nat \ {0} /\ Last(s) = s[Len(s)]
         /\ \A k \in 1..Len(s) :
              /\ s[k] \in Frame /\ s[k].type \in Asked /\ s[k].next \in Nat \ {0}
              /\ Len(Needs[s[k].type]) \in Nat
<1>1. Len(s) \in Nat \ {0} /\ \A k \in 1..Len(s) : s[k] \in Frame
  OBVIOUS
<1> QED
  BY <1>1, NeedsFit DEF Last, Frame

\* The dependency that comes next is of a lower rank than every factory that
\* runs, so of none of them.
LEMMA NextNeed ==
  ASSUME NEW s \in Seq(Frame), s # <<>>, Linked(s), Last(s).next <= Len(Needs[Last(s).type])
  PROVE  LET d == Needs[Last(s).type][Last(s).next]
         IN /\ d \in Values \cup (Types(Factories) \cap Asked)
            /\ \A k \in 1..Len(s) : Rank(d) < Rank(s[k].type)
            /\ Last(s).type # "lifecycle" => d \notin Lifecycles
<1> DEFINE t == Last(s)
           d == Needs[t.type][t.next]
<1>1. t = s[Len(s)] /\ Len(s) \in Nat \ {0} /\ t.type \in Asked /\ t.next \in Nat \ {0}
  BY TopFacts
<1>2. t.next \in 1..Len(Needs[t.type])
  BY <1>1, NeedsFit
<1>3. /\ Rank(d) < Rank(t.type) /\ d \in Values \cup (Types(Factories) \cap Asked)
      /\ t.type # "lifecycle" => d \notin Lifecycles
  BY <1>1, <1>2, NeedsFit
<1>4. ASSUME NEW k \in 1..Len(s) PROVE Rank(d) < Rank(s[k].type)
  <2> DEFINE rd == Rank(d)
             rt == Rank(t.type)
             rk == Rank(s[k].type)
  <2>1. rd < rt /\ rd \in Nat /\ rt \in Nat /\ rk \in Nat
    BY <1>3, RankNat
  <2>2. k = Len(s) => rk = rt
    BY <1>1
  <2>3. k # Len(s) => rt < rk
    BY <1>1, <1>4 DEF Linked
  <2> HIDE DEF rd, rt, rk
  <2>4. rd < rk
    BY <2>1, <2>2, <2>3
  <2> QED
    BY <2>4 DEF rd, rk
<1> QED
  BY <1>3, <1>4

LEMMA LinkedGot ==
  ASSUME NEW s \in Seq(Frame), s # <<>>, Linked(s),
         Last(s).next <= Len(Needs[Last(s).type]),
         NEW r \in Seq(Frame), Len(r) = Len(s),
         \A k \in 1..(Len(s) - 1) : r[k] = s[k],
         r[Len(s)].type = s[Len(s)].type,
         r[Len(s)].next = s[Len(s)].next + 1
  PROVE  Linked(r)
<1>1. /\ Len(s) \in Nat \ {0} /\ Last(s) = s[Len(s)]
      /\ \A k \in 1..Len(s) : s[k].next \in Nat /\ Len(Needs[s[k].type]) \in Nat
  BY TopFacts
<1>2. \A k \in 1..Len(s) : r[k].type = s[k].type
  BY <1>1
<1>3. \A k \in 1..Len(r) : r[k].next <= Len(Needs[r[k].type]) + 1
  <2>1. TAKE k \in 1..Len(r)
  <2>2. CASE k = Len(s)
    BY <1>1, <1>2, <2>2
  <2>3. CASE k # Len(s)
    <3>1. k \in 1..Len(s) /\ r[k] = s[k]
      BY <1>1, <2>3
    <3> QED
      BY <3>1 DEF Linked
  <2> QED
    BY <2>2, <2>3
<1>4. \A k \in 1..(Len(r) - 1) :
        /\ r[k].next <= Len(Needs[r[k].type])
        /\ Needs[r[k].type][r[k].next] = r[k + 1].type
  <2>1. TAKE k \in 1..(Len(r) - 1)
  <2>2. r[k] = s[k] /\ r[k + 1].type = s[k + 1].type
    BY <1>1, <1>2
  <2> QED
    BY <2>2 DEF Linked
<1>5. \A j, k \in 1..Len(r) : j < k => Rank(r[k].type) < Rank(r[j].type)
  BY <1>1, <1>2 DEF Linked
<1> QED
  BY <1>3, <1>4, <1>5 DEF Linked

LEMMA LinkedPush ==
  ASSUME NEW s \in Seq(Frame), s # <<>>, Linked(s),
         Last(s).next <= Len(Needs[Last(s).type]),
         NEW d \in Asked, d = Needs[Last(s).type][Last(s).next]
  PROVE  LET r == Append(s, [type |-> d, next |-> 1])
         IN r \in Seq(Frame) /\ Linked(r) /\ Len(r) = Len(s) + 1 /\ r[1] = s[1]
<1> DEFINE r == Append(s, [type |-> d, next |-> 1])
<1>1. /\ Len(s) \in Nat \ {0} /\ Last(s) = s[Len(s)]
      /\ \A k \in 1..Len(s) : s[k].next \in Nat /\ Len(Needs[s[k].type]) \in Nat
  BY TopFacts
<1>2. [type |-> d, next |-> 1] \in Frame
  BY DEF Frame
<1>3. /\ r \in Seq(Frame) /\ Len(r) = Len(s) + 1
      /\ r[Len(s) + 1] = [type |-> d, next |-> 1]
      /\ \A k \in 1..Len(s) : r[k] = s[k]
  BY <1>1, <1>2
<1> HIDE DEF r
<1>4. Len(Needs[d]) \in Nat
  BY NeedsFit
<1>5. \A k \in 1..Len(s) : Rank(d) < Rank(s[k].type)
  BY NextNeed
<1>6. \A k \in 1..Len(r) : r[k].next <= Len(Needs[r[k].type]) + 1
  <2>1. TAKE k \in 1..Len(r)
  <2>2. CASE k = Len(s) + 1
    BY <1>3, <1>4, <2>2
  <2>3. CASE k # Len(s) + 1
    BY <1>1, <1>3, <2>3 DEF Linked
  <2> QED
    BY <2>2, <2>3
<1>7. \A k \in 1..(Len(r) - 1) :
        /\ r[k].next <= Len(Needs[r[k].type])
        /\ Needs[r[k].type][r[k].next] = r[k + 1].type
  <2>1. TAKE k \in 1..(Len(r) - 1)
  <2>2. CASE k = Len(s)
    <3>1. r[k] = Last(s) /\ r[k + 1].type = d
      BY <1>1, <1>3, <2>2
    <3> QED
      BY <3>1
  <2>3. CASE k # Len(s)
    <3>1. k \in 1..(Len(s) - 1) /\ r[k] = s[k] /\ r[k + 1] = s[k + 1]
      BY <1>1, <1>3, <2>3
    <3> QED
      BY <3>1 DEF Linked
  <2> QED
    BY <2>2, <2>3
<1>8. \A j, k \in 1..Len(r) : j < k => Rank(r[k].type) < Rank(r[j].type)
  <2>1. TAKE j, k \in 1..Len(r)
  <2>2. CASE k = Len(s) + 1 /\ j < k
    <3>1. r[k].type = d /\ j \in 1..Len(s) /\ r[j] = s[j]
      BY <1>1, <1>3, <2>2
    <3> QED
      BY <1>5, <3>1
  <2>3. CASE k # Len(s) + 1 /\ j < k
    <3>1. j \in 1..Len(s) /\ k \in 1..Len(s) /\ r[j] = s[j] /\ r[k] = s[k]
      BY <1>1, <1>3, <2>3
    <3> QED
      BY <2>3, <3>1 DEF Linked
  <2> QED
    BY <2>2, <2>3
<1>9. r[1] = s[1]
  BY <1>1, <1>3
<1> QED
  BY <1>3, <1>6, <1>7, <1>8, <1>9 DEF Linked, r

LEMMA LinkedCut ==
  ASSUME NEW s \in Seq(Frame), Linked(s), NEW n \in 0..Len(s)
  PROVE  LET r == SubSeq(s, 1, n)
         IN /\ r \in Seq(Frame) /\ Linked(r) /\ Len(r) = n
            /\ \A k \in 1..n : r[k] = s[k]
<1> DEFINE r == SubSeq(s, 1, n)
<1>1. r \in Seq(Frame) /\ Len(r) = n /\ \A k \in 1..n : r[k] = s[k]
  BY FirstFrames
<1> HIDE DEF r
<1>2. \A k \in 1..Len(r) : k \in 1..Len(s) /\ r[k] = s[k]
  BY <1>1
<1>3. \A k \in 1..(Len(r) - 1) :
        k \in 1..(Len(s) - 1) /\ r[k] = s[k] /\ r[k + 1] = s[k + 1]
  BY <1>1
<1>4. \A k \in 1..Len(r) : r[k].next <= Len(Needs[r[k].type]) + 1
  BY <1>2 DEF Linked
<1>5. \A k \in 1..(Len(r) - 1) :
        /\ r[k].next <= Len(Needs[r[k].type])
        /\ Needs[r[k].type][r[k].next] = r[k + 1].type
  BY <1>3 DEF Linked
<1>6. \A j, k \in 1..Len(r) : j < k => Rank(r[k].type) < Rank(r[j].type)
  BY <1>2 DEF Linked
<1>7. Linked(r)
  BY <1>4, <1>5, <1>6 DEF Linked
<1> QED
  BY <1>1, <1>7 DEF r

-----------------------------------------------------------------------------
\* What each action leaves of an instance.

LEMMA LinkedEmpty == <<>> \in Seq(Frame) /\ Linked(<<>>)
BY DEF Linked

LEMMA LifecyclesBySlot ==
  /\ Lifecycles = {LifecycleServices[k] : k \in 1..4}
  /\ \A k \in 1..4 : LifecycleServices[k] \notin Values \cup Opened \cup {"wsServer", "httpServers"}
  /\ \A j, k \in 1..4 : LifecycleServices[j] = LifecycleServices[k] => j = k
BY LifecyclesAre, LifecycleServicesAre, ValuesAre DEF Opened

LEMMA OffSound == Off \in Instance /\ Sound(Off)
<1> DEFINE a == Off
<1>1. /\ a.pc = "start" /\ a.step = 1 /\ a.values = {} /\ a.services = {}
      /\ a.factories = {} /\ a.stack = <<>> /\ a.lifecycle = <<>> /\ a.up = {}
      /\ a.cleanup = <<>> /\ a.lastErr = FALSE
  BY DEF Off
<1>2. a \in Instance
  <2>1. /\ <<>> \in Seq(Frame) /\ <<>> \in Seq(Lifecycles)
        /\ <<>> \in Seq(Hooks)
    OBVIOUS
  <2> QED
    BY <2>1 DEF Off, Instance
<1> HIDE DEF a
<1>3. Linked(a.stack) /\ Stocked(a)
  BY <1>1, LinkedEmpty DEF Stocked
<1>4. Stacked(a)
  <2>1. Prefix(a.lifecycle, LifecycleServices) /\ Prefix(a.cleanup, CleanupOrder)
    BY <1>1, PrefixEmpty, LifecycleServicesAre, CleanupOrderIs
  <2> QED
    BY <1>1, <2>1 DEF Stacked
<1>5. Rising(a)
  BY <1>1 DEF Rising, LifecyclesAt, CleanupsAt
<1>6. Falling(a)
  BY <1>1 DEF Falling
<1> QED
  BY <1>2, <1>3, <1>4, <1>5, <1>6 DEF Sound, a

LEMMA EndedSound ==
  \A pc \in {"dead", "exited"} : Ended(pc) \in Instance /\ Sound(Ended(pc))
<1> TAKE pc \in {"dead", "exited"}
<1> DEFINE a == Ended(pc)
<1>1. /\ a.pc = pc /\ a.step = 1 /\ a.values = {} /\ a.services = {} /\ a.factories = {}
      /\ a.stack = <<>> /\ a.lifecycle = <<>> /\ a.up = {} /\ a.cleanup = <<>>
      /\ a.lastErr = FALSE
  BY DEF Ended, Off
<1>2. a \in Instance
  BY OffSound DEF Ended, Instance
<1> HIDE DEF a
<1>3. Linked(a.stack) /\ Stocked(a)
  BY <1>1, LinkedEmpty DEF Stocked
<1>4. Stacked(a)
  <2>1. Prefix(a.lifecycle, LifecycleServices) /\ Prefix(a.cleanup, CleanupOrder)
    BY <1>1, PrefixEmpty, LifecycleServicesAre, CleanupOrderIs
  <2> QED
    BY <1>1, <2>1 DEF Stacked
<1>5. Rising(a) /\ Falling(a)
  BY <1>1 DEF Rising, Falling
<1> QED
  BY <1>2, <1>3, <1>4, <1>5 DEF Sound, a

\* A step before the lifecycle services is done.
LEMMA AdvanceSound ==
  ASSUME NEW a \in Instance, Sound(a), a.pc \in {"start", "migrating", "waiting"},
         a.step \in 1..14,
         NEW b \in Instance, b.pc = "start", b.step = a.step + 1, b.stack = <<>>,
         b.values = a.values \cup Made(Start[a.step]),
         b.services = IF a.step = 13 THEN a.values ELSE a.services,
         b.factories = IF a.step = 14 THEN Types(Factories) ELSE a.factories,
         b.lifecycle = a.lifecycle,
         a.up \subseteq b.up, b.up \subseteq a.up \cup {"redis", "nats"},
         a.step = 7 => "redis" \in b.up,
         a.step = 11 => "database" \in b.up,
         a.step = 12 => "nats" \in b.up,
         Prefix(b.cleanup, CleanupOrder),
         Len(b.cleanup) = CleanupsAt(b)
  PROVE  Sound(b)
<1>1. a.values \subseteq Values /\ b.step \in 2..15 /\ a.step \in Nat
  <2>1. a.values \subseteq Values
    BY DEF Instance
  <2>2. b.step \in 2..15 /\ a.step \in Nat
    OBVIOUS
  <2> QED
    BY <2>1, <2>2
<1>2. /\ Len(a.lifecycle) = 0
      /\ \A k \in 1..4 : LifecycleServices[k] \notin a.up /\ LifecycleServices[k] \notin a.services
  <2>1. Len(a.lifecycle) = 0
    BY DEF Sound, Rising, LifecyclesAt
  <2> QED
    BY <2>1 DEF Sound, Rising, Stacked
<1>3. Linked(b.stack)
  BY LinkedEmpty
<1>4. Stocked(b)
  <2>1. \A k \in 1..Len(Start) : k < b.step => Made(Start[k]) \subseteq b.values
    <3> TAKE k \in 1..Len(Start)
    <3>1. CASE k = a.step
      BY <3>1
    <3>2. CASE k # a.step
      <4>1. k < b.step => k < a.step
        BY <1>1, <3>2, StartIs
      <4> QED
        BY <4>1 DEF Sound, Stocked
    <3> QED
      BY <3>1, <3>2
  <2>2. b.step > 13 => Values \subseteq b.services
    <3>1. CASE a.step = 13
      <4>1. \A k \in 1..Len(Start) : k < 13 => Made(Start[k]) \subseteq a.values
        BY <3>1 DEF Sound, Stocked
      <4> QED
        BY <3>1, <4>1, ContainerValues
    <3>2. CASE a.step = 14
      BY <3>2 DEF Sound, Stocked
    <3> QED
      BY <3>1, <3>2, <1>1
  <2>3. b.step < 13 => b.services = {}
    BY <1>1 DEF Sound, Stocked
  <2>4. b.step > 14 => b.factories = Types(Factories)
    BY <1>1
  <2> QED
    BY <2>1, <2>2, <2>3, <2>4 DEF Stocked
<1>5. \A k \in 1..4 : LifecycleServices[k] \notin b.up /\ LifecycleServices[k] \notin b.services
  BY <1>1, <1>2, LifecyclesBySlot DEF Opened
<1>6. "wsServer" \notin b.up
  <2>1. "wsServer" \notin a.up
    <3>1. a.step # 19
      OBVIOUS
    <3> QED
      BY <3>1 DEF Sound, Rising
  <2> QED
    BY <2>1
<1>7. Stacked(b)
  BY <1>2, <1>5, <1>6 DEF Sound, Stacked
<1>8. Rising(b)
  <2>1. Len(b.lifecycle) = LifecyclesAt(b)
    BY <1>1, <1>2 DEF LifecyclesAt
  <2>2. /\ b.step > 7 => "redis" \in b.up
        /\ b.step > 11 => "database" \in b.up
        /\ b.step > 12 => "nats" \in b.up
    <3>1. /\ a.step > 7 => "redis" \in a.up
          /\ a.step > 11 => "database" \in a.up
          /\ a.step > 12 => "nats" \in a.up
      BY DEF Sound, Rising
    <3>2. /\ b.step > 7 => a.step = 7 \/ a.step > 7
          /\ b.step > 11 => a.step = 11 \/ a.step > 11
          /\ b.step > 12 => a.step = 12 \/ a.step > 12
      BY <1>1
    <3> QED
      BY <3>1, <3>2
  <2>3. "database" \in b.up => b.step > 10
    <3>1. "database" \in b.up => "database" \in a.up
      OBVIOUS
    <3>2. "database" \in a.up => a.step > 10
      BY DEF Sound, Rising
    <3> QED
      BY <3>1, <3>2, <1>1
  <2> QED
    BY <1>2, <1>5, <1>6, <2>1, <2>2, <2>3 DEF Rising
<1>9. Falling(b)
  BY DEF Falling
<1> QED
  BY <1>3, <1>4, <1>7, <1>8, <1>9 DEF Sound

\* Each action of a start that ends a step before the lifecycle services.
LEMMA AtFacts ==
  ASSUME NEW a \in Instance, a.pc = "start", a.step <= Len(Start)
  PROVE  /\ a.step \in 1..18 /\ a.step + 1 \in 1..19
         /\ Done(a) = [a EXCEPT !.step = a.step + 1,
                                !.values = a.values \cup Made(Start[a.step])]
         /\ a.values \cup Made(Start[a.step]) \subseteq Values
<1>1. a.step \in 1..18 /\ a.values \subseteq Values
  BY StartIs DEF Instance
<1>2. a.step + 1 \in 1..19
  BY <1>1
<1> QED
  BY <1>1, <1>2, MadeIs DEF Done, Instance

LEMMA HookAppended ==
  ASSUME NEW a \in Instance, Sound(a), Len(a.cleanup) < 6,
         NEW h, h = CleanupOrder[Len(a.cleanup) + 1]
  PROVE  LET c == Append(a.cleanup, h)
         IN c \in Seq(Hooks) /\ Prefix(c, CleanupOrder) /\ Len(c) = Len(a.cleanup) + 1
<1>1. a.cleanup \in Seq(Hooks) /\ Prefix(a.cleanup, CleanupOrder)
  BY DEF Instance, Sound, Stacked
<1>2. CleanupOrder[Len(a.cleanup) + 1] \in Hooks
  <2>1. \A n \in 1..6 : CleanupOrder[n] \in Hooks
    BY CleanupOrderIs DEF Hooks
  <2>2. Len(a.cleanup) + 1 \in 1..6
    BY <1>1
  <2> QED
    BY <2>1, <2>2
<1>3. Len(CleanupOrder) \in Nat /\ Len(a.cleanup) < Len(CleanupOrder)
  BY CleanupOrderIs
<1> DEFINE r == Append(a.cleanup, CleanupOrder[Len(a.cleanup) + 1])
<1>4. r \in Seq(Hooks) /\ Prefix(r, CleanupOrder) /\ Len(r) = Len(a.cleanup) + 1
  BY <1>1, <1>2, <1>3, PrefixAppend
<1> QED
  BY <1>4

LEMMA ValueSound ==
  ASSUME NEW a \in Instance, Sound(a), a.pc = "start", a.step <= Len(Start),
         Start[a.step] \in {"brand", "config", "logger", "timezone", "id", "instanceID",
                            "apikeyParser", "token", "permission"}
  PROVE  LET b == [Done(a) EXCEPT !.cleanup =
                     IF Start[a.step] = "logger" THEN Append(@, Start[a.step]) ELSE @]
         IN b \in Instance /\ Sound(b)
<1> DEFINE s == Start[a.step]
           c == IF s = "logger" THEN Append(a.cleanup, s) ELSE a.cleanup
           b == [Done(a) EXCEPT !.cleanup = IF s = "logger" THEN Append(@, s) ELSE @]
<1>1. a.step \in 1..10 /\ a.step # 7 /\ (s = "logger" <=> a.step = 3)
  <2>1. a.step \in 1..18
    BY AtFacts
  <2>2. s \notin {"redis", "database", "nats", "container", "modules", "lifecycle",
                  "httpServers", "wsServer"} /\ s # "handlers"
    OBVIOUS
  <2>3. a.step \notin {7, 11, 12, 13, 14, 15, 16, 17, 18}
    BY <2>2, StartIs
  <2>4. a.step \in 1..10 /\ a.step # 7
    BY <2>1, <2>3
  <2>5. s = "logger" <=> a.step = 3
    BY <2>1, StepOf
  <2> QED
    BY <2>4, <2>5
<1>2. a.stack = <<>>
  BY <1>1 DEF Sound, Stocked
<1>3. "database" \notin a.up
  BY <1>1 DEF Sound, Rising
<1>4. Prefix(a.cleanup, CleanupOrder) /\ Len(a.cleanup) = CleanupsAt(a)
  BY DEF Sound, Stacked, Rising
<1>5. /\ c \in Seq(Hooks)
      /\ Prefix(c, CleanupOrder)
      /\ Len(c) = IF a.step < 3 THEN 0 ELSE IF a.step < 7 THEN 1 ELSE 2
  <2>1. a.cleanup \in Seq(Hooks)
    BY DEF Instance
  <2>2. CASE a.step = 3
    <3>1. Len(a.cleanup) = 0
      BY <1>4, <2>2 DEF CleanupsAt
    <3>2. s = CleanupOrder[Len(a.cleanup) + 1] /\ c = Append(a.cleanup, s)
      BY <1>1, <2>2, <3>1, CleanupOrderIs
    <3> HIDE DEF c, s
    <3> QED
      BY <2>2, <3>1, <3>2, HookAppended
  <2>3. CASE a.step # 3
    BY <1>1, <1>3, <1>4, <2>1, <2>3 DEF CleanupsAt
  <2> QED
    BY <2>2, <2>3
<1> HIDE DEF c
<1>6. b = [a EXCEPT !.step = a.step + 1, !.values = a.values \cup Made(Start[a.step]),
                    !.cleanup = c]
  BY AtFacts DEF Instance, c
<1> HIDE DEF b, s
<1>7. b \in Instance
  BY <1>5, <1>6, AtFacts DEF Instance
<1>8. /\ b.pc = "start" /\ b.step = a.step + 1 /\ b.stack = <<>>
      /\ b.values = a.values \cup Made(Start[a.step])
      /\ b.services = a.services /\ b.factories = a.factories
      /\ b.lifecycle = a.lifecycle /\ b.up = a.up /\ b.cleanup = c
  BY <1>2, <1>6 DEF Instance
<1>9. Len(b.cleanup) = CleanupsAt(b)
  BY <1>1, <1>3, <1>5, <1>8 DEF CleanupsAt
<1>10. /\ a.step \in 1..14 /\ a.step # 13 /\ a.step # 14 /\ a.step # 7 /\ a.step # 11
       /\ a.step # 12
  BY <1>1
<1>11. Sound(b)
  BY <1>5, <1>7, <1>8, <1>9, <1>10, AdvanceSound
<1> QED
  BY <1>7, <1>11 DEF b, s

LEMMA RedisSound ==
  ASSUME NEW a \in Instance, Sound(a), a.pc = "start", a.step <= Len(Start),
         Start[a.step] = "redis"
  PROVE  LET b == [Done(a) EXCEPT !.up = @ \cup {"redis"}, !.cleanup = Append(@, "redis")]
         IN b \in Instance /\ Sound(b)
<1> DEFINE b == [Done(a) EXCEPT !.up = @ \cup {"redis"}, !.cleanup = Append(@, "redis")]
           c == Append(a.cleanup, "redis")
           up == a.up \cup {"redis"}
<1>1. a.step = 7
  BY AtFacts, StepOf
<1>2. a.stack = <<>>
  BY <1>1 DEF Sound, Stocked
<1>3. "database" \notin a.up /\ Len(a.cleanup) = 1
  BY <1>1 DEF Sound, Rising, CleanupsAt
<1>4. c \in Seq(Hooks) /\ Prefix(c, CleanupOrder) /\ Len(c) = 2
  <2>1. Len(a.cleanup) + 1 = 2 /\ Len(a.cleanup) < 6
    BY <1>3
  <2> QED
    BY <1>3, <2>1, HookAppended, CleanupOrderIs
<1>5. up \subseteq Lifecycles \cup Opened \cup {"httpServers", "wsServer"}
  BY DEF Instance, Opened
<1> HIDE DEF c, up
<1>6. b = [a EXCEPT !.step = a.step + 1, !.values = a.values \cup Made(Start[a.step]),
                    !.up = up, !.cleanup = c]
  BY AtFacts DEF Instance, c, up
<1> HIDE DEF b
<1>7. b \in Instance
  BY <1>4, <1>5, <1>6, AtFacts DEF Instance
<1>8. /\ b.pc = "start" /\ b.step = a.step + 1 /\ b.stack = <<>>
      /\ b.values = a.values \cup Made(Start[a.step])
      /\ b.services = a.services /\ b.factories = a.factories
      /\ b.lifecycle = a.lifecycle /\ b.up = up /\ b.cleanup = c
  BY <1>2, <1>6 DEF Instance
<1>9. Len(b.cleanup) = CleanupsAt(b)
  <2>1. b.step = 8 /\ Len(b.cleanup) = 2 /\ "database" \notin b.up
    BY <1>1, <1>3, <1>4, <1>8 DEF up
  <2> QED
    BY <2>1 DEF CleanupsAt
<1>10. a.up \subseteq b.up /\ b.up \subseteq a.up \cup {"redis", "nats"} /\ "redis" \in b.up
  BY <1>8 DEF up
<1>11. Sound(b)
  BY <1>1, <1>4, <1>7, <1>8, <1>9, <1>10, AdvanceSound
<1> QED
  BY <1>7, <1>11 DEF b

LEMMA NATSSound ==
  ASSUME NEW a \in Instance, Sound(a), a.pc = "start", a.step <= Len(Start),
         Start[a.step] = "nats"
  PROVE  LET b == [Done(a) EXCEPT !.up = @ \cup {"nats"}, !.cleanup = Append(@, "nats")]
         IN b \in Instance /\ Sound(b)
<1> DEFINE b == [Done(a) EXCEPT !.up = @ \cup {"nats"}, !.cleanup = Append(@, "nats")]
           c == Append(a.cleanup, "nats")
           up == a.up \cup {"nats"}
<1>1. a.step = 12
  BY AtFacts, StepOf
<1>2. a.stack = <<>>
  BY <1>1 DEF Sound, Stocked
<1>3. "database" \in a.up /\ Len(a.cleanup) = 3
  BY <1>1 DEF Sound, Rising, CleanupsAt
<1>4. c \in Seq(Hooks) /\ Prefix(c, CleanupOrder) /\ Len(c) = 4
  <2>1. Len(a.cleanup) + 1 = 4 /\ Len(a.cleanup) < 6
    BY <1>3
  <2> QED
    BY <1>3, <2>1, HookAppended, CleanupOrderIs
<1>5. up \subseteq Lifecycles \cup Opened \cup {"httpServers", "wsServer"}
  BY DEF Instance, Opened
<1> HIDE DEF c, up
<1>6. b = [a EXCEPT !.step = a.step + 1, !.values = a.values \cup Made(Start[a.step]),
                    !.up = up, !.cleanup = c]
  BY AtFacts DEF Instance, c, up
<1> HIDE DEF b
<1>7. b \in Instance
  BY <1>4, <1>5, <1>6, AtFacts DEF Instance
<1>8. /\ b.pc = "start" /\ b.step = a.step + 1 /\ b.stack = <<>>
      /\ b.values = a.values \cup Made(Start[a.step])
      /\ b.services = a.services /\ b.factories = a.factories
      /\ b.lifecycle = a.lifecycle /\ b.up = up /\ b.cleanup = c
  BY <1>2, <1>6 DEF Instance
<1>9. Len(b.cleanup) = CleanupsAt(b)
  <2>1. b.step = 13 /\ Len(b.cleanup) = 4
    BY <1>1, <1>3, <1>4, <1>8 DEF up
  <2> QED
    BY <2>1 DEF CleanupsAt
<1>10. a.up \subseteq b.up /\ b.up \subseteq a.up \cup {"redis", "nats"} /\ "nats" \in b.up
  BY <1>8 DEF up
<1>11. Sound(b)
  BY <1>1, <1>4, <1>7, <1>8, <1>9, <1>10, AdvanceSound
<1> QED
  BY <1>7, <1>11 DEF b

LEMMA ContainerSound ==
  ASSUME NEW a \in Instance, Sound(a), a.pc = "start", a.step <= Len(Start),
         Start[a.step] = "container"
  PROVE  LET b == [Done(a) EXCEPT !.services = a.values, !.cleanup = Append(@, "container")]
         IN b \in Instance /\ Sound(b)
<1> DEFINE b == [Done(a) EXCEPT !.services = a.values, !.cleanup = Append(@, "container")]
           c == Append(a.cleanup, "container")
<1>1. a.step = 13
  BY AtFacts, StepOf
<1>2. a.stack = <<>>
  BY <1>1 DEF Sound, Stocked
<1>3. "database" \in a.up /\ Len(a.cleanup) = 4
  BY <1>1 DEF Sound, Rising, CleanupsAt
<1>4. c \in Seq(Hooks) /\ Prefix(c, CleanupOrder) /\ Len(c) = 5
  <2>1. Len(a.cleanup) + 1 = 5 /\ Len(a.cleanup) < 6
    BY <1>3
  <2> QED
    BY <1>3, <2>1, HookAppended, CleanupOrderIs
<1> HIDE DEF c
<1>5. b = [a EXCEPT !.step = a.step + 1, !.values = a.values \cup Made(Start[a.step]),
                    !.services = a.values, !.cleanup = c]
  BY AtFacts DEF Instance, c
<1> HIDE DEF b
<1>6. b \in Instance
  BY <1>4, <1>5, AtFacts DEF Instance
<1>7. /\ b.pc = "start" /\ b.step = a.step + 1 /\ b.stack = <<>>
      /\ b.values = a.values \cup Made(Start[a.step])
      /\ b.services = a.values /\ b.factories = a.factories
      /\ b.lifecycle = a.lifecycle /\ b.up = a.up /\ b.cleanup = c
  BY <1>2, <1>5 DEF Instance
<1>8. Len(b.cleanup) = CleanupsAt(b)
  BY <1>1, <1>4, <1>7 DEF CleanupsAt
<1>9. Sound(b)
  <2>1. /\ a.pc \in {"start", "migrating", "waiting"} /\ a.step \in 1..14
        /\ a.step # 7 /\ a.step # 11 /\ a.step # 12 /\ a.step # 14
    BY <1>1
  <2>2. /\ b.services = IF a.step = 13 THEN a.values ELSE a.services
        /\ b.factories = IF a.step = 14 THEN Types(Factories) ELSE a.factories
    BY <1>1, <1>7, <2>1
  <2>3. /\ a.up \subseteq b.up /\ b.up \subseteq a.up \cup {"redis", "nats"}
        /\ Prefix(b.cleanup, CleanupOrder)
    BY <1>4, <1>7
  <2> QED
    BY <1>6, <1>7, <1>8, <2>1, <2>2, <2>3, AdvanceSound
<1> QED
  BY <1>6, <1>9 DEF b

LEMMA ModulesSound ==
  ASSUME NEW a \in Instance, Sound(a), a.pc = "start", a.step <= Len(Start),
         Start[a.step] = "modules"
  PROVE  LET b == [Done(a) EXCEPT !.factories = Types(Factories)]
         IN b \in Instance /\ Sound(b)
<1> DEFINE b == [Done(a) EXCEPT !.factories = Types(Factories)]
<1>1. a.step = 14
  BY AtFacts, StepOf
<1>2. a.stack = <<>>
  BY <1>1 DEF Sound, Stocked
<1>3. Len(a.cleanup) = 5 /\ Prefix(a.cleanup, CleanupOrder)
  BY <1>1 DEF Sound, Rising, Stacked, CleanupsAt
<1>4. b = [a EXCEPT !.step = a.step + 1, !.values = a.values \cup Made(Start[a.step]),
                    !.factories = Types(Factories)]
  BY AtFacts DEF Instance
<1> HIDE DEF b
<1>5. b \in Instance
  BY <1>4, AtFacts DEF Instance
<1>6. /\ b.pc = "start" /\ b.step = a.step + 1 /\ b.stack = <<>>
      /\ b.values = a.values \cup Made(Start[a.step])
      /\ b.services = a.services /\ b.factories = Types(Factories)
      /\ b.lifecycle = a.lifecycle /\ b.up = a.up /\ b.cleanup = a.cleanup
  BY <1>2, <1>4 DEF Instance
<1>7. Len(b.cleanup) = CleanupsAt(b)
  BY <1>1, <1>3, <1>6 DEF CleanupsAt
<1>8. Sound(b)
  <2>1. /\ a.pc \in {"start", "migrating", "waiting"} /\ a.step \in 1..14
        /\ a.step # 7 /\ a.step # 11 /\ a.step # 12 /\ a.step # 13
    BY <1>1
  <2>2. /\ b.services = IF a.step = 13 THEN a.values ELSE a.services
        /\ b.factories = IF a.step = 14 THEN Types(Factories) ELSE a.factories
    BY <1>1, <1>6, <2>1
  <2>3. /\ a.up \subseteq b.up /\ b.up \subseteq a.up \cup {"redis", "nats"}
        /\ Prefix(b.cleanup, CleanupOrder)
    BY <1>3, <1>6
  <2> QED
    BY <1>5, <1>6, <1>7, <2>1, <2>2, <2>3, AdvanceSound
<1> QED
  BY <1>5, <1>8 DEF b

\* The database is open; the schema is next.
LEMMA DatabaseSound ==
  ASSUME NEW a \in Instance, Sound(a), a.pc = "start", a.step <= Len(Start),
         Start[a.step] = "database", "database" \notin a.up
  PROVE  LET b == [a EXCEPT !.up = @ \cup {"database"}, !.cleanup = Append(@, "database")]
         IN b \in Instance /\ Sound(b)
<1> DEFINE b == [a EXCEPT !.up = @ \cup {"database"}, !.cleanup = Append(@, "database")]
           c == Append(a.cleanup, "database")
           up == a.up \cup {"database"}
<1>1. a.step = 11
  BY AtFacts, StepOf
<1>2. a.stack = <<>>
  BY <1>1 DEF Sound, Stocked
<1>3. Len(a.cleanup) = 2
  BY <1>1 DEF Sound, Rising, CleanupsAt
<1>4. c \in Seq(Hooks) /\ Prefix(c, CleanupOrder) /\ Len(c) = 3
  <2>1. Len(a.cleanup) + 1 = 3 /\ Len(a.cleanup) < 6
    BY <1>3
  <2> QED
    BY <1>3, <2>1, HookAppended, CleanupOrderIs
<1>5. up \subseteq Lifecycles \cup Opened \cup {"httpServers", "wsServer"}
  BY DEF Instance, Opened
<1>6. b = [a EXCEPT !.up = up, !.cleanup = c]
  OBVIOUS
<1> HIDE DEF c, up, b
<1>7. b \in Instance
  BY <1>4, <1>5, <1>6 DEF Instance
<1>8. /\ b.pc = a.pc /\ b.step = 11 /\ b.stack = a.stack /\ b.values = a.values
      /\ b.services = a.services /\ b.factories = a.factories
      /\ b.lifecycle = a.lifecycle /\ b.up = up /\ b.cleanup = c
  BY <1>1, <1>6 DEF Instance
<1>9. Linked(b.stack)
  BY <1>8 DEF Sound
<1>10. Stocked(b)
  BY <1>1, <1>8 DEF Sound, Stocked
<1>11. \A x \in Lifecycles \cup {"redis", "nats", "wsServer"} : x \in up <=> x \in a.up
  BY LifecyclesAre DEF up
<1>12. \A k \in 1..4 : LifecycleServices[k] \in Lifecycles
  BY LifecyclesBySlot
<1>13. /\ \A k \in 1..4 : LifecycleServices[k] \in b.up <=> LifecycleServices[k] \in a.up
       /\ "wsServer" \in b.up <=> "wsServer" \in a.up
       /\ "redis" \in b.up <=> "redis" \in a.up
       /\ "nats" \in b.up <=> "nats" \in a.up
  BY <1>8, <1>11, <1>12
<1>14. Len(a.lifecycle) = 0
  BY <1>1 DEF Sound, Rising, LifecyclesAt
<1>15. Stacked(b)
  BY <1>4, <1>8, <1>13, <1>14 DEF Sound, Stacked
<1>16. Rising(b)
  <2>1. Len(b.cleanup) = CleanupsAt(b)
    <3>1. "database" \in b.up
      BY <1>8 DEF up
    <3> QED
      BY <1>4, <1>8, <3>1 DEF CleanupsAt
  <2>2. Len(b.lifecycle) = LifecyclesAt(b)
    BY <1>8, <1>14 DEF LifecyclesAt
  <2> QED
    BY <1>1, <1>8, <1>13, <2>1, <2>2 DEF Sound, Rising
<1>17. Falling(b)
  BY <1>8 DEF Falling
<1> QED
  BY <1>7, <1>9, <1>10, <1>15, <1>16, <1>17 DEF Sound, b

\* It migrates, or waits for the one that does.
LEMMA PcSound ==
  ASSUME NEW a \in Instance, Sound(a), a.step = 11, a.pc = "start",
         "database" \in a.up, a.stack = <<>>,
         NEW pc \in {"migrating", "waiting"}
  PROVE  LET b == [a EXCEPT !.pc = pc] IN b \in Instance /\ Sound(b)
<1> DEFINE b == [a EXCEPT !.pc = pc]
<1>1. b \in Instance
  BY DEF Instance
<1>2. /\ b.pc = pc /\ b.step = 11 /\ b.stack = a.stack /\ b.values = a.values
      /\ b.services = a.services /\ b.factories = a.factories
      /\ b.lifecycle = a.lifecycle /\ b.up = a.up /\ b.cleanup = a.cleanup
  BY DEF Instance
<1> HIDE DEF b
<1>3. Linked(b.stack)
  BY <1>2 DEF Sound
<1>4. Stocked(b)
  BY <1>2 DEF Sound, Stocked
<1>5. Stacked(b)
  BY <1>2 DEF Sound, Stacked
<1>6. LifecyclesAt(b) = LifecyclesAt(a) /\ CleanupsAt(b) = CleanupsAt(a)
  BY <1>2 DEF LifecyclesAt, CleanupsAt
<1>7. Rising(b)
  BY <1>2, <1>6 DEF Sound, Rising
<1>8. Falling(b)
  BY <1>2 DEF Falling
<1> QED
  BY <1>1, <1>3, <1>4, <1>5, <1>7, <1>8 DEF Sound, b

\* The schema is there.
LEMMA MigratedSound ==
  ASSUME NEW a \in Instance, Sound(a), a.pc \in {"migrating", "waiting"}
  PROVE  LET b == [Done(a) EXCEPT !.pc = "start"] IN b \in Instance /\ Sound(b)
<1> DEFINE b == [Done(a) EXCEPT !.pc = "start"]
           values == a.values \cup Made(Start[11])
<1>1. a.step = 11 /\ a.stack = <<>> /\ "database" \in a.up
  BY DEF Sound, Stocked
<1>2. Len(a.cleanup) = 3 /\ Prefix(a.cleanup, CleanupOrder)
  <2>1. CleanupsAt(a) = 3
    BY <1>1 DEF CleanupsAt
  <2> QED
    BY <2>1 DEF Sound, Rising, Stacked
<1>3. values \subseteq Values
  BY MadeIs DEF Instance
<1>4. b = [a EXCEPT !.step = 12, !.values = values, !.pc = "start"]
  <2>1. Done(a) = [a EXCEPT !.step = 12, !.values = values]
    BY <1>1 DEF Instance, Done
  <2> QED
    BY <2>1 DEF Instance
<1> HIDE DEF values, b
<1>5. b \in Instance
  <2>1. values \in SUBSET Values /\ 12 \in 1..19
    BY <1>3
  <2>2. [a EXCEPT !.step = 12, !.values = values] \in Instance
    BY <2>1 DEF Instance
  <2> QED
    BY <1>4, <2>2 DEF Instance
<1>6. /\ b.pc = "start" /\ b.step = 12 /\ b.stack = <<>> /\ b.values = values
      /\ b.services = a.services /\ b.factories = a.factories
      /\ b.lifecycle = a.lifecycle /\ b.up = a.up /\ b.cleanup = a.cleanup
  BY <1>1, <1>4 DEF Instance
<1>7. Len(b.cleanup) = CleanupsAt(b)
  BY <1>2, <1>6 DEF CleanupsAt
<1>8. b.values = a.values \cup Made(Start[a.step])
  BY <1>1, <1>6 DEF values
<1>9. Sound(b)
  BY <1>1, <1>2, <1>5, <1>6, <1>7, <1>8, AdvanceSound
<1> QED
  BY <1>5, <1>9 DEF b

-----------------------------------------------------------------------------
\* The container.

LEMMA StackSound ==
  ASSUME NEW a \in Instance, Sound(a), a.pc = "start", a.step \in 15..18,
         NEW s \in Seq(Frame), s # <<>>, Linked(s), s[1].type = Start[a.step],
         a.step = 15 => s[1].next - 1 = LifecyclesAt(a)
  PROVE  LET b == [a EXCEPT !.stack = s] IN b \in Instance /\ Sound(b)
<1> DEFINE b == [a EXCEPT !.stack = s]
<1>1. b \in Instance
  BY DEF Instance
<1>2. /\ b.pc = "start" /\ b.step = a.step /\ b.stack = s /\ b.values = a.values
      /\ b.services = a.services /\ b.factories = a.factories
      /\ b.lifecycle = a.lifecycle /\ b.up = a.up /\ b.cleanup = a.cleanup
  BY DEF Instance
<1> HIDE DEF b
<1>3. Linked(b.stack)
  BY <1>2
<1>4. Stocked(b)
  BY <1>2 DEF Sound, Stocked
<1>5. Stacked(b)
  BY <1>2 DEF Sound, Stacked
<1>6. LifecyclesAt(b) = LifecyclesAt(a)
  BY <1>2 DEF LifecyclesAt
<1>7. CleanupsAt(b) = CleanupsAt(a)
  BY <1>2 DEF CleanupsAt
<1>8. Rising(b)
  BY <1>2, <1>6, <1>7 DEF Sound, Rising
<1>9. Falling(b)
  BY <1>2 DEF Falling
<1> QED
  BY <1>1, <1>3, <1>4, <1>5, <1>8, <1>9 DEF Sound, b

\* What holds while the container resolves.
LEMMA ResolvingFacts ==
  ASSUME NEW a \in Instance, Sound(a), a.pc = "start", a.stack # <<>>
  PROVE  /\ a.step \in 15..18 /\ a.stack \in Seq(Frame) /\ Linked(a.stack)
         /\ a.stack[1].type = Start[a.step] /\ a.stack[1].type \in Types(Roots)
         /\ Rank(a.stack[1].type) = 100
         /\ Values \subseteq a.services /\ a.factories = Types(Factories)
         /\ a.step = 15 => LifecyclesAt(a) = a.stack[1].next - 1
         /\ a.step # 15 => LifecyclesAt(a) = 4
         /\ Len(a.lifecycle) = LifecyclesAt(a)
         /\ Len(a.stack) \in Nat \ {0}
<1>1. a.step \in 15..18 /\ a.stack[1].type = Start[a.step]
  BY DEF Sound, Stocked
<1>2. a.stack[1].type \in Types(Roots)
  BY <1>1, StepOf
<1>3. Rank(a.stack[1].type) = 100
  BY <1>2, RootsFit DEF Types
<1>4. a.stack \in Seq(Frame) /\ Len(a.stack) \in Nat \ {0}
  BY DEF Instance
<1>5. Values \subseteq a.services /\ a.factories = Types(Factories)
  BY <1>1 DEF Sound, Stocked
<1>6. /\ a.step = 15 => LifecyclesAt(a) = a.stack[1].next - 1
      /\ a.step # 15 => LifecyclesAt(a) = 4
  BY <1>1 DEF LifecyclesAt
<1>7. Len(a.lifecycle) = LifecyclesAt(a) /\ Linked(a.stack)
  BY DEF Sound, Rising
<1> QED
  BY <1>1, <1>2, <1>3, <1>4, <1>5, <1>6, <1>7

LEMMA AskSound ==
  ASSUME NEW a \in Instance, Sound(a), a.pc = "start", a.step <= Len(Start),
         Start[a.step] \in Types(Roots), a.stack = <<>>
  PROVE  LET b == [a EXCEPT !.stack = <<[type |-> Start[a.step], next |-> 1]>>]
         IN b \in Instance /\ Sound(b)
<1> DEFINE f == [type |-> Start[a.step], next |-> 1]
           s == <<f>>
<1>1. a.step \in 15..18
  BY AtFacts, StepOf
<1>2. f \in Frame /\ f.type = Start[a.step] /\ f.next = 1
  BY RootsAsked DEF Frame
<1> HIDE DEF f
<1>3. s \in Seq(Frame) /\ s # <<>> /\ Len(s) = 1 /\ s[1] = f
  BY <1>2
<1>4. Len(Needs[f.type]) \in Nat
  BY <1>2, NeedsFit DEF Frame
<1> HIDE DEF s
<1>5. Linked(s)
  <2>1. \A k \in 1..Len(s) : k = 1
    BY <1>3
  <2>2. 1 <= Len(Needs[f.type]) + 1
    BY <1>4
  <2>3. \A k \in 1..Len(s) : s[k].next <= Len(Needs[s[k].type]) + 1
    BY <2>1, <2>2, <1>2, <1>3
  <2>4. (\A k \in 1..(Len(s) - 1) : FALSE) /\ (\A j, k \in 1..Len(s) : ~(j < k))
    BY <1>3
  <2> QED
    BY <2>3, <2>4 DEF Linked
<1>6. a.step = 15 => s[1].next - 1 = LifecyclesAt(a)
  BY <1>2, <1>3 DEF LifecyclesAt
<1>7. [a EXCEPT !.stack = s] \in Instance /\ Sound([a EXCEPT !.stack = s])
  BY <1>1, <1>2, <1>3, <1>5, <1>6, StackSound
<1> QED
  BY <1>7 DEF s, f

\* The factory on top gets what it asked for.
LEMMA GotSound ==
  ASSUME NEW a \in Instance, Sound(a), a.pc = "start", a.stack # <<>>,
         Top(a).next <= Len(Needs[Top(a).type]),
         Len(a.stack) > 1 \/ a.step # 15
  PROVE  Got(a) \in Instance /\ Sound(Got(a))
<1> DEFINE s == Got(a).stack
           n == Len(a.stack)
<1>1. /\ Got(a) = [a EXCEPT !.stack = s]
      /\ Len(s) = n /\ (\A k \in 1..(n - 1) : s[k] = a.stack[k])
      /\ s[n].type = a.stack[n].type /\ s[n].next = a.stack[n].next + 1
      /\ Got(a) \in Instance
  BY GotFacts
<1>2. s \in Seq(Frame) /\ n \in Nat \ {0}
  BY <1>1 DEF Instance
<1> HIDE DEF s
<1>3. Linked(a.stack) /\ a.stack \in Seq(Frame) /\ Top(a) = Last(a.stack)
  BY ResolvingFacts DEF Top
<1>4. Linked(s)
  BY <1>1, <1>2, <1>3, LinkedGot
<1>5. s[1].type = a.stack[1].type /\ (n > 1 => s[1] = a.stack[1])
  BY <1>1, <1>2
<1>6. a.step = 15 => s[1].next - 1 = LifecyclesAt(a)
  BY <1>5, ResolvingFacts
<1>7. s # <<>>
  BY <1>1, <1>2
<1>8. Sound([a EXCEPT !.stack = s])
  BY <1>2, <1>4, <1>5, <1>6, <1>7, ResolvingFacts, StackSound
<1> QED
  BY <1>1, <1>8

\* Container.Get finds a service, or a factory that does not run.
LEMMA GetSound ==
  ASSUME NEW a \in Instance, Sound(a), a.pc = "start", a.stack # <<>>,
         Top(a).next <= Len(Needs[Top(a).type])
  PROVE  LET type == Needs[Top(a).type][Top(a).next]
             initializing == {f.type : f \in Range(a.stack)}
             pushed == [a EXCEPT !.stack = Append(@, [type |-> type, next |-> 1])]
         IN IF type \in a.services THEN Got(a) \in Instance /\ Sound(Got(a))
            ELSE /\ type \in a.factories \ initializing
                 /\ pushed \in Instance /\ Sound(pushed)
<1> DEFINE type == Needs[Top(a).type][Top(a).next]
           initializing == {f.type : f \in Range(a.stack)}
           s == Append(a.stack, [type |-> type, next |-> 1])
<1>1. Linked(a.stack) /\ a.stack \in Seq(Frame) /\ Top(a) = Last(a.stack)
  BY ResolvingFacts DEF Top
<1>2. /\ type \in Values \cup (Types(Factories) \cap Asked)
      /\ \A k \in 1..Len(a.stack) : Rank(type) < Rank(a.stack[k].type)
  BY <1>1, NextNeed
<1>3. CASE type \in a.services
  <2>1. Len(a.stack) > 1 \/ a.step # 15
    <3> DEFINE n == Len(a.stack)
    <3>0. n \in Nat \ {0}
      BY ResolvingFacts
    <3> HIDE DEF n
    <3>a. n > 1 \/ n = 1
      BY <3>0
    <3>1. SUFFICES ASSUME n = 1, a.step = 15 PROVE FALSE
      BY <3>a DEF n
    <3>2. Len(a.stack) = 1
      BY <3>1 DEF n
    <3>3. Top(a) = a.stack[1] /\ a.stack[1].type = "lifecycle"
      BY <1>1, <3>1, <3>2, ResolvingFacts, StartIs DEF Last
    <3>4. a.stack[1].next \in Nat \ {0} /\ a.stack[1].next <= 4
      BY <1>1, <3>3, LifecycleNeeds, LifecycleServicesAre, TopFacts
    <3>5. type = LifecycleServices[a.stack[1].next] /\ a.stack[1].next \in 1..4
      BY <3>3, <3>4, LifecycleNeeds
    <3>6. Len(a.lifecycle) = a.stack[1].next - 1
      BY <3>1, ResolvingFacts
    <3>7. a.stack[1].next <= Len(a.lifecycle)
      BY <1>3, <3>5 DEF Sound, Rising
    <3> QED
      BY <3>4, <3>6, <3>7
  <2> QED
    BY <1>3, <2>1, GotSound
<1>4. CASE type \notin a.services
  <2>1. type \in Types(Factories) /\ type \in Asked
    BY <1>2, <1>4, ResolvingFacts
  <2>2. type \notin initializing
    <3>1. SUFFICES ASSUME NEW k \in 1..Len(a.stack), a.stack[k].type = type PROVE FALSE
      BY <1>1 DEF Range
    <3>2. Rank(type) < Rank(type) /\ Rank(type) \in Nat
      BY <1>2, <3>1, RankNat
    <3> QED
      BY <3>2
  <2>3. s \in Seq(Frame) /\ Linked(s) /\ Len(s) = Len(a.stack) + 1 /\ s[1] = a.stack[1]
    BY <1>1, <2>1, LinkedPush
  <2> HIDE DEF s, type
  <2>4. s # <<>>
    BY <2>3, ResolvingFacts
  <2>5. [a EXCEPT !.stack = s] \in Instance /\ Sound([a EXCEPT !.stack = s])
    BY <2>3, <2>4, ResolvingFacts, StackSound
  <2> QED
    BY <1>4, <2>1, <2>2, <2>5, ResolvingFacts DEF s, type
<1> QED
  BY <1>3, <1>4

LEMMA ServiceSound ==
  ASSUME NEW a \in Instance, Sound(a), a.pc = "start", a.step \in 15..18,
         NEW type \in Types(Factories), type \notin Lifecycles
  PROVE  LET b == [a EXCEPT !.services = @ \cup {type}] IN b \in Instance /\ Sound(b)
<1> DEFINE b == [a EXCEPT !.services = @ \cup {type}]
           services == a.services \cup {type}
<1>1. b \in Instance
  BY DEF Instance
<1>2. /\ b.pc = "start" /\ b.step = a.step /\ b.stack = a.stack /\ b.values = a.values
      /\ b.services = services /\ b.factories = a.factories
      /\ b.lifecycle = a.lifecycle /\ b.up = a.up /\ b.cleanup = a.cleanup
  BY DEF Instance
<1> HIDE DEF b
<1>3. Linked(b.stack)
  BY <1>2 DEF Sound
<1>4. Stocked(b)
  BY <1>2 DEF Sound, Stocked
<1>5. Stacked(b)
  BY <1>2 DEF Sound, Stacked
<1>6. LifecyclesAt(b) = LifecyclesAt(a) /\ CleanupsAt(b) = CleanupsAt(a)
  BY <1>2 DEF LifecyclesAt, CleanupsAt
<1>7. \A k \in 1..4 : LifecycleServices[k] # type
  BY LifecyclesBySlot
<1>8. Rising(b)
  BY <1>2, <1>6, <1>7 DEF Sound, Rising
<1>9. Falling(b)
  BY <1>2 DEF Falling
<1> QED
  BY <1>1, <1>3, <1>4, <1>5, <1>8, <1>9 DEF Sound, b

\* The stack below the top: its new top waits for what is built.
LEMMA ParentFacts ==
  ASSUME NEW s \in Seq(Frame), Linked(s), Len(s) > 1
  PROVE  LET r == Front(s)
             n == Len(s) - 1
         IN /\ r \in Seq(Frame) /\ r # <<>> /\ Linked(r) /\ Len(r) = n /\ n \in Nat \ {0}
            /\ \A k \in 1..n : r[k] = s[k]
            /\ Last(r) = s[n]
            /\ Last(r).next <= Len(Needs[Last(r).type])
            /\ Last(s).type = Needs[Last(r).type][Last(r).next]
<1> DEFINE r == Front(s)
           n == Len(s) - 1
<1>1. /\ n \in Nat \ {0} /\ n \in 0..Len(s) /\ n \in 1..(Len(s) - 1) /\ n + 1 = Len(s)
      /\ s # <<>>
  <2>1. Len(s) \in Nat /\ Len(<<>>) = 0
    OBVIOUS
  <2>2. s # <<>>
    BY <2>1
  <2>3. \A m \in Nat : m > 1 => /\ m - 1 \in Nat \ {0} /\ m - 1 \in 0..m
                              /\ m - 1 \in 1..(m - 1) /\ m - 1 + 1 = m
    OBVIOUS
  <2> QED
    BY <2>1, <2>2, <2>3
<1>2. r \in Seq(Frame) /\ Linked(r) /\ Len(r) = n /\ \A k \in 1..n : r[k] = s[k]
  BY <1>1, LinkedCut DEF Front
<1> HIDE DEF r, n
<1>3. r # <<>> /\ Last(r) = s[n] /\ Last(s) = s[n + 1]
  BY <1>1, <1>2 DEF Last
<1>4. s[n].next <= Len(Needs[s[n].type]) /\ Needs[s[n].type][s[n].next] = s[n + 1].type
  BY <1>1 DEF Linked, n
<1> QED
  BY <1>1, <1>2, <1>3, <1>4 DEF r, n

\* What a factory makes is a lifecycle service only when initializeLifecycle-
\* Services asks for it, and then it is the next one in its list.
LEMMA BuiltFacts ==
  ASSUME NEW a \in Instance, Sound(a), a.pc = "start", Len(a.stack) > 1
  PROVE  LET type == Top(a).type
         IN /\ type \in Types(Factories)
            /\ type \in Lifecycles =>
                 /\ a.step = 15 /\ Len(a.stack) = 2
                 /\ a.stack[1].next \in 1..4 /\ type = LifecycleServices[a.stack[1].next]
            /\ type \notin Lifecycles => Len(a.stack) > 2 \/ a.step # 15
<1> DEFINE type == Top(a).type
           s == a.stack
           n == Len(a.stack)
<1>0. s # <<>> /\ s \in Seq(Frame) /\ Linked(s) /\ n \in Nat /\ n > 1 /\ Top(a) = Last(s)
  <2>1. s \in Seq(Frame) /\ Linked(s)
    BY DEF Instance, Sound
  <2>2. n \in Nat /\ Len(<<>>) = 0
    BY <2>1
  <2>3. s # <<>>
    BY <2>2
  <2> QED
    BY <2>1, <2>2, <2>3 DEF Top
<1>1. /\ Last(s) = s[n] /\ s[n].type \in Asked
      /\ \A k \in 1..n : s[k].type \in Asked /\ s[k].next \in Nat \ {0}
  BY <1>0, TopFacts
<1>2. Rank(s[1].type) = 100 /\ s[1].type = Start[a.step] /\ a.step \in 15..18
  BY <1>0, ResolvingFacts
<1>3. \A k \in 2..n : Rank(s[k].type) < 100
  <2> TAKE k \in 2..n
  <2>1. k \in 1..Len(s) /\ 1 \in 1..Len(s) /\ 1 < k
    BY <1>0
  <2> QED
    BY <1>0, <1>2, <2>1 DEF Linked
<1>4. type \in Types(Factories)
  <2>1. Rank(type) < 100 /\ type \in Asked
    BY <1>0, <1>1, <1>3
  <2> QED
    BY <2>1, AskedRank, RankOfFactories
<1>5. /\ s[n - 1].next <= Len(Needs[s[n - 1].type])
      /\ type = Needs[s[n - 1].type][s[n - 1].next]
  <2>1. Last(Front(s)) = s[n - 1]
    BY <1>0, ParentFacts
  <2> QED
    BY <1>0, <2>1, ParentFacts
<1>6. n - 1 \in 1..n /\ s[n - 1].next \in 1..Len(Needs[s[n - 1].type]) /\ s[n - 1].type \in Asked
  <2>1. n - 1 \in 1..n
    BY <1>0
  <2>2. Len(Needs[s[n - 1].type]) \in Nat
    BY <1>1, <2>1, NeedsFit
  <2> QED
    BY <1>1, <1>5, <2>1, <2>2
<1>7. ASSUME type \in Lifecycles
      PROVE  a.step = 15 /\ n = 2 /\ s[1].next \in 1..4 /\ type = LifecycleServices[s[1].next]
  <2>1. s[n - 1].type = "lifecycle"
    BY <1>5, <1>6, <1>7, NeedsFit
  <2>2. Rank("lifecycle") = 100
    BY DEF Rank
  <2>3. ~(n - 1 \in 2..n)
    BY <1>3, <2>1, <2>2
  <2> HIDE DEF n
  <2>4. n = 2
    BY <1>0, <2>3
  <2>5. Start[a.step] = "lifecycle"
    BY <1>2, <2>1, <2>4
  <2>6. a.step = 15
    BY <1>2, <2>5, StepOf
  <2> QED
    BY <1>5, <1>6, <2>1, <2>4, <2>6, LifecycleNeeds, LifecycleServicesAre
<1>8. ASSUME type \notin Lifecycles PROVE n > 2 \/ a.step # 15
  <2> HIDE DEF n
  <2>1. SUFFICES ASSUME n = 2, a.step = 15 PROVE FALSE
    <3>1. n > 2 \/ n = 2
      BY <1>0
    <3> QED
      BY <3>1
  <2>2. s[n - 1].type = "lifecycle"
    BY <1>2, <2>1, StartIs
  <2>3. type = LifecycleServices[s[n - 1].next] /\ s[n - 1].next \in 1..4
    BY <1>5, <1>6, <2>2, LifecycleNeeds, LifecycleServicesAre
  <2> QED
    BY <1>8, <2>3, LifecyclesBySlot
<1> HIDE DEF type
<1> QED
  BY <1>4, <1>7, <1>8 DEF type

\* A service that is no lifecycle service is made and handed on.
LEMMA BuildPlainSound ==
  ASSUME NEW a \in Instance, Sound(a), a.pc = "start", Len(a.stack) > 1,
         Top(a).type \notin Lifecycles
  PROVE  LET c == [a EXCEPT !.stack = Front(@), !.services = @ \cup {Top(a).type}]
         IN Got(c) \in Instance /\ Sound(Got(c))
<1> DEFINE type == Top(a).type
           s == Front(a.stack)
           d == [a EXCEPT !.stack = s]
           c == [a EXCEPT !.stack = s, !.services = a.services \cup {type}]
<1>1. a.stack \in Seq(Frame) /\ Linked(a.stack)
  BY DEF Instance, Sound
<1>2. /\ s \in Seq(Frame) /\ s # <<>> /\ Linked(s) /\ Len(s) = Len(a.stack) - 1
      /\ \A k \in 1..(Len(a.stack) - 1) : s[k] = a.stack[k]
      /\ Last(s).next <= Len(Needs[Last(s).type])
      /\ Len(a.stack) - 1 \in Nat \ {0}
  BY <1>1, ParentFacts
<1>3. s[1] = a.stack[1]
  BY <1>2
<1>4. type \in Types(Factories) /\ (Len(a.stack) > 2 \/ a.step # 15)
  BY BuiltFacts
<1>5. a.stack # <<>>
  BY <1>1
<1> HIDE DEF s, type
<1>6. d \in Instance /\ Sound(d)
  <2>1. a.step \in 15..18 /\ a.stack[1].type = Start[a.step]
    BY <1>5, ResolvingFacts
  <2>2. a.step = 15 => a.stack[1].next - 1 = LifecyclesAt(a)
    BY <1>5, ResolvingFacts
  <2>3. s[1].type = Start[a.step] /\ (a.step = 15 => s[1].next - 1 = LifecyclesAt(a))
    BY <1>3, <2>1, <2>2
  <2> QED
    BY <1>2, <2>1, <2>3, StackSound
<1>7. d.pc = "start" /\ d.step = a.step /\ d.stack = s /\ d.services = a.services
  BY DEF Instance
<1>8. c = [d EXCEPT !.services = @ \cup {type}]
  BY DEF Instance
<1>9. a.step \in 15..18 /\ type \notin Lifecycles
  BY <1>5, ResolvingFacts DEF type
<1> HIDE DEF d
<1>10. c \in Instance /\ Sound(c)
  BY <1>4, <1>6, <1>7, <1>8, <1>9, ServiceSound
<1>11. c.pc = "start" /\ c.step = a.step /\ c.stack = s
  BY DEF Instance
<1> HIDE DEF c
<1>12. Top(c).next <= Len(Needs[Top(c).type])
  BY <1>2, <1>11 DEF Top
<1>13. Len(c.stack) > 1 \/ c.step # 15
  BY <1>1, <1>2, <1>4, <1>11
<1>14. Got(c) \in Instance /\ Sound(Got(c))
  BY <1>2, <1>10, <1>11, <1>12, <1>13, GotSound
<1> QED
  BY <1>14 DEF c, s, type

\* A lifecycle service is made, started and handed to initializeLifecycleServices.
LEMMA BuildLifecycleSound ==
  ASSUME NEW a \in Instance, Sound(a), a.pc = "start", Len(a.stack) > 1,
         Top(a).type \in Lifecycles
  PROVE  LET c == [a EXCEPT !.stack = Front(@), !.services = @ \cup {Top(a).type},
                            !.up = @ \cup {Top(a).type},
                            !.lifecycle = Append(@, Top(a).type)]
         IN Got(c) \in Instance /\ Sound(Got(c))
<1> DEFINE type == Top(a).type
           s == Front(a.stack)
           n == a.stack[1].next
           services == a.services \cup {type}
           up == a.up \cup {type}
           lifecycle == Append(a.lifecycle, type)
           c == [a EXCEPT !.stack = s, !.services = services, !.up = up,
                          !.lifecycle = lifecycle]
           b == Got(c)
<1>1. a.stack \in Seq(Frame) /\ Linked(a.stack) /\ a.stack # <<>>
  <2>1. a.stack \in Seq(Frame) /\ Linked(a.stack)
    BY DEF Instance, Sound
  <2> QED
    BY <2>1
<1>2. /\ a.step = 15 /\ Len(a.stack) = 2 /\ n \in 1..4 /\ type = LifecycleServices[n]
      /\ type \in Types(Factories) /\ type \in Lifecycles
  BY BuiltFacts
<1>3. /\ s \in Seq(Frame) /\ s # <<>> /\ Linked(s) /\ Len(s) = 1 /\ s[1] = a.stack[1]
      /\ Last(s).next <= Len(Needs[Last(s).type])
  <2>1. /\ Len(s) = Len(a.stack) - 1
        /\ \A k \in 1..(Len(a.stack) - 1) : s[k] = a.stack[k]
    BY <1>1, ParentFacts
  <2>2. Len(s) = 1 /\ s[1] = a.stack[1]
    BY <1>2, <2>1
  <2> QED
    BY <1>1, <2>2, ParentFacts
<1>4. Len(a.lifecycle) = n - 1 /\ a.lifecycle \in Seq(Lifecycles)
  BY <1>1, <1>2, ResolvingFacts DEF Instance
<1>5. /\ lifecycle \in Seq(Lifecycles) /\ Prefix(lifecycle, LifecycleServices)
      /\ Len(lifecycle) = n
  <2>1. Prefix(a.lifecycle, LifecycleServices) /\ Len(LifecycleServices) = 4
    BY LifecycleServicesAre DEF Sound, Stacked
  <2>2. /\ Len(a.lifecycle) + 1 = n /\ Len(a.lifecycle) < Len(LifecycleServices)
        /\ Len(LifecycleServices) \in Nat
        /\ LifecycleServices[Len(a.lifecycle) + 1] = type
    <3>1. \A l, m \in Int : m \in 1..4 /\ l = m - 1 => l + 1 = m /\ l < 4
      OBVIOUS
    <3>2. Len(a.lifecycle) \in Int /\ n \in Int
      BY <1>2, <1>4
    <3> HIDE DEF n
    <3>3. Len(a.lifecycle) + 1 = n /\ Len(a.lifecycle) < 4
      BY <1>2, <1>4, <3>1, <3>2
    <3> QED
      BY <1>2, <2>1, <3>3
  <2>3. LifecycleServices[Len(a.lifecycle) + 1] \in Lifecycles
    BY <1>2, <2>2
  <2> DEFINE r == Append(a.lifecycle, LifecycleServices[Len(a.lifecycle) + 1])
  <2>4. /\ r \in Seq(Lifecycles) /\ Prefix(r, LifecycleServices)
        /\ Len(r) = Len(a.lifecycle) + 1
    BY <1>4, <2>1, <2>2, <2>3, PrefixAppend
  <2>5. r = lifecycle
    BY <2>2
  <2> HIDE DEF r, lifecycle
  <2> QED
    BY <2>2, <2>4, <2>5
<1>6. /\ services \subseteq Values \cup Types(Factories)
      /\ up \subseteq Lifecycles \cup Opened \cup {"httpServers", "wsServer"}
  BY <1>2 DEF Instance
<1> HIDE DEF s, services, up, lifecycle, type, n
<1>7. c \in Instance
  BY <1>3, <1>5, <1>6 DEF Instance
<1>8. /\ c.pc = a.pc /\ c.step = a.step /\ c.stack = s /\ c.values = a.values
      /\ c.services = services /\ c.factories = a.factories
      /\ c.lifecycle = lifecycle /\ c.up = up /\ c.cleanup = a.cleanup
  BY DEF Instance
<1> HIDE DEF c
<1>9. /\ b \in Instance /\ b = [c EXCEPT !.stack = b.stack]
      /\ Len(b.stack) = 1 /\ b.stack[1].type = s[1].type /\ b.stack[1].next = s[1].next + 1
      /\ \A k \in 1..(Len(s) - 1) : b.stack[k] = s[k]
  BY <1>3, <1>7, <1>8, GotFacts
<1> HIDE DEF b
<1>10. /\ b.pc = a.pc /\ b.step = a.step /\ b.values = a.values
       /\ b.services = services /\ b.factories = a.factories
       /\ b.lifecycle = lifecycle /\ b.up = up /\ b.cleanup = a.cleanup
  BY <1>7, <1>8, <1>9 DEF Instance
<1>11. Linked(b.stack)
  <2>1. b.stack \in Seq(Frame)
    BY <1>9 DEF Instance
  <2> QED
    BY <1>3, <1>9, <2>1, LinkedGot
<1>12. Stocked(b)
  <2>1. a.stack[1].type = Start[a.step]
    BY <1>1, ResolvingFacts
  <2> QED
    BY <1>2, <1>3, <1>9, <1>10, <2>1 DEF Sound, Stocked, services
<1>13. \A k \in 1..4 : /\ LifecycleServices[k] \in up <=> k <= n
                       /\ LifecycleServices[k] \in services <=> k <= n
  <2> TAKE k \in 1..4
  <2>1. LifecycleServices[k] = type <=> k = n
    BY <1>2, LifecyclesBySlot
  <2>2. LifecycleServices[k] \in a.up <=> k <= n - 1
    BY <1>4 DEF Sound, Stacked
  <2>3. LifecycleServices[k] \in a.services <=> k <= n - 1
    BY <1>4 DEF Sound, Rising
  <2>4. k <= n <=> k <= n - 1 \/ k = n
    BY <1>2
  <2> QED
    BY <2>1, <2>2, <2>3, <2>4 DEF up, services
<1>14. /\ "wsServer" \notin up /\ Opened \subseteq up
       /\ "database" \in up => a.step > 10
       /\ "redis" \in up /\ "database" \in up /\ "nats" \in up
  <2>1. "wsServer" \notin a.up /\ "redis" \in a.up /\ "database" \in a.up /\ "nats" \in a.up
    BY <1>2 DEF Sound, Rising
  <2>2. type # "wsServer"
    BY <1>2, LifecyclesAre
  <2>3. a.step > 10
    BY <1>2
  <2>4. up = a.up \cup {type}
    BY DEF up
  <2> QED
    BY <2>1, <2>2, <2>3, <2>4 DEF Opened
<1>15. Stacked(b)
  BY <1>5, <1>10, <1>13, <1>14 DEF Sound, Stacked
<1>16. Rising(b)
  <2>1. Len(b.lifecycle) = LifecyclesAt(b)
    <3>1. b.stack # <<>>
      BY <1>9
    <3>2. b.stack[1].next = n + 1
      BY <1>3, <1>9 DEF n
    <3>3. n + 1 - 1 = n
      BY <1>2
    <3> QED
      BY <1>2, <1>5, <1>10, <3>1, <3>2, <3>3 DEF LifecyclesAt
  <2>2. Len(b.cleanup) = CleanupsAt(b)
    <3>1. Len(a.cleanup) = 5
      BY <1>2 DEF Sound, Rising, CleanupsAt
    <3> QED
      BY <1>2, <1>10, <3>1 DEF CleanupsAt
  <2> QED
    BY <1>2, <1>5, <1>10, <1>13, <1>14, <2>1, <2>2 DEF Rising
<1>17. Falling(b)
  BY <1>10 DEF Falling
<1>18. b \in Instance /\ Sound(b)
  BY <1>9, <1>11, <1>12, <1>15, <1>16, <1>17 DEF Sound
<1> QED
  BY <1>18 DEF b, c, s, services, up, lifecycle, type

\* An error leaves the factories up to the one that can do without, if any.
LEMMA RaisedSound ==
  ASSUME NEW a \in Instance, Sound(a), a.pc = "start", a.stack # <<>>,
         NEW end \in {"dead", "exited"}
  PROVE  Raised(a, end) \in Instance /\ Sound(Raised(a, end))
<1> DEFINE forgiving == {k \in DOMAIN a.stack : Forgiving(a.stack[k])}
           m == Max(forgiving)
           s == SubSeq(a.stack, 1, m)
           d == [a EXCEPT !.stack = s]
<1>1. /\ a.stack \in Seq(Frame) /\ Linked(a.stack) /\ a.step \in 15..18
      /\ Rank(a.stack[1].type) = 100 /\ a.stack[1].type = Start[a.step]
  BY ResolvingFacts
<1>2. CASE forgiving = {}
  BY <1>2, EndedSound DEF Raised
<1>3. CASE forgiving # {}
  <2>1. PICK k \in 1..Len(a.stack) : Forgiving(a.stack[k])
    BY <1>1, <1>3
  <2>2. \A j \in 1..Len(a.stack) : Forgiving(a.stack[j]) => j = k
    <3> SUFFICES ASSUME NEW j \in 1..Len(a.stack), Forgiving(a.stack[j]), j # k PROVE FALSE
      OBVIOUS
    <3>1. a.stack[j].type = a.stack[k].type
      BY <2>1 DEF Forgiving
    <3>2. j < k \/ k < j
      BY <1>1
    <3>3. Rank(a.stack[k].type) < Rank(a.stack[k].type) /\ Rank(a.stack[k].type) \in Nat
      BY <1>1, <3>1, <3>2, RankNat DEF Linked
    <3> QED
      BY <3>3
  <2>3. forgiving = {k}
    BY <1>1, <2>1, <2>2
  <2> HIDE DEF forgiving
  <2>4. m = k
    BY <2>3 DEF Max
  <2>5. k # 1
    <3>1. a.stack[k].type = "instance.Service"
      BY <2>1 DEF Forgiving
    <3> QED
      BY <1>1, <3>1, Rank4
  <2>6. k \in 0..Len(a.stack)
    OBVIOUS
  <2> HIDE DEF m
  <2>7. s \in Seq(Frame) /\ Linked(s) /\ Len(s) = k /\ \A j \in 1..k : s[j] = a.stack[j]
    BY <1>1, <2>4, <2>6, LinkedCut
  <2>8. s # <<>> /\ s[1] = a.stack[1] /\ Last(s) = a.stack[k] /\ k > 1
    BY <2>5, <2>7 DEF Last
  <2> HIDE DEF s
  <2>9. a.step = 15 => s[1].next - 1 = LifecyclesAt(a)
    BY <2>8, ResolvingFacts
  <2>10. d \in Instance /\ Sound(d)
    BY <1>1, <2>7, <2>8, <2>9, StackSound
  <2>11. d.pc = "start" /\ d.stack = s /\ d.step = a.step
    BY DEF Instance
  <2> HIDE DEF d
  <2>12. Top(d).next <= Len(Needs[Top(d).type])
    <3>1. Top(d) = a.stack[k]
      BY <2>8, <2>11 DEF Top
    <3> QED
      BY <2>1, <3>1 DEF Forgiving
  <2>13. Len(d.stack) > 1
    BY <2>7, <2>8, <2>11
  <2>14. Got(d) \in Instance /\ Sound(Got(d))
    BY <2>8, <2>10, <2>11, <2>12, <2>13, GotSound
  <2>15. Raised(a, end) = Got(d)
    BY <1>3 DEF Raised, d, s, m, forgiving
  <2> QED
    BY <2>14, <2>15
<1> QED
  BY <1>2, <1>3

LEMMA BuildFailsSound ==
  ASSUME NEW a \in Instance, Sound(a), a.pc = "start", a.stack # <<>>,
         Top(a).type \in Breakable
  PROVE  LET b == Raised([a EXCEPT !.stack = Front(@)], "dead")
         IN b \in Instance /\ Sound(b)
<1> DEFINE s == Front(a.stack)
           d == [a EXCEPT !.stack = s]
<1>1. /\ a.stack \in Seq(Frame) /\ Linked(a.stack) /\ a.step \in 15..18
      /\ a.stack[1].type = Start[a.step] /\ a.stack[1].type \in Types(Roots)
      /\ Len(a.stack) \in Nat \ {0} /\ Top(a) = a.stack[Len(a.stack)]
  BY ResolvingFacts DEF Top, Last
<1>2. Len(a.stack) > 1
  <2>1. \A type \in Breakable : type \notin Types(Roots)
    BY RootTypes DEF Breakable
  <2>2. Len(a.stack) # 1
    BY <1>1, <2>1
  <2>3. \A n \in Nat \ {0} : n # 1 => n > 1
    OBVIOUS
  <2>4. Len(a.stack) \in Nat \ {0}
    BY <1>1
  <2> QED
    BY <2>2, <2>3, <2>4
<1>3. /\ s \in Seq(Frame) /\ s # <<>> /\ Linked(s)
      /\ \A k \in 1..(Len(a.stack) - 1) : s[k] = a.stack[k]
  BY <1>1, <1>2, ParentFacts
<1>4. s[1] = a.stack[1]
  <2>1. 1 \in 1..(Len(a.stack) - 1)
    BY <1>1, <1>2
  <2> QED
    BY <1>3, <2>1
<1> HIDE DEF s
<1>5. a.step = 15 => s[1].next - 1 = LifecyclesAt(a)
  BY <1>4, ResolvingFacts
<1>6. d \in Instance /\ Sound(d)
  BY <1>1, <1>3, <1>4, <1>5, StackSound
<1>7. d.pc = "start" /\ d.stack = s
  BY DEF Instance
<1> HIDE DEF d
<1>8. Raised(d, "dead") \in Instance /\ Sound(Raised(d, "dead"))
  BY <1>3, <1>6, <1>7, RaisedSound
<1> QED
  BY <1>8 DEF d, s

\* A step has the services it asked for.
LEMMA ReadyFacts ==
  ASSUME NEW a \in Instance, Sound(a), a.pc = "start", Len(a.stack) = 1,
         a.stack # <<>>, HasAll(a)
  PROVE  a.step \in 15..18 /\ Len(a.lifecycle) = 4 /\ Len(a.cleanup) = 5
<1>1. a.step \in 15..18 /\ a.stack \in Seq(Frame) /\ Linked(a.stack)
  BY ResolvingFacts
<1>2. Top(a) = a.stack[1]
  BY DEF Top, Last
<1>3. Len(a.cleanup) = 5
  <2>1. CleanupsAt(a) = 5
    BY <1>1 DEF CleanupsAt
  <2> QED
    BY <2>1 DEF Sound, Rising
<1>4. CASE a.step = 15
  <2>1. a.stack[1].type = "lifecycle"
    BY <1>4, ResolvingFacts, StartIs
  <2>2. a.stack[1].next > 4 /\ a.stack[1].next <= 5 /\ a.stack[1].next \in Nat
    <3>1. a.stack[1].next > 4
      BY <1>2, <2>1, LifecycleNeeds, LifecycleServicesAre DEF HasAll
    <3>2. a.stack[1].next <= Len(Needs[a.stack[1].type]) + 1
      BY <1>1 DEF Linked
    <3>3. a.stack[1].next \in Nat
      BY <1>1, TopFacts
    <3> QED
      BY <2>1, <3>1, <3>2, <3>3, LifecycleNeeds, LifecycleServicesAre
  <2>3. Len(a.lifecycle) = a.stack[1].next - 1
    BY <1>4, ResolvingFacts
  <2> QED
    BY <1>1, <1>3, <2>2, <2>3
<1>5. CASE a.step # 15
  BY <1>1, <1>3, <1>5, ResolvingFacts
<1> QED
  BY <1>4, <1>5

LEMMA ReadyStep ==
  ASSUME NEW a \in Instance, Sound(a), a.pc = "start", a.step \in 15..18,
         Len(a.lifecycle) = 4, a.stack # <<>>,
         NEW b \in Instance, b.pc = "start", b.step = a.step + 1, b.stack = <<>>,
         b.values = a.values \cup Made(Start[a.step]),
         b.services = a.services, b.factories = a.factories, b.lifecycle = a.lifecycle,
         a.up \subseteq b.up, b.up \subseteq a.up \cup {"httpServers", "wsServer"},
         "wsServer" \in b.up => b.step = 19,
         Prefix(b.cleanup, CleanupOrder),
         Len(b.cleanup) = IF a.step = 18 THEN 6 ELSE 5
  PROVE  Sound(b)
<1>1. b.step \in 16..19 /\ a.step \in Nat
  OBVIOUS
<1>2. Linked(b.stack)
  BY LinkedEmpty
<1>3. Stocked(b)
  <2>1. \A k \in 1..Len(Start) : k < b.step => Made(Start[k]) \subseteq b.values
    <3> TAKE k \in 1..Len(Start)
    <3>1. CASE k = a.step
      BY <3>1
    <3>2. CASE k # a.step
      <4>1. k < b.step => k < a.step
        BY <1>1, <3>2, StartIs
      <4> QED
        BY <4>1 DEF Sound, Stocked
    <3> QED
      BY <3>1, <3>2
  <2>2. Values \subseteq b.services /\ b.factories = Types(Factories)
    BY ResolvingFacts
  <2> QED
    BY <1>1, <2>1, <2>2 DEF Stocked
<1>4. \A k \in 1..4 : /\ LifecycleServices[k] \in b.up <=> k <= Len(b.lifecycle)
                      /\ LifecycleServices[k] \in b.services <=> k <= Len(b.lifecycle)
  <2> TAKE k \in 1..4
  <2>1. LifecycleServices[k] \notin {"httpServers", "wsServer"}
    BY LifecyclesBySlot
  <2>2. LifecycleServices[k] \in a.up <=> k <= Len(a.lifecycle)
    BY DEF Sound, Stacked
  <2>3. LifecycleServices[k] \in a.services <=> k <= Len(a.lifecycle)
    BY DEF Sound, Rising
  <2> QED
    BY <2>1, <2>2, <2>3
<1>5. "redis" \in b.up /\ "database" \in b.up /\ "nats" \in b.up
  <2>1. "redis" \in a.up /\ "database" \in a.up /\ "nats" \in a.up
    BY DEF Sound, Rising
  <2> QED
    BY <2>1
<1>6. Stacked(b)
  BY <1>4, <1>5 DEF Sound, Stacked, Opened
<1>7. Rising(b)
  <2>1. Len(b.lifecycle) = LifecyclesAt(b)
    <3>1. b.step > 15 /\ ~(b.step < 15)
      BY <1>1
    <3>2. LifecyclesAt(b) = 4
      BY <3>1 DEF LifecyclesAt
    <3> QED
      BY <3>2
  <2>2. Len(b.cleanup) = CleanupsAt(b)
    <3>1. a.step = 18 <=> b.step = 19
      BY <1>1
    <3> QED
      BY <1>1, <3>1 DEF CleanupsAt
  <2> QED
    BY <1>1, <1>4, <1>5, <2>1, <2>2 DEF Rising
<1>8. Falling(b)
  BY DEF Falling
<1> QED
  BY <1>2, <1>3, <1>6, <1>7, <1>8 DEF Sound

LEMMA ReadySound ==
  ASSUME NEW a \in Instance, Sound(a), a.pc = "start", Len(a.stack) = 1,
         a.stack # <<>>, HasAll(a)
  PROVE  LET s == Start[a.step]
             b == [Done(a) EXCEPT !.stack = <<>>]
             served == [b EXCEPT !.up = @ \cup {s}]
             last == [b EXCEPT !.up = @ \cup {s}, !.cleanup = Append(@, s)]
         IN /\ s = "httpServers" => served \in Instance /\ Sound(served)
            /\ s = "wsServer" => last \in Instance /\ Sound(last)
            /\ s \notin {"httpServers", "wsServer"} => b \in Instance /\ Sound(b)
<1> DEFINE s == Start[a.step]
           b == [Done(a) EXCEPT !.stack = <<>>]
           served == [b EXCEPT !.up = @ \cup {s}]
           last == [b EXCEPT !.up = @ \cup {s}, !.cleanup = Append(@, s)]
           values == a.values \cup Made(Start[a.step])
<1>1. a.step \in 15..18 /\ Len(a.lifecycle) = 4 /\ Len(a.cleanup) = 5
  BY ReadyFacts
<1>2. a.step <= Len(Start) /\ a.step + 1 \in 1..19 /\ values \in SUBSET Values
  <2>1. a.step <= Len(Start)
    BY <1>1, StartIs
  <2> QED
    BY <2>1, AtFacts
<1>3. Done(a) = [a EXCEPT !.step = a.step + 1, !.values = values]
  BY <1>2, AtFacts
<1> HIDE DEF values
<1>4. Done(a) \in Instance
  BY <1>2, <1>3 DEF Instance
<1>5. b \in Instance
  BY <1>4, LinkedEmpty DEF Instance
<1>6. /\ b.pc = "start" /\ b.step = a.step + 1 /\ b.stack = <<>> /\ b.values = values
      /\ b.services = a.services /\ b.factories = a.factories
      /\ b.lifecycle = a.lifecycle /\ b.up = a.up /\ b.cleanup = a.cleanup
  BY <1>3 DEF Instance
<1> HIDE DEF b
<1>7. Prefix(a.cleanup, CleanupOrder) /\ "wsServer" \notin a.up
  <2>1. a.step # 19
    BY <1>1
  <2> QED
    BY <2>1 DEF Sound, Stacked, Rising
<1>8. ASSUME s \notin {"httpServers", "wsServer"} PROVE Sound(b)
  <2>1. a.step # 18
    BY <1>8, StartIs
  <2>2. Len(b.cleanup) = IF a.step = 18 THEN 6 ELSE 5
    BY <1>1, <1>6, <2>1
  <2> QED
    BY <1>1, <1>5, <1>6, <1>7, <2>2, ReadyStep DEF values
<1>9. ASSUME s = "httpServers" PROVE served \in Instance /\ Sound(served)
  <2> DEFINE up == a.up \cup {"httpServers"}
  <2>1. a.step # 18 /\ served = [b EXCEPT !.up = up]
    BY <1>6, <1>9, StartIs
  <2>2. up \in SUBSET (Lifecycles \cup Opened \cup {"httpServers", "wsServer"})
    BY DEF Instance
  <2>3. a.up \subseteq up /\ up \subseteq a.up \cup {"httpServers", "wsServer"} /\ "wsServer" \notin up
    BY <1>7
  <2> HIDE DEF served, up
  <2>4. served \in Instance
    BY <1>5, <2>1, <2>2 DEF Instance
  <2>5. /\ served.pc = "start" /\ served.step = a.step + 1 /\ served.stack = <<>>
        /\ served.values = values /\ served.services = a.services
        /\ served.factories = a.factories /\ served.lifecycle = a.lifecycle
        /\ served.up = up /\ served.cleanup = a.cleanup
    BY <1>5, <1>6, <2>1 DEF Instance
  <2>6. Len(served.cleanup) = IF a.step = 18 THEN 6 ELSE 5
    BY <1>1, <2>1, <2>5
  <2>7. Sound(served)
    BY <1>1, <1>7, <2>3, <2>4, <2>5, <2>6, ReadyStep DEF values
  <2> QED
    BY <2>4, <2>7
<1>10. ASSUME s = "wsServer" PROVE last \in Instance /\ Sound(last)
  <2> DEFINE up == a.up \cup {"wsServer"}
             c == Append(a.cleanup, "wsServer")
  <2>0. a.step = 18
    BY <1>1, <1>10, StepOf
  <2>1. last = [b EXCEPT !.up = up, !.cleanup = c]
    BY <1>6, <1>10
  <2>2. up \in SUBSET (Lifecycles \cup Opened \cup {"httpServers", "wsServer"})
    BY DEF Instance
  <2>3. a.up \subseteq up /\ up \subseteq a.up \cup {"httpServers", "wsServer"}
    OBVIOUS
  <2>4. c \in Seq(Hooks) /\ Prefix(c, CleanupOrder) /\ Len(c) = 6
    <3>1. Len(a.cleanup) + 1 = 6 /\ Len(a.cleanup) < 6
      BY <1>1
    <3> QED
      BY <1>1, <3>1, HookAppended, CleanupOrderIs
  <2> HIDE DEF last, up, c
  <2>5. last \in Instance
    BY <1>5, <2>1, <2>2, <2>4 DEF Instance
  <2>6. /\ last.pc = "start" /\ last.step = a.step + 1 /\ last.stack = <<>>
        /\ last.values = values /\ last.services = a.services
        /\ last.factories = a.factories /\ last.lifecycle = a.lifecycle
        /\ last.up = up /\ last.cleanup = c
    BY <1>5, <1>6, <2>1 DEF Instance
  <2>7. Len(last.cleanup) = IF a.step = 18 THEN 6 ELSE 5
    BY <2>0, <2>4, <2>6
  <2>8. last.step = 19
    BY <2>0, <2>6
  <2>9. Sound(last)
    BY <1>1, <2>3, <2>4, <2>5, <2>6, <2>7, <2>8, ReadyStep DEF values
  <2> QED
    BY <2>5, <2>9
<1> QED
  BY <1>5, <1>8, <1>9, <1>10 DEF b

-----------------------------------------------------------------------------
\* The shutdown.

\* The invariants of an instance that shuts down.
LEMMA FallingSound ==
  ASSUME NEW a \in Instance, Sound(a), a.pc \in {"start", "cleanup"},
         a.stack = <<>>, a.step = 19,
         NEW b \in Instance, b.pc = "cleanup", b.step = a.step, b.stack = a.stack,
         b.values = a.values, b.services = a.services, b.factories = a.factories,
         Stacked(b), Falling(b)
  PROVE  Sound(b)
<1>1. Linked(b.stack)
  BY LinkedEmpty
<1>2. Stocked(b)
  BY DEF Sound, Stocked
<1>3. Rising(b)
  BY DEF Rising
<1> QED
  BY <1>1, <1>2, <1>3 DEF Sound

LEMMA SignalSound ==
  ASSUME NEW a \in Instance, Sound(a), a.pc = "start", a.step > Len(Start)
  PROVE  LET b == [a EXCEPT !.pc = "cleanup"] IN b \in Instance /\ Sound(b)
<1> DEFINE b == [a EXCEPT !.pc = "cleanup"]
<1>1. a.step = 19
  BY StartIs DEF Instance
<1>2. a.stack = <<>>
  BY <1>1 DEF Sound, Stocked
<1>3. b \in Instance
  BY DEF Instance
<1>4. /\ b.pc = "cleanup" /\ b.step = a.step /\ b.stack = a.stack /\ b.values = a.values
      /\ b.services = a.services /\ b.factories = a.factories
      /\ b.lifecycle = a.lifecycle /\ b.up = a.up /\ b.cleanup = a.cleanup
  BY DEF Instance
<1> HIDE DEF b
<1>5. Stacked(b)
  BY <1>4 DEF Sound, Stacked
<1>6. Len(a.cleanup) = 6 /\ Len(a.lifecycle) = 4
  <2>1. LifecyclesAt(a) = 4 /\ CleanupsAt(a) = 6
    BY <1>1 DEF LifecyclesAt, CleanupsAt
  <2> QED
    BY <2>1 DEF Sound, Rising
<1>7. Falling(b)
  BY <1>1, <1>2, <1>4, <1>6 DEF Falling
<1> QED
  BY <1>1, <1>2, <1>3, <1>4, <1>5, <1>7, FallingSound DEF b

\* The last handler, and those before it.
LEMMA PopFacts ==
  ASSUME NEW a \in Instance, Sound(a), a.cleanup # <<>>
  PROVE  /\ Front(a.cleanup) \in Seq(Hooks) /\ Prefix(Front(a.cleanup), CleanupOrder)
         /\ Len(Front(a.cleanup)) = Len(a.cleanup) - 1
         /\ Last(a.cleanup) = CleanupOrder[Len(a.cleanup)] /\ Len(a.cleanup) \in 1..6
<1>1. a.cleanup \in Seq(Hooks) /\ Prefix(a.cleanup, CleanupOrder)
  BY DEF Instance, Sound, Stacked
<1>2. Len(CleanupOrder) = 6
  BY DEF CleanupOrder
<1>3. Len(CleanupOrder) \in Nat
  BY <1>2
<1>4. /\ Front(a.cleanup) \in Seq(Hooks) /\ Prefix(Front(a.cleanup), CleanupOrder)
      /\ Len(Front(a.cleanup)) = Len(a.cleanup) - 1
      /\ Last(a.cleanup) = CleanupOrder[Len(a.cleanup)]
      /\ Len(a.cleanup) \in 1..Len(CleanupOrder)
  BY <1>1, <1>3, PrefixFront
<1> QED
  BY <1>2, <1>4

\* A handler runs; after the container's nothing is left that uses what it closes.
LEMMA CleanupSound ==
  ASSUME NEW a \in Instance, Sound(a), a.pc = "cleanup",
         a.cleanup # <<>>, Last(a.cleanup) # "container"
  PROVE  LET b == [a EXCEPT !.up = @ \ {Last(a.cleanup)}, !.cleanup = Front(@)]
         IN b \in Instance /\ Sound(b)
<1> DEFINE h == Last(a.cleanup)
           n == Len(a.cleanup)
           up == a.up \ {h}
           c == Front(a.cleanup)
           b == [a EXCEPT !.up = up, !.cleanup = c]
<1>1. /\ c \in Seq(Hooks) /\ Prefix(c, CleanupOrder) /\ Len(c) = n - 1
      /\ h = CleanupOrder[n] /\ n \in 1..6
  BY PopFacts
<1> HIDE DEF c, n
<1>2. \/ n = 6 /\ h = "wsServer"
      \/ n \in 1..4 /\ h \in {"logger", "redis", "database", "nats"}
  <2>1. n # 5
    BY <1>1, CleanupOrderIs
  <2>2. n = 6 \/ n = 1 \/ n = 2 \/ n = 3 \/ n = 4
    BY <1>1, <2>1
  <2> QED
    BY <1>1, <2>2, CleanupOrderIs
<1> HIDE DEF h
<1>3. b \in Instance
  BY <1>1 DEF Instance
<1>4. /\ b.pc = "cleanup" /\ b.step = a.step /\ b.stack = a.stack /\ b.values = a.values
      /\ b.services = a.services /\ b.factories = a.factories
      /\ b.lifecycle = a.lifecycle /\ b.up = up /\ b.cleanup = c
  BY DEF Instance
<1> HIDE DEF b, up
<1>0. a.step = 19 /\ a.stack = <<>>
  BY DEF Sound, Falling
<1>5. /\ n < 5 => Len(a.lifecycle) = 0
      /\ "wsServer" \in a.up => n = 6
      /\ n = 6 => Len(a.lifecycle) = 4
  BY DEF Sound, Falling, n
<1>6. \A k \in 1..4 : LifecycleServices[k] \in up <=> k <= Len(a.lifecycle)
  <2> TAKE k \in 1..4
  <2>1. LifecycleServices[k] # h
    BY <1>2, LifecyclesAre, LifecyclesBySlot
  <2>2. LifecycleServices[k] \in a.up <=> k <= Len(a.lifecycle)
    BY DEF Sound, Stacked
  <2> QED
    BY <2>1, <2>2 DEF up
<1>7. Len(a.lifecycle) > 0 => Opened \subseteq up
  <2>1. CASE n = 6
    <3>1. h = "wsServer"
      BY <1>2, <2>1
    <3>2. Len(a.lifecycle) > 0 => Opened \subseteq a.up
      BY DEF Sound, Stacked
    <3> QED
      BY <3>1, <3>2 DEF up, Opened
  <2>2. CASE n \in 1..4
    <3>1. Len(a.lifecycle) = 0
      BY <1>5, <2>2
    <3> QED
      BY <3>1
  <2> QED
    BY <1>2, <2>1, <2>2
<1>8. "wsServer" \notin up
  <2>1. CASE n = 6
    <3>1. h = "wsServer"
      BY <1>2, <2>1
    <3> QED
      BY <3>1 DEF up
  <2>2. CASE n # 6
    BY <1>5, <2>2 DEF up
  <2> QED
    BY <2>1, <2>2
<1>9. Stacked(b)
  BY <1>1, <1>4, <1>6, <1>7, <1>8 DEF Sound, Stacked
<1>10. Falling(b)
  <2>1. Len(c) # 6 /\ (Len(c) < 5 => n < 5 \/ n = 5)
    BY <1>1
  <2>2. n # 5
    BY <1>2
  <2> QED
    BY <1>0, <1>1, <1>2, <1>4, <1>5, <1>8, <2>1, <2>2 DEF Falling
<1>11. Sound(b)
  BY <1>0, <1>3, <1>4, <1>9, <1>10, FallingSound
<1> QED
  BY <1>3, <1>11 DEF b, up, h, c

\* A handler fails: what is left is not run, and no lifecycle service is left.
LEMMA CleanupFailsSound ==
  ASSUME NEW a \in Instance, Sound(a), a.pc = "cleanup", a.cleanup # <<>>,
         Last(a.cleanup) \in {"redis", "database"}
  PROVE  LET b == [a EXCEPT !.cleanup = <<>>] IN b \in Instance /\ Sound(b)
<1> DEFINE b == [a EXCEPT !.cleanup = <<>>]
           n == Len(a.cleanup)
<1>1. Last(a.cleanup) = CleanupOrder[n] /\ n \in 1..6
  BY PopFacts
<1> HIDE DEF n
<1>2. n = 2 \/ n = 3
  <2>1. n = 1 \/ n = 2 \/ n = 3 \/ n = 4 \/ n = 5 \/ n = 6
    BY <1>1
  <2> QED
    BY <1>1, <2>1, CleanupOrderIs
<1>3. /\ a.step = 19 /\ a.stack = <<>> /\ Len(a.lifecycle) = 0 /\ "wsServer" \notin a.up
  <2>1. n < 5 /\ n # 6
    BY <1>2
  <2> QED
    BY <2>1 DEF Sound, Falling, n
<1>4. b \in Instance
  <2>1. <<>> \in Seq(Hooks)
    OBVIOUS
  <2> QED
    BY <2>1 DEF Instance
<1>5. /\ b.pc = "cleanup" /\ b.step = a.step /\ b.stack = a.stack /\ b.values = a.values
      /\ b.services = a.services /\ b.factories = a.factories
      /\ b.lifecycle = a.lifecycle /\ b.up = a.up /\ b.cleanup = <<>>
  BY DEF Instance
<1> HIDE DEF b
<1>6. Stacked(b)
  <2>1. Prefix(<<>>, CleanupOrder)
    BY PrefixEmpty, CleanupOrderIs
  <2> QED
    BY <1>5, <2>1 DEF Sound, Stacked
<1>7. Falling(b)
  BY <1>3, <1>5 DEF Falling
<1> QED
  BY <1>3, <1>4, <1>5, <1>6, <1>7, FallingSound DEF b

\* The container's handler runs after the WebSocket server's.
LEMMA ContainerFacts ==
  ASSUME NEW a \in Instance, Sound(a), a.pc = "cleanup", a.cleanup # <<>>,
         Last(a.cleanup) = "container"
  PROVE  Len(a.cleanup) = 5 /\ a.step = 19 /\ a.stack = <<>> /\ "wsServer" \notin a.up
<1> DEFINE n == Len(a.cleanup)
<1>1. Last(a.cleanup) = CleanupOrder[n] /\ n \in 1..6
  BY PopFacts
<1> HIDE DEF n
<1>2. n = 5
  <2>1. n = 1 \/ n = 2 \/ n = 3 \/ n = 4 \/ n = 5 \/ n = 6
    BY <1>1
  <2> QED
    BY <1>1, <2>1, CleanupOrderIs
<1> QED
  BY <1>2 DEF Sound, Falling, n

\* The last of the lifecycle services that are up.
LEMMA LastUp ==
  ASSUME NEW a \in Instance, Sound(a), a.lifecycle # <<>>
  PROVE  LET n == Len(a.lifecycle)
             s == Front(a.lifecycle)
         IN /\ n \in 1..4 /\ Last(a.lifecycle) = LifecycleServices[n]
            /\ s \in Seq(Lifecycles) /\ Prefix(s, LifecycleServices) /\ Len(s) = n - 1
<1>1. a.lifecycle \in Seq(Lifecycles) /\ Prefix(a.lifecycle, LifecycleServices)
  BY DEF Instance, Sound, Stacked
<1>2. Len(LifecycleServices) = 4
  BY LifecycleServicesAre
<1>3. Len(LifecycleServices) \in Nat
  BY <1>2
<1>4. /\ Front(a.lifecycle) \in Seq(Lifecycles)
      /\ Prefix(Front(a.lifecycle), LifecycleServices)
      /\ Len(Front(a.lifecycle)) = Len(a.lifecycle) - 1
      /\ Last(a.lifecycle) = LifecycleServices[Len(a.lifecycle)]
      /\ Len(a.lifecycle) \in 1..Len(LifecycleServices)
  BY <1>1, <1>3, PrefixFront
<1> QED
  BY <1>2, <1>4

\* It is stopped, with or without an error.
LEMMA StopSound ==
  ASSUME NEW a \in Instance, Sound(a), a.pc = "cleanup", a.cleanup # <<>>,
         Last(a.cleanup) = "container", a.lifecycle # <<>>,
         NEW b \in Instance, b.pc = "cleanup", b.step = a.step, b.stack = a.stack,
         b.values = a.values, b.services = a.services, b.factories = a.factories,
         b.cleanup = a.cleanup, b.lifecycle = Front(a.lifecycle),
         b.up = a.up \ {Last(a.lifecycle)}
  PROVE  Sound(b)
<1> DEFINE n == Len(a.lifecycle)
           s == Front(a.lifecycle)
           h == Last(a.lifecycle)
<1>1. /\ n \in 1..4 /\ h = LifecycleServices[n]
      /\ s \in Seq(Lifecycles) /\ Prefix(s, LifecycleServices) /\ Len(s) = n - 1
  BY LastUp
<1>2. Len(a.cleanup) = 5 /\ a.step = 19 /\ a.stack = <<>> /\ "wsServer" \notin a.up
  BY ContainerFacts
<1>3. b.lifecycle = s /\ b.up = a.up \ {h}
  OBVIOUS
<1>4. /\ \A k \in 1..4 : LifecycleServices[k] \in a.up <=> k <= n
      /\ n > 0 => Opened \subseteq a.up
      /\ Prefix(a.cleanup, CleanupOrder)
  BY DEF Sound, Stacked
<1> HIDE DEF n, s, h
<1>5. \A k \in 1..4 : LifecycleServices[k] \in b.up <=> k <= n - 1
  <2> TAKE k \in 1..4
  <2>1. LifecycleServices[k] = h <=> k = n
    BY <1>1, LifecyclesBySlot
  <2>2. k <= n - 1 <=> k <= n /\ k # n
    BY <1>1
  <2> QED
    BY <1>3, <1>4, <2>1, <2>2
<1>6. Opened \subseteq b.up
  <2>1. h \notin Opened
    BY <1>1, LifecyclesBySlot
  <2>2. n > 0
    BY <1>1
  <2> QED
    BY <1>3, <1>4, <2>1, <2>2
<1>7. "wsServer" \notin b.up
  BY <1>2, <1>3
<1>8. Stacked(b)
  BY <1>1, <1>3, <1>4, <1>5, <1>6, <1>7 DEF Stacked
<1>9. Falling(b)
  BY <1>2, <1>7 DEF Falling
<1> QED
  BY <1>2, <1>8, <1>9, FallingSound

\* None is left: the other handlers run, or the run ends.
LEMMA ContainerStoppedSound ==
  ASSUME NEW a \in Instance, Sound(a), a.pc = "cleanup", a.cleanup # <<>>,
         Last(a.cleanup) = "container", a.lifecycle = <<>>,
         NEW c \in {<<>>, Front(a.cleanup)}
  PROVE  LET b == [a EXCEPT !.cleanup = c] IN b \in Instance /\ Sound(b)
<1> DEFINE b == [a EXCEPT !.cleanup = c]
<1>1. Len(a.cleanup) = 5 /\ a.step = 19 /\ a.stack = <<>> /\ "wsServer" \notin a.up
  BY ContainerFacts
<1>2. c \in Seq(Hooks) /\ Prefix(c, CleanupOrder) /\ Len(c) # 6
  <2>1. CASE c = <<>>
    <3>1. <<>> \in Seq(Hooks) /\ Len(<<>>) # 6
      OBVIOUS
    <3>2. Prefix(<<>>, CleanupOrder)
      BY PrefixEmpty, CleanupOrderIs
    <3> QED
      BY <2>1, <3>1, <3>2
  <2>2. CASE c = Front(a.cleanup)
    <3>1. c \in Seq(Hooks) /\ Prefix(c, CleanupOrder) /\ Len(c) = Len(a.cleanup) - 1
      BY <2>2, PopFacts
    <3> QED
      BY <1>1, <3>1
  <2> QED
    BY <2>1, <2>2
<1>3. b \in Instance
  BY <1>2 DEF Instance
<1>4. /\ b.pc = "cleanup" /\ b.step = a.step /\ b.stack = a.stack /\ b.values = a.values
      /\ b.services = a.services /\ b.factories = a.factories
      /\ b.lifecycle = a.lifecycle /\ b.up = a.up /\ b.cleanup = c
  BY DEF Instance
<1> HIDE DEF b
<1>5. Stacked(b)
  BY <1>2, <1>4 DEF Sound, Stacked
<1>6. Falling(b)
  BY <1>1, <1>2, <1>4 DEF Falling
<1> QED
  BY <1>1, <1>3, <1>4, <1>5, <1>6, FallingSound DEF b

-----------------------------------------------------------------------------
\* What a running part uses.

\* One step down the tables does not raise the rank.
LEMMA NearLow ==
  ASSUME NEW S, NEW r \in 0..13, \A t \in S : Rank(t) <= r
  PROVE  \A t \in Near(S) : Rank(t) <= r
<1> TAKE t \in Near(S)
<1>1. CASE t \in S
  BY <1>1
<1>2. CASE t \notin S
  <2>1. PICK type \in S \cap DOMAIN Needs : t \in Range(Needs[type])
    BY <1>2 DEF Near
  <2>2. Rank(type) <= r /\ Rank(type) \in Nat
    BY RankNat
  <2>3. type \in Asked
    <3>1. type \in Types(Factories \cup Roots)
      BY DEF Needs
    <3>2. Rank(NeverAsked) = 100
      BY DEF NeverAsked, Rank
    <3>3. type # NeverAsked
      BY <2>2, <3>2
    <3> QED
      BY <3>1, <3>3 DEF Asked
  <2>4. /\ DOMAIN Needs[type] = 1..Len(Needs[type])
        /\ \A n \in 1..Len(Needs[type]) : Rank(Needs[type][n]) < Rank(type)
    BY <2>3, NeedsFit
  <2>5. PICK n \in DOMAIN Needs[type] : t = Needs[type][n]
    BY <2>1 DEF Range
  <2>6. Rank(t) < Rank(type)
    BY <2>4, <2>5
  <2>7. Rank(t) \in Nat
    BY RankNat
  <2> QED
    BY <2>2, <2>6, <2>7
<1> QED
  BY <1>1, <1>2

\* Nor do sixteen.
LEMMA BelowLow ==
  ASSUME NEW type, NEW r \in 0..13, Rank(type) <= r
  PROVE  \A t \in Below(type) : Rank(t) <= r
<1> DEFINE Low(S) == \A t \in S : Rank(t) <= r
           two(S) == Near(Near(S))
           four(S) == two(two(S))
<1>1. \A S : Low(S) => Low(Near(S))
  BY NearLow
<1> HIDE DEF Low
<1>2. \A S : Low(S) => Low(two(S))
  BY <1>1
<1> HIDE DEF two
<1>3. \A S : Low(S) => Low(four(S))
  BY <1>2
<1> HIDE DEF four
<1>4. Low({type})
  BY DEF Low
<1>5. Low(four(four(four(four({type})))))
  BY <1>3, <1>4
<1>6. Below(type) = four(four(four(four({type}))))
  BY DEF Below, four, two
<1> QED
  BY <1>5, <1>6 DEF Low

LEMMA UsesDomain == DOMAIN Uses = {LifecycleServices[k] : k \in 1..4} \cup {"wsServer"}
BY LifecyclesBySlot DEF Uses

\* A lifecycle service uses clients, and lifecycle services started before it.
LEMMA UsesOfLifecycle ==
  ASSUME NEW k \in 1..4
  PROVE  Uses[LifecycleServices[k]] \subseteq
           Opened \cup {LifecycleServices[j] : j \in 1..(k - 1)}
<1> DEFINE x == LifecycleServices[k]
           r == Rank(x)
<1>1. /\ k = 1 => r = 4
      /\ k = 2 => r = 6
      /\ k = 3 => r = 8
      /\ k = 4 => r = 13
  BY LifecycleServicesAre, Rank4, Rank6, Rank8, Rank13
<1>2. k = 1 \/ k = 2 \/ k = 3 \/ k = 4
  OBVIOUS
<1>3. r \in 0..13
  BY <1>1, <1>2
<1>4. \A t \in Below(x) : Rank(t) <= r
  BY <1>3, BelowLow
<1>5. Uses[x] = {p[2] : p \in {q \in StoppedBy : q[1] \in Below(x)}} \ {x}
  BY LifecyclesBySlot DEF Uses
<1> SUFFICES ASSUME NEW u \in Uses[x]
             PROVE  u \in Opened \cup {LifecycleServices[j] : j \in 1..(k - 1)}
  OBVIOUS
<1>6. PICK p \in StoppedBy : p[1] \in Below(x) /\ u = p[2] /\ u # x
  BY <1>5
<1>7. Rank(p[1]) <= r
  BY <1>4, <1>6
<1> HIDE DEF r
<1>8. CASE u \in Opened
  BY <1>8
<1>9. CASE p[1] = "event.Service" /\ u = "*EventBusLifecycle"
  <2>1. Rank(p[1]) = 5 /\ u = LifecycleServices[2]
    BY <1>9, Rank5, LifecycleServicesAre
  <2>2. k # 1 /\ k # 2
    BY <1>1, <1>6, <1>7, <2>1
  <2> QED
    BY <2>1, <2>2
<1>10. CASE p[1] = "*snapshot.Service" /\ u = "*TelemetrySnapshotServiceLifecycle"
  <2>1. Rank(p[1]) = 7 /\ u = LifecycleServices[3]
    BY <1>10, Rank7, LifecycleServicesAre
  <2>2. k # 1 /\ k # 2 /\ k # 3
    BY <1>1, <1>6, <1>7, <2>1
  <2> QED
    BY <2>1, <2>2
<1>11. CASE p[1] \in {"runtime.Service", "*schedule.Service"} /\ u = "*QueueRuntimeLifecycle"
  <2>1. Rank(p[1]) = 12 /\ u = LifecycleServices[4]
    BY <1>11, Rank12, LifecycleServicesAre
  <2>2. k # 1 /\ k # 2 /\ k # 3 /\ k # 4
    BY <1>1, <1>6, <1>7, <2>1
  <2> QED
    BY <1>2, <2>2
<1> QED
  BY <1>6, <1>8, <1>9, <1>10, <1>11 DEF StoppedBy, Opened

LEMMA UsesOfServer == Uses["wsServer"] \subseteq Opened \cup Lifecycles
<1>1. Uses["wsServer"] \subseteq {p[2] : p \in StoppedBy}
  BY DEF Uses
<1>2. {p[2] : p \in StoppedBy} \subseteq Opened \cup Lifecycles
  BY LifecyclesAre DEF StoppedBy, Opened
<1> QED
  BY <1>1, <1>2

\* So the order of the stacks is one in which everything can be stopped.
LEMMA SoundStops ==
  ASSUME NEW a \in Instance, Sound(a)
  PROVE  /\ \A x \in a.up \cap DOMAIN Uses : Uses[x] \subseteq a.up
         /\ a.pc = "cleanup" /\ a.cleanup = <<>> =>
              a.up \cap (Lifecycles \cup {"wsServer"}) = {}
<1> DEFINE n == Len(a.lifecycle)
<1>1. /\ \A k \in 1..4 : LifecycleServices[k] \in a.up <=> k <= n
      /\ n > 0 => Opened \subseteq a.up
      /\ "wsServer" \in a.up => n = 4
  BY DEF Sound, Stacked
<1>2. n \in Nat
  BY DEF Instance
<1>3. a.pc = "cleanup" /\ a.cleanup = <<>> => n = 0 /\ "wsServer" \notin a.up
  BY DEF Sound, Falling
<1> HIDE DEF n
<1>4. ASSUME NEW k \in 1..4, LifecycleServices[k] \in a.up
      PROVE  Uses[LifecycleServices[k]] \subseteq a.up
  <2>1. k <= n /\ n > 0
    BY <1>1, <1>2, <1>4
  <2>2. \A j \in 1..(k - 1) : j \in 1..4 /\ j <= n
    BY <1>2, <2>1
  <2>3. {LifecycleServices[j] : j \in 1..(k - 1)} \subseteq a.up
    BY <1>1, <2>2
  <2> QED
    BY <1>1, <2>1, <2>3, UsesOfLifecycle
<1>5. ASSUME "wsServer" \in a.up
      PROVE  Uses["wsServer"] \subseteq a.up
  <2>1. n = 4
    BY <1>1, <1>5
  <2>2. \A k \in 1..4 : LifecycleServices[k] \in a.up
    BY <1>1, <2>1
  <2>3. Lifecycles \subseteq a.up /\ Opened \subseteq a.up
    BY <1>1, <2>1, <2>2, LifecyclesBySlot
  <2> QED
    BY <2>3, UsesOfServer
<1>6. \A x \in a.up \cap DOMAIN Uses : Uses[x] \subseteq a.up
  BY <1>4, <1>5, UsesDomain
<1>7. ASSUME a.pc = "cleanup", a.cleanup = <<>>
      PROVE  a.up \cap (Lifecycles \cup {"wsServer"}) = {}
  <2>1. \A k \in 1..4 : LifecycleServices[k] \notin a.up
    BY <1>1, <1>3, <1>7
  <2> QED
    BY <1>3, <1>7, <2>1, LifecyclesBySlot
<1> QED
  BY <1>6, <1>7

-----------------------------------------------------------------------------
\* A step of one instance keeps the invariant.

\* Of an instance that is not past its migrations: it stays so, and is the one
\* that migrates, or one that waits, only if it was.
Kept(a, b) ==
  \/ Past(a)
  \/ /\ b.pc = "migrating" <=> a.pc = "migrating"
     /\ b.pc = "waiting" => a.pc = "waiting"
     /\ ~Past(b)

LEMMA InstanceOf ==
  ASSUME Inv, NEW i \in Instances
  PROVE  \E a \in Instance : a = app[i] /\ Sound(a)
BY DEF Inv, TypeOK

LEMMA AppStep ==
  ASSUME Inv, NEW i \in Instances, NEW b \in Instance, Sound(b), Becomes(i, b)
  PROVE  /\ app' \in [Instances -> Instance] /\ app'[i] = b
         /\ \A j \in Instances : j # i => app'[j] = app[j]
         /\ \A j \in Instances : Sound(app'[j])
<1>1. app \in [Instances -> Instance] /\ \A j \in Instances : Sound(app[j])
  BY DEF Inv, TypeOK
<1>2. /\ app' \in [Instances -> Instance] /\ app'[i] = b
      /\ \A j \in Instances : j # i => app'[j] = app[j]
  BY <1>1 DEF Becomes
<1>3. ASSUME NEW j \in Instances
      PROVE  Sound(app'[j])
  <2>1. CASE j = i
    BY <1>2, <2>1
  <2>2. CASE j # i
    BY <1>1, <1>2, <2>2
  <2> QED
    BY <2>1, <2>2
<1> QED
  BY <1>2, <1>3

LEMMA InvNext ==
  ASSUME app' \in [Instances -> Instance], \A j \in Instances : Sound(app'[j]),
         lock' \in Instances \cup {None}, applied' \in 0..Versions, faults' \in Nat,
         broken' \in BOOLEAN,
         ~broken' /\ applied' < Versions =>
           \A j \in Instances : /\ lock' = j <=> app'[j].pc = "migrating"
                                /\ app'[j].pc = "waiting" => lock' # None
                                /\ ~Past(app'[j])
  PROVE  Inv'
<1>1. TypeOK'
  BY DEF TypeOK
<1>2. Migrating'
  BY DEF Migrating
<1> QED
  BY <1>1, <1>2 DEF Inv

\* The lock and the schema stay as they are.
LEMMA KeptStep ==
  ASSUME Inv, NEW i \in Instances, NEW b \in Instance, Sound(b), Becomes(i, b),
         UNCHANGED shared, faults' \in Nat,
         ~broken /\ applied < Versions => Kept(app[i], b)
  PROVE  Inv'
<1>1. /\ app' \in [Instances -> Instance] /\ app'[i] = b
      /\ \A j \in Instances : j # i => app'[j] = app[j]
      /\ \A j \in Instances : Sound(app'[j])
  BY AppStep
<1>2. /\ lock' = lock /\ applied' = applied /\ broken' = broken
      /\ lock \in Instances \cup {None} /\ applied \in 0..Versions /\ broken \in BOOLEAN
  BY DEF shared, Inv, TypeOK
<1>3. ASSUME ~broken, applied < Versions, NEW j \in Instances
      PROVE  /\ lock = j <=> app'[j].pc = "migrating"
             /\ app'[j].pc = "waiting" => lock # None
             /\ ~Past(app'[j])
  <2>1. \A k \in Instances : /\ lock = k <=> app[k].pc = "migrating"
                             /\ app[k].pc = "waiting" => lock # None
                             /\ ~Past(app[k])
    BY <1>3 DEF Inv, Migrating
  <2>2. CASE j = i
    <3>1. /\ b.pc = "migrating" <=> app[i].pc = "migrating"
          /\ b.pc = "waiting" => app[i].pc = "waiting"
          /\ ~Past(b)
      BY <1>3, <2>1 DEF Kept
    <3> QED
      BY <1>1, <2>1, <2>2, <3>1
  <2>3. CASE j # i
    BY <1>1, <2>1, <2>3
  <2> QED
    BY <2>2, <2>3
<1> QED
  BY <1>1, <1>2, <1>3, InvNext

\* A step past the migrations: they are complete, or broken.
LEMMA PastStep ==
  ASSUME Inv, NEW i \in Instances, NEW b \in Instance, Sound(b), Becomes(i, b),
         UNCHANGED shared, faults' \in Nat, app[i].pc = "start", app[i].step > 11
  PROVE  Inv'
<1>1. Kept(app[i], b)
  BY DEF Kept, Past
<1> QED
  BY <1>1, KeptStep

LEMMA FaultsNat == Inv => faults \in Nat /\ faults + 1 \in Nat
<1> SUFFICES ASSUME Inv PROVE faults \in Nat /\ faults + 1 \in Nat
  OBVIOUS
<1>1. faults \in Nat
  BY DEF Inv, TypeOK
<1> QED
  BY <1>1

LEMMA DoneFacts ==
  ASSUME NEW a \in Instance, a.pc = "start", a.step <= Len(Start), NEW up, NEW c
  PROVE  LET b == [Done(a) EXCEPT !.up = up, !.cleanup = c]
             d == [Done(a) EXCEPT !.cleanup = c]
         IN b.pc = "start" /\ b.step = a.step + 1 /\ d.pc = "start" /\ d.step = a.step + 1
BY AtFacts DEF Instance

LEMMA AtIs ==
  ASSUME NEW i, NEW s, At(i, s)
  PROVE  app[i].pc = "start" /\ app[i].step <= Len(Start) /\ Start[app[i].step] = s
BY DEF At, Starting

-----------------------------------------------------------------------------
\* The steps up to the migrations.

LEMMA SetupValueStep ==
  ASSUME Inv, NEW i \in Instances, SetupValue(i)
  PROVE  Inv'
<1>1. PICK a \in Instance : a = app[i] /\ Sound(a)
  BY InstanceOf
<1>2. PICK s \in {"brand", "config", "logger", "timezone", "id", "instanceID",
                  "apikeyParser", "token", "permission"} :
        /\ At(i, s)
        /\ Becomes(i, [Done(app[i]) EXCEPT !.cleanup = IF s = "logger" THEN Append(@, s) ELSE @])
        /\ UNCHANGED <<shared, faults>>
  BY DEF SetupValue
<1>3. a.pc = "start" /\ a.step <= Len(Start) /\ Start[a.step] = s
  BY <1>1, <1>2, AtIs
<1>4. PICK b : b = [Done(a) EXCEPT !.cleanup =
                      IF Start[a.step] = "logger" THEN Append(@, Start[a.step]) ELSE @]
  OBVIOUS
<1>5. b \in Instance /\ Sound(b)
  BY <1>1, <1>2, <1>3, <1>4, ValueSound
<1>6. Becomes(i, b)
  BY <1>1, <1>2, <1>3, <1>4
<1>7. Kept(a, b)
  <2>1. b.pc = "start" /\ b.step = a.step + 1
    BY <1>3, <1>4, DoneFacts
  <2>2. a.step # 11 /\ a.step \in 1..18
    <3>1. a.step \in 1..18
      BY <1>3, AtFacts
    <3>2. a.step # 11
      BY <1>2, <1>3, <3>1, StepOf
    <3> QED
      BY <3>1, <3>2
  <2> QED
    BY <1>3, <2>1, <2>2 DEF Kept, Past
<1>8. UNCHANGED shared /\ faults' \in Nat
  BY <1>2, FaultsNat
<1> QED
  BY <1>1, <1>5, <1>6, <1>7, <1>8, KeptStep

LEMMA ConnectStep ==
  ASSUME Inv, NEW i \in Instances, Connect(i)
  PROVE  Inv'
<1>1. PICK a \in Instance : a = app[i] /\ Sound(a)
  BY InstanceOf
<1>2. UNCHANGED shared /\ faults' \in Nat
  BY FaultsNat DEF Connect
<1>3. ASSUME At(i, "redis"),
             Becomes(i, [Done(app[i]) EXCEPT !.up = @ \cup {"redis"},
                                             !.cleanup = Append(@, "redis")])
      PROVE  Inv'
  <2>1. a.pc = "start" /\ a.step <= Len(Start) /\ Start[a.step] = "redis"
    BY <1>1, <1>3, AtIs
  <2>2. PICK b : b = [Done(a) EXCEPT !.up = @ \cup {"redis"}, !.cleanup = Append(@, "redis")]
    OBVIOUS
  <2>3. b \in Instance /\ Sound(b)
    BY <1>1, <2>1, <2>2, RedisSound
  <2>4. Becomes(i, b)
    BY <1>1, <1>3, <2>2
  <2>5. b.pc = "start" /\ b.step = a.step + 1
    BY <2>1, <2>2, DoneFacts
  <2>6. a.step = 7
    BY <2>1, AtFacts, StepOf
  <2>7. Kept(a, b)
    BY <2>1, <2>5, <2>6 DEF Kept, Past
  <2> QED
    BY <1>1, <1>2, <2>3, <2>4, <2>7, KeptStep
<1>4. ASSUME At(i, "nats"),
             Becomes(i, [Done(app[i]) EXCEPT !.up = @ \cup {"nats"},
                                             !.cleanup = Append(@, "nats")])
      PROVE  Inv'
  <2>1. a.pc = "start" /\ a.step <= Len(Start) /\ Start[a.step] = "nats"
    BY <1>1, <1>4, AtIs
  <2>2. PICK b : b = [Done(a) EXCEPT !.up = @ \cup {"nats"}, !.cleanup = Append(@, "nats")]
    OBVIOUS
  <2>3. b \in Instance /\ Sound(b)
    BY <1>1, <2>1, <2>2, NATSSound
  <2>4. Becomes(i, b)
    BY <1>1, <1>4, <2>2
  <2>5. a.step = 12
    BY <2>1, AtFacts, StepOf
  <2>6. app[i].pc = "start" /\ app[i].step > 11
    BY <1>1, <2>1, <2>5
  <2> QED
    BY <1>2, <2>3, <2>4, <2>6, PastStep
<1> QED
  BY <1>3, <1>4 DEF Connect

\* What ends an instance that does not migrate.
LEMMA EndedStep ==
  ASSUME Inv, NEW i \in Instances, NEW end \in {"dead", "exited"}, Becomes(i, Ended(end)),
         UNCHANGED shared, faults' \in Nat, app[i].pc # "migrating"
  PROVE  Inv'
<1>1. PICK b : b = Ended(end)
  OBVIOUS
<1>2. b \in Instance /\ Sound(b)
  BY <1>1, EndedSound
<1>3. b.pc = end
  BY <1>1 DEF Ended, Off
<1>4. Kept(app[i], b)
  BY <1>3 DEF Kept, Past
<1>5. Becomes(i, b)
  BY <1>1
<1> QED
  BY <1>2, <1>4, <1>5, KeptStep

LEMMA SetupFailsStep ==
  ASSUME Inv, NEW i \in Instances, SetupFails(i)
  PROVE  Inv'
<1>1. app[i].pc = "start"
  BY AtIs DEF SetupFails
<1>2. UNCHANGED shared /\ faults' \in Nat /\ Becomes(i, Ended("dead"))
  BY FaultsNat DEF SetupFails, Fault
<1> QED
  BY <1>1, <1>2, EndedStep

LEMMA WaitTimesOutStep ==
  ASSUME Inv, NEW i \in Instances, WaitTimesOut(i)
  PROVE  Inv'
<1>1. app[i].pc = "waiting"
  BY DEF WaitTimesOut
<1>2. UNCHANGED shared /\ faults' \in Nat /\ Becomes(i, Ended("dead"))
  BY FaultsNat DEF WaitTimesOut, Fault
<1> QED
  BY <1>1, <1>2, EndedStep

LEMMA SetupDatabaseStep ==
  ASSUME Inv, NEW i \in Instances, SetupDatabase(i)
  PROVE  Inv'
<1>1. PICK a \in Instance : a = app[i] /\ Sound(a)
  BY InstanceOf
<1>2. /\ a.pc = "start" /\ a.step <= Len(Start) /\ Start[a.step] = "database"
      /\ "database" \notin a.up
  BY <1>1, AtIs DEF SetupDatabase
<1>3. PICK b : b = [a EXCEPT !.up = @ \cup {"database"}, !.cleanup = Append(@, "database")]
  OBVIOUS
<1>4. b \in Instance /\ Sound(b)
  BY <1>1, <1>2, <1>3, DatabaseSound
<1>5. Becomes(i, b) /\ UNCHANGED shared /\ faults' \in Nat
  BY <1>1, <1>3, FaultsNat DEF SetupDatabase
<1>6. b.pc = a.pc /\ b.step = a.step
  BY <1>3 DEF Instance
<1>7. Kept(a, b)
  BY <1>2, <1>6 DEF Kept, Past
<1> QED
  BY <1>1, <1>4, <1>5, <1>7, KeptStep

\* Without the lock it is taken; with it, its holder migrates.
LEMMA RunMigrationsStep ==
  ASSUME Inv, NEW i \in Instances, RunMigrations(i)
  PROVE  Inv'
<1>1. PICK a \in Instance : a = app[i] /\ Sound(a)
  BY InstanceOf
<1>2. a.pc = "start" /\ a.step = 11 /\ "database" \in a.up /\ a.stack = <<>>
  <2>1. /\ a.pc = "start" /\ a.step <= Len(Start) /\ Start[a.step] = "database"
        /\ "database" \in a.up
    BY <1>1, AtIs DEF RunMigrations
  <2>2. a.step = 11
    BY <2>1, AtFacts, StepOf
  <2>3. a.stack = <<>>
    BY <1>1, <2>2 DEF Sound, Stocked
  <2> QED
    BY <2>1, <2>2, <2>3
<1>3. /\ applied' = applied /\ broken' = broken /\ faults' = faults
      /\ lock \in Instances \cup {None} /\ applied \in 0..Versions /\ broken \in BOOLEAN
      /\ faults \in Nat /\ None \notin Instances
  BY BootstrapAssumption DEF RunMigrations, Inv, TypeOK
<1>4. ASSUME NEW pc \in {"migrating", "waiting"}, Becomes(i, [app[i] EXCEPT !.pc = pc])
      PROVE  /\ app' \in [Instances -> Instance] /\ app'[i].pc = pc
             /\ \A j \in Instances : j # i => app'[j] = app[j]
             /\ \A j \in Instances : Sound(app'[j])
  <2>1. PICK b : b = [a EXCEPT !.pc = pc]
    OBVIOUS
  <2>2. b \in Instance /\ Sound(b)
    BY <1>1, <1>2, <2>1, PcSound
  <2>3. Becomes(i, b) /\ b.pc = pc
    BY <1>1, <1>4, <2>1 DEF Instance
  <2> QED
    BY <2>2, <2>3, AppStep
<1>5. ASSUME ~broken, applied < Versions
      PROVE  \A k \in Instances : /\ lock = k <=> app[k].pc = "migrating"
                                  /\ app[k].pc = "waiting" => lock # None
                                  /\ ~Past(app[k])
  BY <1>5 DEF Inv, Migrating
<1>6. CASE lock = None /\ lock' = i /\ Becomes(i, [app[i] EXCEPT !.pc = "migrating"])
  <2>1. /\ app' \in [Instances -> Instance] /\ app'[i].pc = "migrating"
        /\ \A j \in Instances : j # i => app'[j] = app[j]
        /\ \A j \in Instances : Sound(app'[j])
    BY <1>4, <1>6
  <2>2. ASSUME ~broken, applied < Versions, NEW j \in Instances
        PROVE  /\ lock' = j <=> app'[j].pc = "migrating"
               /\ app'[j].pc = "waiting" => lock' # None
               /\ ~Past(app'[j])
    <3>1. CASE j = i
      BY <1>3, <1>6, <2>1, <3>1 DEF Past
    <3>2. CASE j # i
      BY <1>3, <1>5, <1>6, <2>1, <2>2, <3>2
    <3> QED
      BY <3>1, <3>2
  <2> QED
    BY <1>3, <1>6, <2>1, <2>2, InvNext
<1>7. CASE lock # None /\ lock' = lock /\ Becomes(i, [app[i] EXCEPT !.pc = "waiting"])
  <2>1. /\ app' \in [Instances -> Instance] /\ app'[i].pc = "waiting"
        /\ \A j \in Instances : j # i => app'[j] = app[j]
        /\ \A j \in Instances : Sound(app'[j])
    BY <1>4, <1>7
  <2>2. ASSUME ~broken, applied < Versions, NEW j \in Instances
        PROVE  /\ lock' = j <=> app'[j].pc = "migrating"
               /\ app'[j].pc = "waiting" => lock' # None
               /\ ~Past(app'[j])
    <3>1. CASE j = i
      BY <1>1, <1>2, <1>5, <1>7, <2>1, <2>2, <3>1 DEF Past
    <3>2. CASE j # i
      BY <1>5, <1>7, <2>1, <2>2, <3>2
    <3> QED
      BY <3>1, <3>2
  <2> QED
    BY <1>3, <1>7, <2>1, <2>2, InvNext
<1> QED
  BY <1>6, <1>7 DEF RunMigrations

LEMMA MigrateStep ==
  ASSUME Inv, NEW i \in Instances, Migrate(i)
  PROVE  Inv'
<1>1. PICK a \in Instance : a = app[i] /\ Sound(a)
  BY InstanceOf
<1>2. /\ a.pc = "migrating" /\ broken' = broken /\ faults' = faults
      /\ applied \in 0..Versions /\ broken \in BOOLEAN /\ faults \in Nat
      /\ lock \in Instances \cup {None} /\ Versions \in Nat
  BY <1>1, BootstrapAssumption DEF Migrate, Inv, TypeOK
<1>3. CASE applied < Versions /\ applied' = applied + 1 /\ UNCHANGED <<app, lock>>
  <2>1. applied' \in 0..Versions
    BY <1>2, <1>3
  <2>2. app' = app /\ app \in [Instances -> Instance] /\ \A j \in Instances : Sound(app[j])
    BY <1>3 DEF Inv, TypeOK
  <2>3. ~broken => \A j \in Instances : /\ lock = j <=> app[j].pc = "migrating"
                                        /\ app[j].pc = "waiting" => lock # None
                                        /\ ~Past(app[j])
    BY <1>3 DEF Inv, Migrating
  <2> QED
    BY <1>2, <1>3, <2>1, <2>2, <2>3, InvNext
<1>4. CASE /\ ~(applied < Versions) /\ lock' = None /\ applied' = applied
           /\ Becomes(i, [Done(app[i]) EXCEPT !.pc = "start"])
  <2>1. PICK b : b = [Done(a) EXCEPT !.pc = "start"]
    OBVIOUS
  <2>2. b \in Instance /\ Sound(b)
    BY <1>1, <1>2, <2>1, MigratedSound
  <2>3. Becomes(i, b)
    BY <1>1, <1>4, <2>1
  <2>4. app' \in [Instances -> Instance] /\ \A j \in Instances : Sound(app'[j])
    BY <2>2, <2>3, AppStep
  <2> QED
    BY <1>2, <1>4, <2>4, InvNext
<1> QED
  BY <1>3, <1>4 DEF Migrate

LEMMA MigrateFailsStep ==
  ASSUME Inv, NEW i \in Instances, MigrateFails(i)
  PROVE  Inv'
<1>1. PICK b : b = Ended("dead")
  OBVIOUS
<1>2. b \in Instance /\ Sound(b)
  BY <1>1, EndedSound
<1>3. Becomes(i, b)
  BY <1>1 DEF MigrateFails
<1>4. app' \in [Instances -> Instance] /\ \A j \in Instances : Sound(app'[j])
  BY <1>2, <1>3, AppStep
<1>5. lock' = None /\ broken' = TRUE /\ applied' = applied /\ faults' \in Nat
      /\ applied \in 0..Versions
  BY FaultsNat DEF MigrateFails, Fault, Inv, TypeOK
<1> QED
  BY <1>4, <1>5, InvNext

\* While migrations are missing the lock is not free for one that waits.
LEMMA WaitForMigrationsStep ==
  ASSUME Inv, NEW i \in Instances, WaitForMigrations(i)
  PROVE  Inv'
<1>1. PICK a \in Instance : a = app[i] /\ Sound(a)
  BY InstanceOf
<1>2. a.pc = "waiting" /\ lock = None /\ UNCHANGED shared /\ faults' \in Nat
  BY <1>1, FaultsNat DEF WaitForMigrations
<1>3. PICK b : b = [Done(a) EXCEPT !.pc = "start"]
  OBVIOUS
<1>4. b \in Instance /\ Sound(b)
  BY <1>1, <1>2, <1>3, MigratedSound
<1>5. Becomes(i, b)
  BY <1>1, <1>3 DEF WaitForMigrations
<1>6. ~(~broken /\ applied < Versions)
  BY <1>1, <1>2 DEF Inv, Migrating
<1> QED
  BY <1>2, <1>4, <1>5, <1>6, KeptStep

\* The lock goes: only without the one that migrates, or the history says so.
LEMMA LockGoesStep ==
  ASSUME Inv, LockExpires \/ LockOutrun
  PROVE  Inv'
<1>1. /\ app' = app /\ lock' = None /\ applied' = applied /\ faults' \in Nat
      /\ broken' \in BOOLEAN /\ applied \in 0..Versions
      /\ app \in [Instances -> Instance] /\ \A j \in Instances : Sound(app[j])
  BY FaultsNat DEF LockExpires, LockOutrun, Fault, Inv, TypeOK
<1>2. broken' \/ ~(applied < Versions)
  <2>1. CASE LockExpires
    <3>1. PICK i \in Instances : lock = i /\ app[i].pc # "migrating"
      BY <2>1 DEF LockExpires
    <3>2. broken' = broken
      BY <2>1 DEF LockExpires
    <3> QED
      BY <3>1, <3>2 DEF Inv, Migrating
  <2>2. CASE LockOutrun
    BY <2>2 DEF LockOutrun
  <2> QED
    BY <2>1, <2>2
<1> QED
  BY <1>1, <1>2, InvNext

-----------------------------------------------------------------------------
\* The container.

LEMMA SetupContainerStep ==
  ASSUME Inv, NEW i \in Instances, SetupContainer(i)
  PROVE  Inv'
<1>1. PICK a \in Instance : a = app[i] /\ Sound(a)
  BY InstanceOf
<1>2. a.pc = "start" /\ a.step <= Len(Start) /\ Start[a.step] = "container"
  BY <1>1, AtIs DEF SetupContainer
<1>3. PICK b : b = [Done(a) EXCEPT !.services = a.values, !.cleanup = Append(@, "container")]
  OBVIOUS
<1>4. b \in Instance /\ Sound(b)
  BY <1>1, <1>2, <1>3, ContainerSound
<1>5. Becomes(i, b) /\ UNCHANGED shared /\ faults' \in Nat
  BY <1>1, <1>3, FaultsNat DEF SetupContainer
<1>6. a.step = 13
  BY <1>2, AtFacts, StepOf
<1>7. app[i].pc = "start" /\ app[i].step > 11
  BY <1>1, <1>2, <1>6
<1> QED
  BY <1>4, <1>5, <1>7, PastStep

LEMMA RegisterServiceModulesStep ==
  ASSUME Inv, NEW i \in Instances, RegisterServiceModules(i)
  PROVE  Inv'
<1>1. PICK a \in Instance : a = app[i] /\ Sound(a)
  BY InstanceOf
<1>2. a.pc = "start" /\ a.step <= Len(Start) /\ Start[a.step] = "modules"
  BY <1>1, AtIs DEF RegisterServiceModules
<1>3. PICK b : b = [Done(a) EXCEPT !.factories = Types(Factories)]
  OBVIOUS
<1>4. b \in Instance /\ Sound(b)
  BY <1>1, <1>2, <1>3, ModulesSound
<1>5. Becomes(i, b) /\ UNCHANGED shared /\ faults' \in Nat
  BY <1>1, <1>3, FaultsNat DEF RegisterServiceModules
<1>6. a.step = 14
  BY <1>2, AtFacts, StepOf
<1>7. app[i].pc = "start" /\ app[i].step > 11
  BY <1>1, <1>2, <1>6
<1> QED
  BY <1>4, <1>5, <1>7, PastStep

LEMMA AskStep ==
  ASSUME Inv, NEW i \in Instances, Ask(i)
  PROVE  Inv'
<1>1. PICK a \in Instance : a = app[i] /\ Sound(a)
  BY InstanceOf
<1>2. /\ a.pc = "start" /\ a.step <= Len(Start) /\ Start[a.step] \in Types(Roots)
      /\ a.stack = <<>>
  BY <1>1 DEF Ask, Starting
<1>3. PICK b : b = [a EXCEPT !.stack = <<[type |-> Start[a.step], next |-> 1]>>]
  OBVIOUS
<1>4. b \in Instance /\ Sound(b)
  BY <1>1, <1>2, <1>3, AskSound
<1>5. Becomes(i, b) /\ UNCHANGED shared /\ faults' \in Nat
  BY <1>1, <1>3, FaultsNat DEF Ask
<1>6. a.step \in 15..18
  <2>1. a.step \in 1..18
    BY <1>2, AtFacts
  <2> QED
    BY <1>2, <2>1, StepOf
<1>7. app[i].pc = "start" /\ app[i].step > 11
  BY <1>1, <1>2, <1>6
<1> QED
  BY <1>4, <1>5, <1>7, PastStep

\* An instance whose factories run.
LEMMA ResolvingIs ==
  ASSUME Inv, NEW i \in Instances, Resolving(i)
  PROVE  \E a \in Instance :
           /\ a = app[i] /\ Sound(a) /\ a.pc = "start" /\ a.stack # <<>>
           /\ app[i].pc = "start" /\ app[i].step > 11
           /\ Top(a).next \in Nat /\ Len(Needs[Top(a).type]) \in Nat
           /\ Len(a.stack) \in Nat \ {0}
<1>1. PICK a \in Instance : a = app[i] /\ Sound(a)
  BY InstanceOf
<1>2. a.pc = "start" /\ a.stack # <<>>
  BY <1>1 DEF Resolving, Starting
<1>3. a.step \in 15..18 /\ a.stack \in Seq(Frame)
  BY <1>1, <1>2, ResolvingFacts
<1>4. a.step > 11
  BY <1>3
<1>5. /\ Len(a.stack) \in Nat \ {0} /\ Last(a.stack) = a.stack[Len(a.stack)]
      /\ \A k \in 1..Len(a.stack) :
           a.stack[k].next \in Nat \ {0} /\ Len(Needs[a.stack[k].type]) \in Nat
  BY <1>2, <1>3, TopFacts
<1>6. Top(a).next \in Nat /\ Len(Needs[Top(a).type]) \in Nat
  BY <1>5 DEF Top
<1> QED
  BY <1>1, <1>2, <1>4, <1>5, <1>6

LEMMA GetStep ==
  ASSUME Inv, NEW i \in Instances, Get(i)
  PROVE  Inv'
<1>0. Resolving(i)
  BY DEF Get
<1>1. PICK a \in Instance :
        /\ a = app[i] /\ Sound(a) /\ a.pc = "start" /\ a.stack # <<>>
        /\ app[i].pc = "start" /\ app[i].step > 11
        /\ Top(a).next \in Nat /\ Len(Needs[Top(a).type]) \in Nat
        /\ Len(a.stack) \in Nat \ {0}
  BY <1>0, ResolvingIs
<1>2. Top(a).next <= Len(Needs[Top(a).type])
  BY <1>1 DEF Get, HasAll
<1>3. PICK type : type = Needs[Top(a).type][Top(a).next]
  OBVIOUS
<1>4. PICK pushed : pushed = [a EXCEPT !.stack = Append(@, [type |-> type, next |-> 1])]
  OBVIOUS
<1>5. PICK got : got = Got(a)
  OBVIOUS
<1>6. IF type \in a.services THEN got \in Instance /\ Sound(got)
      ELSE /\ type \in a.factories \ {f.type : f \in Range(a.stack)}
           /\ pushed \in Instance /\ Sound(pushed)
  BY <1>1, <1>2, <1>3, <1>4, <1>5, GetSound
<1>7. /\ Becomes(i, IF type \in a.services THEN got
                    ELSE IF type \in a.factories \ {f.type : f \in Range(a.stack)}
                    THEN pushed ELSE Raised(a, "miswired"))
      /\ UNCHANGED shared /\ faults' \in Nat
  BY <1>1, <1>3, <1>4, <1>5, FaultsNat DEF Get
<1>8. CASE type \in a.services
  <2>1. Becomes(i, got) /\ got \in Instance /\ Sound(got)
    BY <1>6, <1>7, <1>8
  <2> QED
    BY <1>1, <1>7, <2>1, PastStep
<1>9. CASE type \notin a.services
  <2>1. Becomes(i, pushed) /\ pushed \in Instance /\ Sound(pushed)
    BY <1>6, <1>7, <1>9
  <2> QED
    BY <1>1, <1>7, <2>1, PastStep
<1> QED
  BY <1>8, <1>9

LEMMA BuildStep ==
  ASSUME Inv, NEW i \in Instances, Build(i)
  PROVE  Inv'
<1>0. Resolving(i)
  BY DEF Build
<1>1. PICK a \in Instance :
        /\ a = app[i] /\ Sound(a) /\ a.pc = "start" /\ a.stack # <<>>
        /\ app[i].pc = "start" /\ app[i].step > 11
        /\ Top(a).next \in Nat /\ Len(Needs[Top(a).type]) \in Nat
        /\ Len(a.stack) \in Nat \ {0}
  BY <1>0, ResolvingIs
<1>2. Len(a.stack) > 1 /\ UNCHANGED shared /\ faults' \in Nat
  BY <1>1, FaultsNat DEF Build
<1>3. PICK built : built = [a EXCEPT !.stack = Front(@), !.services = @ \cup {Top(a).type}]
  OBVIOUS
<1>4. PICK started : started = [a EXCEPT !.stack = Front(@), !.services = @ \cup {Top(a).type},
                                         !.up = @ \cup {Top(a).type},
                                         !.lifecycle = Append(@, Top(a).type)]
  OBVIOUS
<1>5. [built EXCEPT !.up = @ \cup {Top(a).type}, !.lifecycle = Append(@, Top(a).type)] = started
  BY <1>3, <1>4 DEF Instance
<1>6. Becomes(i, Got(IF Top(a).type \in Lifecycles THEN started ELSE built))
  BY <1>1, <1>3, <1>5 DEF Build
<1>7. CASE Top(a).type \in Lifecycles
  <2>1. PICK b : b = Got(started)
    OBVIOUS
  <2>2. b \in Instance /\ Sound(b)
    BY <1>1, <1>2, <1>4, <1>7, <2>1, BuildLifecycleSound
  <2>3. Becomes(i, b)
    BY <1>6, <1>7, <2>1
  <2> QED
    BY <1>1, <1>2, <2>2, <2>3, PastStep
<1>8. CASE Top(a).type \notin Lifecycles
  <2>1. PICK b : b = Got(built)
    OBVIOUS
  <2>2. b \in Instance /\ Sound(b)
    BY <1>1, <1>2, <1>3, <1>8, <2>1, BuildPlainSound
  <2>3. Becomes(i, b)
    BY <1>6, <1>8, <2>1
  <2> QED
    BY <1>1, <1>2, <2>2, <2>3, PastStep
<1> QED
  BY <1>7, <1>8

LEMMA BuildFailsStep ==
  ASSUME Inv, NEW i \in Instances, BuildFails(i)
  PROVE  Inv'
<1>0. Resolving(i)
  BY DEF BuildFails
<1>1. PICK a \in Instance :
        /\ a = app[i] /\ Sound(a) /\ a.pc = "start" /\ a.stack # <<>>
        /\ app[i].pc = "start" /\ app[i].step > 11
        /\ Top(a).next \in Nat /\ Len(Needs[Top(a).type]) \in Nat
        /\ Len(a.stack) \in Nat \ {0}
  BY <1>0, ResolvingIs
<1>2. Top(a).type \in Breakable /\ UNCHANGED shared /\ faults' \in Nat
  BY <1>1, FaultsNat DEF BuildFails, Fault
<1>3. PICK b : b = Raised([a EXCEPT !.stack = Front(@)], "dead")
  OBVIOUS
<1>4. b \in Instance /\ Sound(b)
  BY <1>1, <1>2, <1>3, BuildFailsSound
<1>5. Becomes(i, b)
  BY <1>1, <1>3 DEF BuildFails
<1> QED
  BY <1>1, <1>2, <1>4, <1>5, PastStep

LEMMA ReadyStepOf ==
  ASSUME Inv, NEW i \in Instances, Ready(i)
  PROVE  Inv'
<1>0. Resolving(i)
  BY DEF Ready
<1>1. PICK a \in Instance :
        /\ a = app[i] /\ Sound(a) /\ a.pc = "start" /\ a.stack # <<>>
        /\ app[i].pc = "start" /\ app[i].step > 11
        /\ Top(a).next \in Nat /\ Len(Needs[Top(a).type]) \in Nat
        /\ Len(a.stack) \in Nat \ {0}
  BY <1>0, ResolvingIs
<1>2. HasAll(a) /\ Len(a.stack) = 1 /\ UNCHANGED shared /\ faults' \in Nat
  BY <1>1, FaultsNat DEF Ready
<1>3. PICK s : s = Start[a.step]
  OBVIOUS
<1>4. PICK d : d = [Done(a) EXCEPT !.stack = <<>>]
  OBVIOUS
<1>5. PICK served : served = [d EXCEPT !.up = @ \cup {s}]
  OBVIOUS
<1>6. PICK last : last = [d EXCEPT !.up = @ \cup {s}, !.cleanup = Append(@, s)]
  OBVIOUS
<1>7. /\ s = "httpServers" => served \in Instance /\ Sound(served)
      /\ s = "wsServer" => last \in Instance /\ Sound(last)
      /\ s \notin {"httpServers", "wsServer"} => d \in Instance /\ Sound(d)
  BY <1>1, <1>2, <1>3, <1>4, <1>5, <1>6, ReadySound
<1>8. PICK b : b = IF s = "httpServers" THEN served ELSE IF s = "wsServer" THEN last ELSE d
  OBVIOUS
<1>9. b \in Instance /\ Sound(b)
  BY <1>7, <1>8
<1>10. Becomes(i, b)
  BY <1>1, <1>3, <1>4, <1>5, <1>6, <1>8 DEF Ready
<1> QED
  BY <1>1, <1>2, <1>9, <1>10, PastStep

-----------------------------------------------------------------------------
\* The shutdown, and the end.

LEMMA SignalStep ==
  ASSUME Inv, NEW i \in Instances, Signal(i)
  PROVE  Inv'
<1>1. PICK a \in Instance : a = app[i] /\ Sound(a)
  BY InstanceOf
<1>2. a.pc = "start" /\ a.step > Len(Start)
  BY <1>1 DEF Signal, Serving
<1>3. PICK b : b = [a EXCEPT !.pc = "cleanup"]
  OBVIOUS
<1>4. b \in Instance /\ Sound(b)
  BY <1>1, <1>2, <1>3, SignalSound
<1>5. Becomes(i, b) /\ UNCHANGED shared /\ faults' \in Nat
  BY <1>1, <1>3, FaultsNat DEF Signal
<1>6. app[i].pc = "start" /\ app[i].step > 11
  <2>1. a.step > 18 /\ a.step \in 1..19
    BY <1>2, StartIs DEF Instance
  <2> QED
    BY <1>1, <1>2, <2>1
<1> QED
  BY <1>4, <1>5, <1>6, PastStep

\* A step of a shutdown that goes on.
LEMMA ShutdownStep ==
  ASSUME Inv, NEW i \in Instances, NEW b \in Instance, Sound(b), b.pc = "cleanup",
         app[i].pc = "cleanup", Becomes(i, b), UNCHANGED shared, faults' \in Nat
  PROVE  Inv'
<1>1. Kept(app[i], b)
  BY DEF Kept, Past
<1> QED
  BY <1>1, KeptStep

LEMMA CleanupRunStep ==
  ASSUME Inv, NEW i \in Instances, CleanupRun(i)
  PROVE  Inv'
<1>1. PICK a \in Instance : a = app[i] /\ Sound(a)
  BY InstanceOf
<1>2. /\ a.pc = "cleanup" /\ app[i].pc = "cleanup" /\ a.cleanup # <<>>
      /\ Last(a.cleanup) # "container" /\ UNCHANGED shared
  BY <1>1 DEF CleanupRun
<1>3. CASE /\ Becomes(i, [app[i] EXCEPT !.up = @ \ {Last(app[i].cleanup)}, !.cleanup = Front(@)])
           /\ UNCHANGED faults
  <2>1. PICK b : b = [a EXCEPT !.up = @ \ {Last(a.cleanup)}, !.cleanup = Front(@)]
    OBVIOUS
  <2>2. b \in Instance /\ Sound(b)
    BY <1>1, <1>2, <2>1, CleanupSound
  <2>3. Becomes(i, b) /\ faults' \in Nat
    BY <1>1, <1>3, <2>1, FaultsNat
  <2>4. b.pc = "cleanup"
    BY <1>2, <2>1 DEF Instance
  <2> QED
    BY <1>2, <2>2, <2>3, <2>4, ShutdownStep
<1>4. CASE /\ Last(app[i].cleanup) \in {"redis", "database"} /\ Fault
           /\ Becomes(i, [app[i] EXCEPT !.cleanup = <<>>])
  <2>1. PICK b : b = [a EXCEPT !.cleanup = <<>>]
    OBVIOUS
  <2>2. b \in Instance /\ Sound(b)
    BY <1>1, <1>2, <1>4, <2>1, CleanupFailsSound
  <2>3. Becomes(i, b) /\ faults' \in Nat
    BY <1>1, <1>4, <2>1, FaultsNat DEF Fault
  <2>4. b.pc = "cleanup"
    BY <1>2, <2>1 DEF Instance
  <2> QED
    BY <1>2, <2>2, <2>3, <2>4, ShutdownStep
<1> QED
  BY <1>3, <1>4 DEF CleanupRun

LEMMA StopServiceStep ==
  ASSUME Inv, NEW i \in Instances, StopService(i)
  PROVE  Inv'
<1>1. PICK a \in Instance : a = app[i] /\ Sound(a)
  BY InstanceOf
<1>2. /\ a.pc = "cleanup" /\ app[i].pc = "cleanup" /\ a.cleanup # <<>>
      /\ Last(a.cleanup) = "container" /\ a.lifecycle # <<>> /\ UNCHANGED shared
  BY <1>1 DEF StopService
<1>3. PICK stopped : stopped = [a EXCEPT !.up = @ \ {Last(a.lifecycle)}, !.lifecycle = Front(@)]
  OBVIOUS
<1>4. PICK failed : failed = [stopped EXCEPT !.lastErr = TRUE]
  OBVIOUS
<1>5. \/ Becomes(i, stopped) /\ UNCHANGED faults
      \/ Becomes(i, failed) /\ Fault
  BY <1>1, <1>3, <1>4 DEF StopService
<1>6. faults' \in Nat
  BY <1>5, FaultsNat DEF Fault
<1>7. /\ Front(a.lifecycle) \in Seq(Lifecycles)
      /\ a.up \ {Last(a.lifecycle)} \subseteq a.up
  BY <1>1, <1>2, LastUp
<1>8. stopped \in Instance /\ failed \in Instance
  BY <1>3, <1>4, <1>7 DEF Instance
<1>9. \A b \in {stopped, failed} :
        /\ b.pc = "cleanup" /\ b.step = a.step /\ b.stack = a.stack /\ b.values = a.values
        /\ b.services = a.services /\ b.factories = a.factories /\ b.cleanup = a.cleanup
        /\ b.lifecycle = Front(a.lifecycle) /\ b.up = a.up \ {Last(a.lifecycle)}
  BY <1>2, <1>3, <1>4 DEF Instance
<1>10. Sound(stopped)
  BY <1>1, <1>2, <1>8, <1>9, StopSound
<1>11. Sound(failed)
  BY <1>1, <1>2, <1>8, <1>9, StopSound
<1>12. CASE Becomes(i, stopped)
  BY <1>2, <1>6, <1>8, <1>9, <1>10, <1>12, ShutdownStep
<1>13. CASE Becomes(i, failed)
  BY <1>2, <1>6, <1>8, <1>9, <1>11, <1>13, ShutdownStep
<1> QED
  BY <1>5, <1>12, <1>13

LEMMA ContainerStoppedStep ==
  ASSUME Inv, NEW i \in Instances, ContainerStopped(i)
  PROVE  Inv'
<1>1. PICK a \in Instance : a = app[i] /\ Sound(a)
  BY InstanceOf
<1>2. /\ a.pc = "cleanup" /\ app[i].pc = "cleanup" /\ a.cleanup # <<>>
      /\ Last(a.cleanup) = "container" /\ a.lifecycle = <<>>
      /\ UNCHANGED shared /\ faults' \in Nat
  BY <1>1, FaultsNat DEF ContainerStopped
<1>3. PICK c : c = IF a.lastErr THEN <<>> ELSE Front(a.cleanup)
  OBVIOUS
<1>4. PICK b : b = [a EXCEPT !.cleanup = c]
  OBVIOUS
<1>5. c \in {<<>>, Front(a.cleanup)}
  BY <1>3
<1>6. b \in Instance /\ Sound(b)
  BY <1>1, <1>2, <1>4, <1>5, ContainerStoppedSound
<1>7. Becomes(i, b)
  BY <1>1, <1>3, <1>4 DEF ContainerStopped
<1>8. b.pc = "cleanup"
  BY <1>2, <1>4 DEF Instance
<1> QED
  BY <1>2, <1>6, <1>7, <1>8, ShutdownStep

LEMMA ExitStep ==
  ASSUME Inv, NEW i \in Instances, Exit(i)
  PROVE  Inv'
<1>1. /\ app[i].pc # "migrating" /\ Becomes(i, Ended("exited")) /\ UNCHANGED shared
      /\ faults' \in Nat
  BY FaultsNat DEF Exit
<1> QED
  BY <1>1, EndedStep

\* A crash leaves the lock; of the one that migrates, it is in the history.
LEMMA CrashStep ==
  ASSUME Inv, NEW i \in Instances, Crash(i)
  PROVE  Inv'
<1>1. PICK b : b = Ended("dead")
  OBVIOUS
<1>2. b \in Instance /\ Sound(b) /\ b.pc = "dead"
  BY <1>1, EndedSound DEF Ended, Off
<1>3. Becomes(i, b)
  BY <1>1 DEF Crash
<1>4. /\ app' \in [Instances -> Instance] /\ app'[i] = b
      /\ \A j \in Instances : j # i => app'[j] = app[j]
      /\ \A j \in Instances : Sound(app'[j])
  BY <1>2, <1>3, AppStep
<1>5. /\ lock' = lock /\ applied' = applied /\ faults' \in Nat /\ broken' \in BOOLEAN
      /\ lock \in Instances \cup {None} /\ applied \in 0..Versions
      /\ broken' = (broken \/ (app[i].pc = "migrating" /\ applied < Versions))
  BY FaultsNat DEF Crash, Fault, Inv, TypeOK
<1>6. ASSUME ~broken', applied < Versions, NEW j \in Instances
      PROVE  /\ lock = j <=> app'[j].pc = "migrating"
             /\ app'[j].pc = "waiting" => lock # None
             /\ ~Past(app'[j])
  <2>1. ~broken /\ app[i].pc # "migrating"
    BY <1>5, <1>6
  <2>2. \A k \in Instances : /\ lock = k <=> app[k].pc = "migrating"
                             /\ app[k].pc = "waiting" => lock # None
                             /\ ~Past(app[k])
    BY <1>6, <2>1 DEF Inv, Migrating
  <2>3. CASE j = i
    BY <1>2, <1>4, <2>1, <2>2, <2>3 DEF Past
  <2>4. CASE j # i
    BY <1>4, <2>2, <2>4
  <2> QED
    BY <2>3, <2>4
<1> QED
  BY <1>4, <1>5, <1>6, InvNext

-----------------------------------------------------------------------------
\* The invariant, and what it says.

LEMMA InvInit == Init => Inv
<1> SUFFICES ASSUME Init PROVE Inv
  OBVIOUS
<1>1. Off.pc = "start" /\ Off.step = 1
  BY DEF Off
<1>2. /\ lock = None /\ applied = 0 /\ faults = 0 /\ broken = FALSE
      /\ app = [i \in Instances |-> Off]
  BY DEF Init
<1>3. TypeOK
  <2>1. app \in [Instances -> Instance]
    BY <1>2, OffSound
  <2>2. applied \in 0..Versions /\ faults \in Nat
    BY <1>2, BootstrapAssumption
  <2> QED
    BY <1>2, <2>1, <2>2 DEF TypeOK
<1>4. \A i \in Instances : Sound(app[i])
  BY <1>2, OffSound
<1>5. Migrating
  BY <1>1, <1>2, BootstrapAssumption DEF Migrating, Past
<1> QED
  BY <1>3, <1>4, <1>5 DEF Inv

LEMMA InvStep == Inv /\ [Next]_vars => Inv'
<1> SUFFICES ASSUME Inv, [Next]_vars PROVE Inv'
  OBVIOUS
<1>1. CASE UNCHANGED vars
  BY <1>1 DEF vars, Inv, TypeOK, Migrating
<1>2. ASSUME NEW i \in Instances, StartStep(i)
      PROVE  Inv'
  BY <1>2, SetupValueStep, ConnectStep, SetupDatabaseStep, RunMigrationsStep, MigrateStep,
     WaitForMigrationsStep, SetupContainerStep, RegisterServiceModulesStep, AskStep, GetStep,
     BuildStep, ReadyStepOf DEF StartStep
<1>3. ASSUME NEW i \in Instances, Shutdown(i)
      PROVE  Inv'
  BY <1>3, CleanupRunStep, StopServiceStep, ContainerStoppedStep, ExitStep DEF Shutdown
<1>4. ASSUME NEW i \in Instances, Failure(i)
      PROVE  Inv'
  BY <1>4, SetupFailsStep, MigrateFailsStep, WaitTimesOutStep, BuildFailsStep, CrashStep
     DEF Failure
<1> QED
  BY <1>1, <1>2, <1>3, <1>4, SignalStep, LockGoesStep DEF Next

THEOREM Invariant == Spec => []Inv
BY InvInit, InvStep, PTL DEF Spec

\* What an instance is of: its step, its container, its stacks, what it has up;
\* the lock is with an instance or free, the migrations are counted.
THEOREM TypeCorrect == Spec => []TypeOK
<1>1. Inv => TypeOK
  BY DEF Inv
<1> QED
  BY <1>1, Invariant, PTL

\* Whatever fails, and however many instances start: no start ends on a factory
\* that is missing or that needs itself (container.Get, registerServiceModules,
\* setupHandlers).
THEOREM StartsAreWired == Spec => []NeverMiswired
<1>1. Inv => NeverMiswired
  BY DEF Inv, TypeOK, Instance, NeverMiswired
<1> QED
  BY <1>1, Invariant, PTL

\* However many instances race for the lock, and for any number of migrations:
\* an instance goes on past runMigrations or waitForMigrations with the whole
\* schema, unless a migrator failed, died or outran the lock.
THEOREM SchemaComesFirst == Spec => []SchemaFirst
<1>1. Inv => SchemaFirst
  <2> SUFFICES ASSUME Inv, NEW i \in Instances, app[i].pc = "start",
                      NEW k \in 1..(app[i].step - 1), Start[k] = "database"
               PROVE  applied = Versions \/ broken
    BY DEF SchemaFirst
  <2>1. app[i].step \in 1..19 /\ applied \in 0..Versions /\ Versions \in Nat
    BY BootstrapAssumption DEF Inv, TypeOK, Instance
  <2>2. k \in 1..18 /\ k < app[i].step
    BY <2>1
  <2>3. k = 11
    BY <2>2, StepOf
  <2>4. Past(app[i])
    BY <2>1, <2>2, <2>3 DEF Past
  <2>5. ~(~broken /\ applied < Versions)
    BY <2>4 DEF Inv, Migrating
  <2> QED
    BY <2>1, <2>5
<1> QED
  BY <1>1, Invariant, PTL

\* Whatever fails while an instance shuts down: nothing is stopped or closed
\* before what runs on it, and a shutdown that is over has stopped every
\* lifecycle service and the WebSocket server (Cleanup.Run, Container.Shutdown).
THEOREM StopsInOrderAlways == Spec => []StopsInOrder
<1>1. Inv => StopsInOrder
  <2> SUFFICES ASSUME Inv, NEW i \in Instances
               PROVE  /\ \A x \in app[i].up \cap DOMAIN Uses : Uses[x] \subseteq app[i].up
                      /\ app[i].pc = "cleanup" /\ app[i].cleanup = <<>> =>
                           app[i].up \cap (Lifecycles \cup {"wsServer"}) = {}
    BY DEF StopsInOrder
  <2>1. app[i] \in Instance /\ Sound(app[i])
    BY DEF Inv, TypeOK
  <2> QED
    BY <2>1, SoundStops
<1> QED
  BY <1>1, Invariant, PTL
=============================================================================
