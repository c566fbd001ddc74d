------------------------------ MODULE MCServices ------------------------------
(* Six services for TLC that share no state: the cron, the figures and the  *)
(* rate limiter of an instance, publications, the rows of workers and the   *)
(* runtime of platform jobs.  A behaviour is one of one of them, the others *)
(* at rest.                                                                 *)
EXTENDS PlatformTick, Meter, RateGate, Publishing, QueueWorkers, PlatformRuntime

\* PlatformTick: the minutely tasks of register.go, in quarters of a minute.
CONSTANTS i1, i2, workers, cascade
EveryMinute == [t \in Tasks |-> 4]
Timeouts == [t \in Tasks |-> IF t = cascade THEN 8 ELSE 2]
OneIsFast == [i \in Instances |-> IF i = i2 THEN 1 ELSE 0]

\* What the theorem about the ticks supposes of the clocks.
ASSUME ClocksOfTheRun == ClocksAgree

CONSTANTS q1, q2
MCRequests == {q1, q2}

\* Publishing: a refused name before a good one, and a channel named twice.
CONSTANTS p1, p2, c1, c2
MCNameLists == {<<c1, c1>>, <<c2, c1>>}
MCPermissions ==
  {[r \in {"*"} |-> {"*"}], [r \in {c1} |-> {"publish", "subscribe"}], Unreadable}

VARIABLE turn
lastVars == <<workerVars, runtimeVars>>
restVars == <<gateVars, publishVars, lastVars>>
allVars == <<turn, vars, meterVars, restVars>>

AllInit ==
  /\ turn \in {"cron", "meter", "gate", "publish", "workers", "runtime"}
  /\ Init /\ MeterInit /\ GateInit /\ PublishInit /\ WorkerInit /\ RuntimeInit
  /\ turn # "cron" => on = {}
Cron == turn = "cron" /\ Next /\ UNCHANGED <<turn, meterVars, restVars>>
Figures == turn = "meter" /\ MeterNext /\ UNCHANGED <<turn, vars, restVars>>
Gate ==
  turn = "gate" /\ GateNext /\ UNCHANGED <<turn, vars, meterVars, publishVars, lastVars>>
Publications ==
  turn = "publish" /\ PublishNext /\ UNCHANGED <<turn, vars, meterVars, gateVars, lastVars>>
WorkerRows ==
  turn = "workers" /\ WorkerNext
    /\ UNCHANGED <<turn, vars, meterVars, gateVars, publishVars, runtimeVars>>
PlatformJobs ==
  turn = "runtime" /\ RuntimeNext
    /\ UNCHANGED <<turn, vars, meterVars, gateVars, publishVars, workerVars>>

\* The ticker of the snapshot loop goes on ticking.
Snapshot ==
  turn = "meter" /\ Running /\ SyncStatsToRedis /\ UNCHANGED <<turn, vars, restVars>>
AllNext ==
  Cron \/ Figures \/ Gate \/ Publications \/ WorkerRows \/ PlatformJobs
AllSpec == AllInit /\ [][AllNext]_allVars /\ WF_allVars(Snapshot)
=============================================================================
