---------------------------- MODULE QueueLeader -----------------------------
(***************************************************************************)
(* Leadership of the queue schedule service: one Redis key with a time to  *)
(* live, set with SetNX by who wants to lead and with an unconditional SET *)
(* by who does, and deleted by a leader that stops.                        *)
(*                                                                         *)
(* Time passes in units of five seconds.  A timer counts the units to its  *)
(* next tick.  What is due is normally done before the next unit passes;   *)
(* a unit that passes over something due, an error of Redis and a reply    *)
(* that is lost are faults, and faults counts them.                        *)
(***************************************************************************)
EXTENDS Naturals

CONSTANTS
  Instances,
  Nobody,
  KeyTTL,      \* leaderKeyTTL
  Beat,        \* leaderHeartbeat
  Watch,       \* period of the takeover loop
  StaleBelow,  \* isLeadershipStale: the key is about to expire
  FaultBound,  \* bound on faults
  BootBound    \* bound on the starts of server processes

VARIABLES
  owner, ttl,  \* the key: its value and the units it has left (0: no key)
  life,        \* of each process
  pc,          \* where its ensureLeaderAndCron is
  isLeader,
  cron,        \* the cron runs
  beat,        \* units to the next heartbeat; Beat + 1: no heartbeat goroutine
  watch,       \* units to the next round of the takeover loop
  faults, boots,
  quiet        \* history: units since the last start, stop, death or fault

key == <<owner, ttl>>
timers == <<beat, watch>>
local == <<life, pc, isLeader, cron>>
bounds == <<faults, boots>>
vars == <<owner, ttl, life, pc, isLeader, cron, beat, watch, faults, boots, quiet>>

NoBeat == Beat + 1
\* A leader that dies leaves a key that lives KeyTTL; then comes a round.
Replacement == KeyTTL + Watch

ASSUME LeaderAssumption ==
  /\ Nobody \notin Instances
  /\ KeyTTL \in Nat /\ Beat \in Nat \ {0} /\ Watch \in Nat \ {0}
  /\ StaleBelow \in Nat
  /\ FaultBound \in Nat /\ BootBound \in Nat
  /\ Beat < KeyTTL

-----------------------------------------------------------------------------
Init ==
  /\ owner = Nobody /\ ttl = 0
  /\ life = [i \in Instances |-> "down"]
  /\ pc = [i \in Instances |-> "loop"]
  /\ isLeader = [i \in Instances |-> FALSE]
  /\ cron = [i \in Instances |-> FALSE]
  /\ beat = [i \in Instances |-> NoBeat]
  /\ watch = [i \in Instances |-> Watch]
  /\ faults = 0 /\ boots = 0 /\ quiet = 0

Fault == faults < FaultBound /\ faults' = faults + 1

\* What runs on instance i when its process is gone.
Dead(i) ==
  /\ life' = [life EXCEPT ![i] = "down"]
  /\ pc' = [pc EXCEPT ![i] = "loop"]
  /\ isLeader' = [isLeader EXCEPT ![i] = FALSE]
  /\ cron' = [cron EXCEPT ![i] = FALSE]
  /\ beat' = [beat EXCEPT ![i] = NoBeat]
  /\ watch' = [watch EXCEPT ![i] = Watch]

\* Start: the loops are spawned and ensureLeaderAndCron is called at once.
Start(i) ==
  /\ life[i] = "down"
  /\ boots < BootBound
  /\ boots' = boots + 1
  /\ life' = [life EXCEPT ![i] = "up"]
  /\ pc' = [pc EXCEPT ![i] = "start"]
  /\ watch' = [watch EXCEPT ![i] = Watch]
  /\ quiet' = 0
  /\ UNCHANGED <<key, isLeader, cron, beat, faults>>

\* SetNX of the leader key.
\* Mutant: SET, which overwrites the key of another leader.
SetNX_Set(i, done) == /\ done
                      /\ owner' = i /\ ttl' = KeyTTL
SetNX(i, done) ==
  IF ttl = 0 THEN done /\ owner' = i /\ ttl' = KeyTTL
             ELSE ~done /\ UNCHANGED key

\* tryBecomeLeader, by Start or by the takeover loop.
TryBecomeLeader(i) ==
  /\ pc[i] \in {"start", "claim"}
  /\ \E done \in BOOLEAN :
       /\ SetNX(i, done)
       /\ pc' = [pc EXCEPT ![i] = IF done THEN "won" ELSE "loop"]
       /\ isLeader' = [isLeader EXCEPT ![i] = FALSE]
  /\ UNCHANGED <<life, cron, timers, bounds, quiet>>

\* The same with an error of Redis, before or after the key was set.  Start
\* returns the error and the process gives up; the takeover loop goes on.
TryFails(i) ==
  /\ pc[i] \in {"start", "claim"}
  /\ Fault
  /\ quiet' = 0
  /\ \/ UNCHANGED key
     \/ SetNX(i, TRUE)
  /\ \/ /\ pc[i] = "start"
        /\ Dead(i)
     \/ /\ pc[i] = "claim"
        /\ pc' = [pc EXCEPT ![i] = "loop"]
        /\ UNCHANGED <<life, isLeader, cron, timers>>
  /\ UNCHANGED boots

\* The rest of ensureLeaderAndCron: isLeader, startCron, the heartbeat, which
\* ends at once if the service has been stopped in the meantime.
Lead(i) ==
  /\ pc[i] = "won"
  /\ pc' = [pc EXCEPT ![i] = "loop"]
  /\ isLeader' = [isLeader EXCEPT ![i] = TRUE]
  /\ cron' = [cron EXCEPT ![i] = TRUE]
  /\ beat' = [beat EXCEPT ![i] = IF life[i] = "up" THEN Beat ELSE NoBeat]
  /\ UNCHANGED <<key, life, watch, bounds, quiet>>

\* Mutant: a key that is not there is taken for a fresh one.
IsLeadershipStale_Present == ttl > 0 /\ ttl < StaleBelow
IsLeadershipStale == ttl = 0 \/ ttl < StaleBelow

\* A round of runLeadershipTakeover.
TakeoverRound(i) ==
  /\ life[i] = "up" /\ watch[i] = 0 /\ pc[i] = "loop"
  /\ watch' = [watch EXCEPT ![i] = Watch]
  /\ pc' = [pc EXCEPT ![i] = IF ~isLeader[i] /\ IsLeadershipStale
                             THEN "claim" ELSE "loop"]
  /\ UNCHANGED <<key, life, isLeader, cron, beat, bounds, quiet>>

\* A round in which the time to live cannot be read: taken for stale.
BlindRound(i) ==
  /\ life[i] = "up" /\ watch[i] = 0 /\ pc[i] = "loop"
  /\ ~isLeader[i]
  /\ Fault
  /\ quiet' = 0
  /\ watch' = [watch EXCEPT ![i] = Watch]
  /\ pc' = [pc EXCEPT ![i] = "claim"]
  /\ UNCHANGED <<key, life, isLeader, cron, beat, boots>>

\* A tick of startLeaderHeartbeat.
Heartbeat(i) ==
  /\ life[i] = "up" /\ beat[i] = 0
  /\ beat' = [beat EXCEPT ![i] = Beat]
  /\ owner' = i /\ ttl' = KeyTTL
  /\ UNCHANGED <<local, watch, bounds, quiet>>

\* A heartbeat whose error is ignored.
HeartbeatFails(i) ==
  /\ life[i] = "up" /\ beat[i] = 0
  /\ Fault
  /\ quiet' = 0
  /\ beat' = [beat EXCEPT ![i] = Beat]
  /\ UNCHANGED <<key, local, watch, boots>>

\* Stop closes leaderStopChan: the loops and the heartbeat end.  A takeover
\* that is past its check goes on.
StopBegin(i) ==
  /\ life[i] = "up" /\ pc[i] # "start"
  /\ life' = [life EXCEPT ![i] = "stopping"]
  /\ beat' = [beat EXCEPT ![i] = NoBeat]
  /\ watch' = [watch EXCEPT ![i] = Watch]
  /\ quiet' = 0
  /\ UNCHANGED <<key, pc, isLeader, cron, bounds>>

\* The rest of Stop, with releaseLeadership: the key is deleted whoever
\* wrote it last.
StopEnd(i) ==
  /\ life[i] = "stopping"
  /\ life' = [life EXCEPT ![i] = "stopped"]
  /\ cron' = [cron EXCEPT ![i] = FALSE]
  /\ isLeader' = [isLeader EXCEPT ![i] = FALSE]
  /\ IF isLeader[i] THEN owner' = Nobody /\ ttl' = 0 ELSE UNCHANGED key
  /\ UNCHANGED <<pc, timers, bounds, quiet>>

\* The same with the error of Del ignored.
StopFails(i) ==
  /\ life[i] = "stopping" /\ isLeader[i]
  /\ Fault
  /\ quiet' = 0
  /\ life' = [life EXCEPT ![i] = "stopped"]
  /\ cron' = [cron EXCEPT ![i] = FALSE]
  /\ isLeader' = [isLeader EXCEPT ![i] = FALSE]
  /\ UNCHANGED <<key, pc, timers, boots>>

\* The process ends: after Stop, or at any point.
Exit(i) ==
  /\ life[i] # "down"
  /\ Dead(i)
  /\ quiet' = 0
  /\ UNCHANGED <<key, bounds>>

-----------------------------------------------------------------------------
(* Time *)

Busy(i) == \/ pc[i] # "loop"
           \/ life[i] \in {"stopping", "stopped"}
           \/ life[i] = "up" /\ (beat[i] = 0 \/ watch[i] = 0)

Down(n) == IF n = 0 THEN 0 ELSE n - 1

\* Redis lets the key go when its time is over; the timers of live goroutines
\* run.
Elapse ==
  /\ ttl' = Down(ttl)
  /\ owner' = IF ttl <= 1 THEN Nobody ELSE owner
  /\ beat' = [i \in Instances |-> IF beat[i] = NoBeat THEN NoBeat ELSE Down(beat[i])]
  /\ watch' = [i \in Instances |-> IF life[i] = "up" THEN Down(watch[i]) ELSE watch[i]]
  /\ UNCHANGED <<local, boots>>

Tick ==
  /\ \A i \in Instances : ~Busy(i)
  /\ Elapse
  /\ quiet' = IF quiet > Replacement THEN quiet ELSE quiet + 1
  /\ UNCHANGED faults

\* Something due, a process or a reply, is late by a unit.
LateTick ==
  /\ \E i \in Instances : Busy(i)
  /\ Fault
  /\ Elapse
  /\ quiet' = 0

-----------------------------------------------------------------------------
Next ==
  \/ Tick
  \/ LateTick
  \/ \E i \in Instances :
       \/ Start(i) \/ TryBecomeLeader(i) \/ TryFails(i) \/ Lead(i)
       \/ TakeoverRound(i) \/ BlindRound(i)
       \/ Heartbeat(i) \/ HeartbeatFails(i)
       \/ StopBegin(i) \/ StopEnd(i) \/ StopFails(i) \/ Exit(i)

Spec == Init /\ [][Next]_vars

\* Time goes on, and so do the goroutines of a live process; a stopped one
\* exits.  Nobody has to start, stop or fail.
Fairness ==
  /\ WF_vars(Tick)
  /\ \A i \in Instances :
       /\ WF_vars(TryBecomeLeader(i)) /\ WF_vars(Lead(i))
       /\ WF_vars(TakeoverRound(i)) /\ WF_vars(Heartbeat(i))
       /\ WF_vars(StopEnd(i)) /\ WF_vars(life[i] = "stopped" /\ Exit(i))
FairSpec == Spec /\ Fairness

-----------------------------------------------------------------------------
(* Properties *)

\* Type invariant: the key has a value exactly while it has time left.
TypeOK ==
  /\ owner \in Instances \cup {Nobody} /\ ttl \in 0..KeyTTL
  /\ owner = Nobody <=> ttl = 0
  /\ life \in [Instances -> {"down", "up", "stopping", "stopped"}]
  /\ pc \in [Instances -> {"loop", "start", "claim", "won"}]
  /\ isLeader \in [Instances -> BOOLEAN]
  /\ cron \in [Instances -> BOOLEAN]
  /\ beat \in [Instances -> 0..NoBeat]
  /\ watch \in [Instances -> 0..Watch]
  /\ faults \in 0..FaultBound /\ boots \in 0..BootBound
  /\ quiet \in 0..(Replacement + 1)

\* The instance enqueues platform tasks or reclaims expired jobs.
Acting(i) == cron[i] \/ (life[i] = "up" /\ isLeader[i])

\* As long as nothing is late and Redis answers, at most one instance runs the
\* cron or reclaims, through every order of starts, takeovers, stops and
\* deaths: SetNX in tryBecomeLeader, the period of the heartbeat and the Del
\* of releaseLeadership together.
OneLeader ==
  faults = 0 => \A i, k \in Instances : Acting(i) /\ Acting(k) => i = k

\* Without faults the key names whoever leads, or is about to: what
\* releaseLeadership deletes and the heartbeat overwrites is the leader's own.
KeyNamesLeader ==
  faults = 0 =>
    \A i \in Instances : (Acting(i) \/ isLeader[i] \/ pc[i] = "won") => owner = i

\* Whatever failed before, once nothing starts, stops, dies or fails for the
\* life of a key and a round of the takeover loop, somebody leads if anybody
\* is up: isLeadershipStale sees the key gone, and no key outlives its leader
\* by more.
ReplacedInTime ==
  quiet > Replacement => \/ \A i \in Instances : life[i] # "up"
                         \/ \E i \in Instances : Acting(i)

\* An instance that stays up does not stay without a leader for ever: the
\* takeover loop of the instance takes the key if nobody else does.
LeaderFound ==
  \A i \in Instances :
    <>[](life[i] = "up") => []<>(\E k \in Instances : Acting(k))
=============================================================================
