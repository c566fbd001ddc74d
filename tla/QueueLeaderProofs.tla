------------------------- MODULE QueueLeaderProofs --------------------------
(***************************************************************************)
(* At most one instance leads, for any number of instances and any periods *)
(* with Beat < KeyTTL, as long as nothing fails; and a leader that is gone *)
(* is replaced in time, whatever failed before.                            *)
(***************************************************************************)
EXTENDS QueueLeader, TLAPS

\* What each instance's own variables say of each other.
Orderly(i) ==
  /\ cron[i] => isLeader[i]
  /\ pc[i] # "loop" => ~isLeader[i]
  /\ life[i] = "down" => pc[i] = "loop" /\ ~isLeader[i]
  /\ beat[i] # NoBeat => isLeader[i] /\ life[i] = "up"

\* The key is i's while i leads or is about to, and cannot run out before the
\* next heartbeat: that is due when KeyTTL - Beat units are left.
KeyHeld(i) ==
  /\ isLeader[i] \/ pc[i] = "won" => owner = i
  /\ pc[i] = "won" => ttl = KeyTTL
  /\ isLeader[i] /\ life[i] = "up" =>
       beat[i] # NoBeat /\ ttl >= beat[i] + (KeyTTL - Beat)

IInv == /\ TypeOK
        /\ \A i \in Instances : Orderly(i)
        /\ faults = 0 => \A i \in Instances : KeyHeld(i)

\* Types, and that the key has an owner exactly while it has time left.
LEMMA TypeStep ==
  ASSUME TypeOK, [Next]_vars
  PROVE  TypeOK'
<1> USE LeaderAssumption DEF TypeOK, NoBeat, Replacement
<1>1. CASE Tick
  BY <1>1 DEF Tick, Elapse, Down, Busy, key, local, bounds, Replacement
<1>2. CASE LateTick
  BY <1>2 DEF LateTick, Elapse, Down, Fault, key, local, bounds, Replacement
<1>3. ASSUME NEW i \in Instances,
              Start(i) \/ TryBecomeLeader(i) \/ TryFails(i) \/ Lead(i)
              \/ TakeoverRound(i) \/ BlindRound(i) \/ Heartbeat(i) \/ HeartbeatFails(i)
              \/ StopBegin(i) \/ StopEnd(i) \/ StopFails(i) \/ Exit(i)
      PROVE  TypeOK'
  <2>1. CASE Start(i)
    BY <2>1 DEF Start, key, timers, local, bounds
  <2>2. CASE TryBecomeLeader(i)
    BY <2>2 DEF TryBecomeLeader, SetNX, key, timers, local, bounds
  <2>3. CASE TryFails(i)
    <3>1. /\ owner' \in Instances \cup {Nobody} /\ ttl' \in 0..KeyTTL
          /\ owner' = Nobody <=> ttl' = 0
      BY <2>3 DEF TryFails, SetNX, key
    <3>2. /\ faults' \in 0..FaultBound /\ boots' \in 0..BootBound
          /\ quiet' \in 0..(Replacement + 1)
      BY <2>3 DEF TryFails, Fault
    <3>3. CASE Dead(i)
      BY <3>1, <3>2, <3>3 DEF Dead
    <3>4. CASE /\ pc' = [pc EXCEPT ![i] = "loop"]
               /\ UNCHANGED <<life, isLeader, cron, timers>>
      BY <3>1, <3>2, <3>4 DEF timers
    <3> QED BY <2>3, <3>3, <3>4 DEF TryFails
  <2>4. CASE Lead(i)
    BY <2>4 DEF Lead, key, timers, local, bounds
  <2>5. CASE TakeoverRound(i)
    BY <2>5 DEF TakeoverRound, key, timers, local, bounds
  <2>6. CASE BlindRound(i)
    BY <2>6 DEF BlindRound, Fault, key, timers, local, bounds
  <2>7. CASE Heartbeat(i)
    BY <2>7 DEF Heartbeat, key, timers, local, bounds
  <2>8. CASE HeartbeatFails(i)
    BY <2>8 DEF HeartbeatFails, Fault, key, timers, local, bounds
  <2>9. CASE StopBegin(i)
    BY <2>9 DEF StopBegin, key, timers, local, bounds
  <2>10. CASE StopEnd(i)
    BY <2>10 DEF StopEnd, key, timers, local, bounds
  <2>11. CASE StopFails(i)
    BY <2>11 DEF StopFails, Fault, key, timers, local, bounds
  <2>12. CASE Exit(i)
    BY <2>12 DEF Exit, Dead, key, timers, local, bounds
  <2> QED BY <1>3, <2>1, <2>2, <2>3, <2>4, <2>5, <2>6, <2>7, <2>8, <2>9, <2>10, <2>11, <2>12
<1>4. CASE UNCHANGED vars BY <1>4 DEF vars
<1> QED BY <1>1, <1>2, <1>3, <1>4 DEF Next

\* No step breaks the order of an instance's own variables.
LEMMA OrderlyStep ==
  ASSUME TypeOK, [Next]_vars,
         \A k \in Instances : Orderly(k)
  PROVE  (\A k \in Instances : Orderly(k))'
<1> USE LeaderAssumption DEF TypeOK, Orderly, NoBeat
<1>1. CASE Tick
  BY <1>1 DEF Tick, Elapse, Down, Busy, key, local, bounds, Replacement
<1>2. CASE LateTick
  BY <1>2 DEF LateTick, Elapse, Down, Fault, key, local, bounds, Replacement
<1>3. ASSUME NEW i \in Instances,
              Start(i) \/ TryBecomeLeader(i) \/ TryFails(i) \/ Lead(i)
              \/ TakeoverRound(i) \/ BlindRound(i) \/ Heartbeat(i) \/ HeartbeatFails(i)
              \/ StopBegin(i) \/ StopEnd(i) \/ StopFails(i) \/ Exit(i)
      PROVE  (\A k \in Instances : Orderly(k))'
  <2>1. CASE Start(i)
    BY <2>1 DEF Start, key, timers, local, bounds
  <2>2. CASE TryBecomeLeader(i)
    BY <2>2 DEF TryBecomeLeader, SetNX, key, timers, local, bounds
  <2>3. CASE TryFails(i)
    BY <2>3 DEF TryFails, SetNX, Fault, Dead, key, timers, local, bounds
  <2>4. CASE Lead(i)
    BY <2>4 DEF Lead, key, timers, local, bounds
  <2>5. CASE TakeoverRound(i)
    BY <2>5 DEF TakeoverRound, key, timers, local, bounds
  <2>6. CASE BlindRound(i)
    BY <2>6 DEF BlindRound, Fault, key, timers, local, bounds
  <2>7. CASE Heartbeat(i)
    BY <2>7 DEF Heartbeat, key, timers, local, bounds
  <2>8. CASE HeartbeatFails(i)
    BY <2>8 DEF HeartbeatFails, Fault, key, timers, local, bounds
  <2>9. CASE StopBegin(i)
    BY <2>9 DEF StopBegin, key, timers, local, bounds
  <2>10. CASE StopEnd(i)
    BY <2>10 DEF StopEnd, key, timers, local, bounds
  <2>11. CASE StopFails(i)
    BY <2>11 DEF StopFails, Fault, key, timers, local, bounds
  <2>12. CASE Exit(i)
    BY <2>12 DEF Exit, Dead, key, timers, local, bounds
  <2> QED BY <1>3, <2>1, <2>2, <2>3, <2>4, <2>5, <2>6, <2>7, <2>8, <2>9, <2>10, <2>11, <2>12
<1>4. CASE UNCHANGED vars BY <1>4 DEF vars
<1> QED BY <1>1, <1>2, <1>3, <1>4 DEF Next

\* A step without a fault leaves the key with whoever holds it.
LEMMA KeyHeldStep ==
  ASSUME TypeOK, TypeOK', [Next]_vars, faults' = 0, faults = 0,
         \A k \in Instances : Orderly(k),
         \A k \in Instances : KeyHeld(k)
  PROVE  (\A k \in Instances : KeyHeld(k))'
<1> USE LeaderAssumption DEF TypeOK, Orderly, KeyHeld, NoBeat
<1>1. CASE Tick
  BY <1>1 DEF Tick, Elapse, Down, Busy, key, local, bounds, Replacement
<1>2. CASE LateTick
  BY <1>2 DEF LateTick, Elapse, Down, Fault, key, local, bounds, Replacement
<1>3. ASSUME NEW i \in Instances,
              Start(i) \/ TryBecomeLeader(i) \/ TryFails(i) \/ Lead(i)
              \/ TakeoverRound(i) \/ BlindRound(i) \/ Heartbeat(i) \/ HeartbeatFails(i)
              \/ StopBegin(i) \/ StopEnd(i) \/ StopFails(i) \/ Exit(i)
      PROVE  (\A k \in Instances : KeyHeld(k))'
  <2>1. CASE Start(i)
    BY <2>1 DEF Start, key, timers, local, bounds
  <2>2. CASE TryBecomeLeader(i)
    BY <2>2 DEF TryBecomeLeader, SetNX, key, timers, local, bounds
  <2>3. CASE TryFails(i)
    BY <2>3 DEF TryFails, SetNX, Fault, Dead, key, timers, local, bounds
  <2>4. CASE Lead(i)
    BY <2>4 DEF Lead, key, timers, local, bounds
  <2>5. CASE TakeoverRound(i)
    BY <2>5 DEF TakeoverRound, key, timers, local, bounds
  <2>6. CASE BlindRound(i)
    BY <2>6 DEF BlindRound, Fault, key, timers, local, bounds
  <2>7. CASE Heartbeat(i)
    BY <2>7 DEF Heartbeat, key, timers, local, bounds
  <2>8. CASE HeartbeatFails(i)
    BY <2>8 DEF HeartbeatFails, Fault, key, timers, local, bounds
  <2>9. CASE StopBegin(i)
    BY <2>9 DEF StopBegin, key, timers, local, bounds
  <2>10. CASE StopEnd(i)
    BY <2>10 DEF StopEnd, key, timers, local, bounds
  <2>11. CASE StopFails(i)
    BY <2>11 DEF StopFails, Fault, key, timers, local, bounds
  <2>12. CASE Exit(i)
    BY <2>12 DEF Exit, Dead, key, timers, local, bounds
  <2> QED BY <1>3, <2>1, <2>2, <2>3, <2>4, <2>5, <2>6, <2>7, <2>8, <2>9, <2>10, <2>11, <2>12
<1>4. CASE UNCHANGED vars BY <1>4 DEF vars
<1> QED BY <1>1, <1>2, <1>3, <1>4 DEF Next

\* IInv holds at first and is kept by every step.
LEMMA Inductive ==
  /\ Init => IInv
  /\ IInv /\ [Next]_vars => IInv'
<1>1. ASSUME Init PROVE IInv
  BY <1>1, LeaderAssumption DEF Init, IInv, TypeOK, Orderly, KeyHeld, NoBeat, Replacement
<1>2. ASSUME IInv, [Next]_vars PROVE IInv'
  <2>1. TypeOK' BY <1>2, TypeStep DEF IInv
  <2>2. (\A i \in Instances : Orderly(i))' BY <1>2, OrderlyStep DEF IInv
  <2>3. ASSUME faults' = 0 PROVE (\A i \in Instances : KeyHeld(i))'
    <3>1. faults' = faults \/ faults' = faults + 1
      BY <1>2, Zenon
      DEF Next, vars, Tick, LateTick, Fault, bounds, Start,
          TryBecomeLeader, TryFails, Lead, TakeoverRound, BlindRound, Heartbeat,
          HeartbeatFails, StopBegin, StopEnd, StopFails, Exit
    <3>2. faults = 0
      BY <1>2, <2>3, <3>1, LeaderAssumption DEF IInv, TypeOK
    <3> QED BY <1>2, <2>1, <2>3, <3>2, KeyHeldStep DEF IInv
  <2> QED BY <2>1, <2>2, <2>3 DEF IInv
<1> QED BY <1>1, <1>2

\* The key, the processes and their timers are well formed for any number of
\* instances and any periods.
THEOREM LeaderTypes == Spec => []TypeOK
<1>1. IInv => TypeOK BY DEF IInv
<1> QED BY <1>1, Inductive, PTL DEF Spec

\* Without faults the key names whoever leads or is about to lead, so that a
\* heartbeat overwrites and a stop deletes no key but the leader's own.
THEOREM KeyIsTheLeaders == Spec => []KeyNamesLeader
<1>1. IInv => KeyNamesLeader
  BY DEF IInv, KeyNamesLeader, Acting, Orderly, KeyHeld
<1> QED BY <1>1, Inductive, PTL DEF Spec

\* Without faults at most one instance runs the cron or reclaims jobs, for any
\* number of instances and any periods with Beat < KeyTTL.
THEOREM AtMostOneLeader == Spec => []OneLeader
<1>1. IInv => OneLeader
  BY DEF IInv, OneLeader, Acting, Orderly, KeyHeld
<1> QED BY <1>1, Inductive, PTL DEF Spec

-----------------------------------------------------------------------------
(* A leader that is gone is replaced *)

\* Somebody leads or is about to.
Led == \E k \in Instances : Acting(k) \/ pc[k] = "won"

\* While nobody leads the key runs out, and whoever is up goes on to a round
\* that comes after that: together they take no longer than Replacement.
WaitInv ==
  /\ \A i \in Instances : life[i] \in {"stopping", "stopped"} \/ pc[i] = "start" => quiet = 0
  /\ ~Led => ttl = 0 \/ ttl + quiet <= KeyTTL
  /\ ~Led => \A i \in Instances : life[i] = "up" =>
       watch[i] + quiet <= Replacement \/ (pc[i] = "claim" /\ ttl = 0)
  /\ ReplacedInTime

\* The wait starts again with every start, stop, death and fault.
LEMMA WaitRestarts == TypeOK /\ quiet = 0 => WaitInv
<1> SUFFICES ASSUME TypeOK, quiet = 0 PROVE WaitInv
  OBVIOUS
<1>1. KeyTTL \in Nat /\ Watch \in Nat /\ ttl \in 0..KeyTTL /\ \A i \in Instances : watch[i] \in 0..Watch
  BY LeaderAssumption DEF TypeOK
<1>2. ttl + quiet <= KeyTTL /\ \A i \in Instances : watch[i] + quiet <= Replacement
  BY <1>1 DEF Replacement
<1>3. ~(quiet > Replacement)
  BY <1>1 DEF Replacement
<1> QED BY <1>2, <1>3 DEF WaitInv, ReplacedInTime

\* A unit of time passes: the key and the timers of those who wait have it less.
LEMMA WaitTick ==
  ASSUME TypeOK, WaitInv, Tick
  PROVE  WaitInv'
<1>1. /\ KeyTTL \in Nat /\ Watch \in Nat /\ ttl \in 0..KeyTTL /\ Replacement = KeyTTL + Watch
      /\ quiet \in Nat /\ watch \in [Instances -> 0..Watch]
  BY LeaderAssumption DEF TypeOK, Replacement
<1>2. UNCHANGED <<life, pc, isLeader, cron>>
  BY DEF Tick, Elapse, local
<1>3. /\ ttl' = Down(ttl)
      /\ \A i \in Instances : life[i] = "up" => watch'[i] = watch[i] - 1 /\ watch[i] > 0
      /\ quiet' = IF quiet > Replacement THEN quiet ELSE quiet + 1
      /\ \A i \in Instances : pc[i] = "loop" /\ life[i] \notin {"stopping", "stopped"}
  BY <1>1 DEF Tick, Elapse, Down, Busy
<1>4. Led' <=> Led
  BY <1>2 DEF Led, Acting
<1>5. ASSUME ~Led PROVE ttl' = 0 \/ ttl' + quiet' <= KeyTTL
  BY <1>1, <1>3, <1>5 DEF WaitInv, Down
<1>6. ASSUME ~Led, NEW i \in Instances, life[i] = "up"
      PROVE  watch'[i] + quiet' <= Replacement
  <2>1. watch[i] + quiet <= Replacement /\ watch[i] \in Nat
    BY <1>1, <1>3, <1>6 DEF WaitInv
  <2> QED BY <1>1, <1>3, <1>6, <2>1
<1>7. ASSUME quiet' > Replacement', NEW i \in Instances, life[i] = "up"
      PROVE  \E k \in Instances : Acting(k)'
  <2>1. watch'[i] \in Nat /\ quiet' > Replacement
    BY <1>1, <1>3, <1>7 DEF Replacement
  <2>2. Led
    BY <1>1, <1>3, <1>6, <1>7, <2>1
  <2> QED BY <1>2, <1>3, <2>2 DEF Led, Acting
<1>8. ReplacedInTime'
  BY <1>2, <1>7 DEF ReplacedInTime
<1> QED BY <1>2, <1>3, <1>4, <1>5, <1>6, <1>8 DEF WaitInv, Replacement

\* Which instances act, and whether one is about to, stays as it is unless the
\* step makes a leader.
LEMMA WaitStep ==
  ASSUME TypeOK, TypeOK', \A k \in Instances : Orderly(k), WaitInv, [Next]_vars
  PROVE  WaitInv'
<1>1. /\ KeyTTL \in Nat /\ Watch \in Nat /\ ttl \in 0..KeyTTL /\ Replacement = KeyTTL + Watch
      /\ quiet \in Nat /\ watch \in [Instances -> 0..Watch]
      /\ pc \in [Instances -> {"loop", "start", "claim", "won"}]
      /\ life \in [Instances -> {"down", "up", "stopping", "stopped"}]
      /\ isLeader \in [Instances -> BOOLEAN] /\ cron \in [Instances -> BOOLEAN]
  BY LeaderAssumption DEF TypeOK, Replacement
<1>2. CASE quiet' = 0
  <2>1. (TypeOK /\ quiet = 0 => WaitInv)'
    BY WaitRestarts, PTL
  <2> QED BY <1>2, <2>1
<1>3. CASE Tick
  BY <1>3, WaitTick
<1>4. ASSUME NEW i \in Instances, TryBecomeLeader(i) PROVE WaitInv'
  <2>1. PICK done \in BOOLEAN :
          /\ SetNX(i, done)
          /\ pc' = [pc EXCEPT ![i] = IF done THEN "won" ELSE "loop"]
          /\ isLeader' = [isLeader EXCEPT ![i] = FALSE]
    BY <1>4 DEF TryBecomeLeader
  <2>2. UNCHANGED <<life, cron, watch, quiet>> /\ pc[i] \in {"start", "claim"}
    BY <1>4 DEF TryBecomeLeader, timers
  <2>3. ~isLeader[i]
    BY <2>2 DEF Orderly
  <2>4. \A k \in Instances : Acting(k)' <=> Acting(k)
    BY <1>1, <2>1, <2>2, <2>3 DEF Acting
  <2>5. ReplacedInTime'
    BY <2>2, <2>4 DEF WaitInv, ReplacedInTime, Replacement
  <2>6. \A k \in Instances : life'[k] \in {"stopping", "stopped"} \/ pc'[k] = "start" => quiet' = 0
    BY <1>1, <2>1, <2>2 DEF WaitInv
  <2>7. CASE done
    <3>1. Led'
      BY <1>1, <2>1, <2>7 DEF Led
    <3> QED BY <2>5, <2>6, <3>1 DEF WaitInv
  <2>8. CASE ~done
    <3>1. ttl # 0 /\ ttl' = ttl
      BY <2>1, <2>8 DEF SetNX, key
    <3>2. Led => Led'
      BY <1>1, <2>1, <2>2, <2>4 DEF Led
    <3> QED BY <2>2, <2>5, <2>6, <3>1, <3>2 DEF WaitInv, Replacement
  <2> QED BY <2>7, <2>8
<1>5. ASSUME NEW i \in Instances, Lead(i) PROVE WaitInv'
  <2>1. /\ cron' = [cron EXCEPT ![i] = TRUE] /\ pc' = [pc EXCEPT ![i] = "loop"]
        /\ UNCHANGED <<life, quiet>>
    BY <1>5 DEF Lead
  <2>2. Acting(i)'
    BY <1>1, <2>1 DEF Acting
  <2>3. Led' /\ ReplacedInTime'
    BY <2>2 DEF Led, ReplacedInTime
  <2>4. \A k \in Instances : life'[k] \in {"stopping", "stopped"} \/ pc'[k] = "start" => quiet' = 0
    BY <1>1, <2>1 DEF WaitInv
  <2> QED BY <2>3, <2>4 DEF WaitInv
<1>6. ASSUME NEW i \in Instances, TakeoverRound(i) PROVE WaitInv'
  <2>1. /\ watch' = [watch EXCEPT ![i] = Watch]
        /\ pc' = [pc EXCEPT ![i] = IF ~isLeader[i] /\ IsLeadershipStale THEN "claim" ELSE "loop"]
        /\ UNCHANGED <<ttl, life, isLeader, cron, quiet>> /\ pc[i] = "loop" /\ life[i] = "up"
    BY <1>6 DEF TakeoverRound, key
  <2>2. (\A k \in Instances : Acting(k)' <=> Acting(k)) /\ (Led' <=> Led)
    BY <1>1, <2>1 DEF Led, Acting
  <2>3. ReplacedInTime'
    BY <2>1, <2>2 DEF WaitInv, ReplacedInTime, Replacement
  <2>4. \A k \in Instances : life'[k] \in {"stopping", "stopped"} \/ pc'[k] = "start" => quiet' = 0
    BY <1>1, <2>1 DEF WaitInv
  <2>5. ASSUME ~Led PROVE watch'[i] + quiet' <= Replacement \/ (pc'[i] = "claim" /\ ttl' = 0)
    <3>1. ~isLeader[i]
      BY <2>1, <2>5 DEF Led, Acting
    <3>2. CASE ttl = 0
      BY <1>1, <2>1, <3>1, <3>2 DEF IsLeadershipStale
    <3>3. CASE ttl # 0
      <4>1. ttl + quiet <= KeyTTL
        BY <2>5, <3>3 DEF WaitInv
      <4>2. watch'[i] = Watch /\ quiet' = quiet
        BY <1>1, <2>1
      <4> QED BY <1>1, <4>1, <4>2
    <3> QED BY <3>2, <3>3
  <2>6. ASSUME ~Led, NEW k \in Instances, life[k] = "up"
        PROVE  watch'[k] + quiet' <= Replacement \/ (pc'[k] = "claim" /\ ttl' = 0)
    <3>1. CASE k = i
      BY <2>5, <2>6, <3>1
    <3>2. CASE k # i
      BY <1>1, <2>1, <2>6, <3>2 DEF WaitInv
    <3> QED BY <3>1, <3>2
  <2> QED BY <2>1, <2>2, <2>3, <2>4, <2>6 DEF WaitInv, Replacement
<1>7. ASSUME NEW i \in Instances, Heartbeat(i) PROVE WaitInv'
  <2>1. UNCHANGED <<life, pc, isLeader, cron, quiet>> /\ beat[i] = 0
    BY <1>7 DEF Heartbeat, local
  <2>2. Acting(i)
    BY <2>1, LeaderAssumption DEF Orderly, NoBeat, Acting
  <2>3. Led' /\ ReplacedInTime'
    BY <2>1, <2>2 DEF Led, Acting, ReplacedInTime
  <2> QED BY <2>1, <2>3 DEF WaitInv
<1>8. ASSUME NEW i \in Instances, StopEnd(i) PROVE quiet' = 0
  BY <1>8 DEF StopEnd, WaitInv
<1>9. CASE UNCHANGED vars
  BY <1>9 DEF vars, WaitInv, Led, Acting, ReplacedInTime, Replacement
<1>10. ASSUME NEW i \in Instances,
              Start(i) \/ TryFails(i) \/ BlindRound(i) \/ HeartbeatFails(i)
              \/ StopBegin(i) \/ StopFails(i) \/ Exit(i)
       PROVE  quiet' = 0
  BY <1>10 DEF Start, TryFails, BlindRound, HeartbeatFails, StopBegin, StopFails, Exit
<1>11. CASE LateTick
  BY <1>2, <1>11 DEF LateTick
<1> QED BY <1>2, <1>3, <1>4, <1>5, <1>6, <1>7, <1>8, <1>9, <1>10, <1>11 DEF Next

\* Once nothing starts, stops, dies or fails for the life of a key and a round
\* of the takeover loop, somebody leads if anybody is up, for any number of
\* instances and any periods: no key outlives its leader by more than KeyTTL,
\* and isLeadershipStale takes a key that is gone for stale.
THEOREM LeaderReplaced == Spec => []ReplacedInTime
<1> DEFINE RInv == IInv /\ WaitInv
<1>1. Init => RInv
  <2> SUFFICES ASSUME Init PROVE RInv
    OBVIOUS
  <2>1. IInv /\ quiet = 0
    BY Inductive DEF Init
  <2> QED BY <2>1, WaitRestarts DEF IInv
<1>2. RInv /\ [Next]_vars => RInv'
  <2> SUFFICES ASSUME RInv, [Next]_vars PROVE RInv'
    OBVIOUS
  <2>1. IInv'
    BY Inductive
  <2>2. WaitInv'
    BY <2>1, WaitStep DEF IInv
  <2> QED BY <2>1, <2>2
<1>3. RInv => ReplacedInTime
  BY DEF WaitInv
<1> QED BY <1>1, <1>2, <1>3, PTL DEF Spec
=============================================================================
