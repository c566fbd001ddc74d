-------------------------------- MODULE Meter --------------------------------
(***************************************************************************)
(* The figures of one project on one instance: events counted in memory,   *)
(* copied to Redis by the snapshot loop, and read and deleted there by an  *)
(* aggregator outside this server; the gauge of its connections; and the   *)
(* row of the instance, with its heartbeat.  The snapshot loop, the        *)
(* heartbeat and the shutdown are goroutines: each step of theirs is one   *)
(* read or write of Redis, of the database or of a locked counter.         *)
(***************************************************************************)
EXTENDS Integers

CONSTANTS
  EventBound,   \* bound on the events that are counted
  LoadBound,    \* bound on the connections of the project
  ErrorBound    \* bound on the errors of Redis and of the database

ASSUME MeterAssumption == EventBound \in Nat /\ LoadBound \in Nat /\ ErrorBound \in Nat

VARIABLES
  phase,        \* how far the start or the shutdown of the server is
  load,         \* connections of the project
  channel,      \* the project has a channel here
  counter,      \* the counter in memory: whether it exists, and what it counts
  totals,       \* the accumulating keys in Redis: whether they exist, and their sum
  gauge,        \* the connection key in Redis, or NoGauge
  row,          \* status of the instance's row
  snap,         \* the snapshot loop
  beat,         \* the heartbeat
  recorded,     \* history: events so far
  written,      \* history: events ever part of a sum in Redis
  once, twice,  \* history: events aggregated, and those aggregated again
  overlapped,   \* history: aggregated during a snapshot, or Redis failed to answer
  loose,        \* history: what was under way or due when it was stopped, or failed to stop
  failures

telemetry == <<counter, totals, recorded, written, once, twice, overlapped>>
instance == <<phase, row, beat, loose>>
meterVars == <<telemetry, instance, load, channel, gauge, snap, failures>>

NoGauge == -1
Resting == [pc |-> "idle", sum |-> {}, load |-> 0, due |-> FALSE]
Running == phase \notin {"off", "failed", "exited"}
Failure == failures < ErrorBound /\ failures' = failures + 1

MeterInit ==
  /\ phase = "off" /\ load = 0 /\ channel = FALSE
  /\ counter = [exists |-> FALSE, ids |-> {}]
  /\ totals = [exists |-> FALSE, ids |-> {}] /\ gauge = NoGauge
  /\ row = "none" /\ snap = Resting /\ beat = [pc |-> "idle", due |-> FALSE]
  /\ recorded = 0 /\ written = {} /\ once = {} /\ twice = {}
  /\ overlapped = FALSE /\ loose = {} /\ failures = 0

-----------------------------------------------------------------------------
\* Register, for an instance ID no row has yet; its failure ends the start.
Register ==
  /\ phase = "off"
  /\ \/ phase' = "registered" /\ row' = "active" /\ UNCHANGED failures
     \/ phase' = "failed" /\ UNCHANGED row /\ Failure
  /\ UNCHANGED <<telemetry, load, channel, gauge, snap, beat, loose>>

StartSnapshots ==
  /\ phase = "registered" /\ phase' = "up"
  /\ UNCHANGED <<telemetry, load, channel, gauge, snap, row, beat, loose, failures>>

Connections ==
  /\ Running /\ load' \in {load - 1, load + 1} \cap 0..LoadBound
  /\ UNCHANGED <<telemetry, instance, channel, gauge, snap, failures>>

\* Channels of this instance are never deleted.
CreateChannel ==
  /\ Running /\ ~channel /\ channel' = TRUE
  /\ UNCHANGED <<telemetry, instance, load, gauge, snap, failures>>

\* Record: an event in the sums, or a rejected message, which is in none.
Record ==
  /\ Running
  /\ \/ /\ recorded < EventBound /\ recorded' = recorded + 1
        /\ counter' = [exists |-> TRUE, ids |-> counter.ids \cup {recorded'}]
     \/ ~counter.exists /\ counter' = [counter EXCEPT !.exists = TRUE] /\ UNCHANGED recorded
  /\ UNCHANGED <<instance, totals, written, once, twice, overlapped, load, channel, gauge,
                 snap, failures>>

\* The aggregator reads the sums and deletes their keys.
Aggregate ==
  /\ totals.exists /\ totals' = [exists |-> FALSE, ids |-> {}]
  /\ once' = once \cup totals.ids /\ twice' = twice \cup (totals.ids \cap once)
  /\ overlapped' = (overlapped \/ snap.pc \notin {"idle", "check"})
  /\ UNCHANGED <<counter, recorded, written, instance, load, channel, gauge, snap, failures>>

-----------------------------------------------------------------------------
SnapGoes(pc) == snap' = [snap EXCEPT !.pc = pc]

\* syncLoop and the first reads of syncStatsToRedis: a project is part of the
\* snapshot when it has a channel or a counter.
Tick ==
  /\ snap.pc = "idle" /\ (phase = "up" \/ (Running /\ snap.due))
  /\ channel \/ counter.exists
  /\ snap' = [Resting EXCEPT !.pc = IF counter.exists THEN "check" ELSE "copy"]
  /\ UNCHANGED <<telemetry, instance, load, channel, gauge, failures>>

\* checkAndResetAccumulatingStats: keys that are gone, or cannot be read, start
\* the counter again.
\* Mutant: the counter goes on from where it was.
ResetForProject_Not ==
  /\ snap.pc = "reset" /\ SnapGoes("zero")
  /\ UNCHANGED <<telemetry, instance, load, channel, gauge, failures>>
ResetForProject ==
  /\ snap.pc = "reset" /\ SnapGoes("zero")
  /\ counter' = [counter EXCEPT !.ids = {}]
  /\ UNCHANGED <<totals, recorded, written, once, twice, overlapped,
                 instance, load, channel, gauge, failures>>

WriteTotals(ids, pc) ==
  /\ SnapGoes(pc)
  /\ \/ /\ totals' = [exists |-> TRUE, ids |-> ids] /\ written' = written \cup ids
        /\ UNCHANGED failures
     \/ UNCHANGED <<totals, written>> /\ Failure
  /\ UNCHANGED <<counter, recorded, once, twice, overlapped, instance, load, channel, gauge>>

CheckAndReset ==
  \/ /\ snap.pc = "check"
     /\ \/ SnapGoes(IF totals.exists THEN "copy" ELSE "reset") /\ UNCHANGED <<overlapped, failures>>
        \/ SnapGoes("reset") /\ overlapped' = TRUE /\ Failure
     /\ UNCHANGED <<counter, totals, recorded, written, once, twice,
                    instance, load, channel, gauge>>
  \/ ResetForProject
  \/ snap.pc = "zero" /\ WriteTotals({}, "copy")

\* GetCounter, and CountByProject.
ReadFigures ==
  /\ snap.pc = "copy"
  /\ snap' = [snap EXCEPT !.pc = "gauge", !.sum = counter.ids, !.load = load]
  /\ UNCHANGED <<telemetry, instance, load, channel, gauge, failures>>

\* writeSnapshotToRedis: the gauges, then the sums.
\* Mutant: a figure of zero is not written.
WriteGauges_NotZero ==
  /\ snap.pc = "gauge" /\ SnapGoes("sum")
  /\ \/ gauge' = (IF snap.load = 0 THEN gauge ELSE snap.load) /\ UNCHANGED failures
     \/ UNCHANGED gauge /\ Failure
  /\ UNCHANGED <<telemetry, instance, load, channel>>
WriteGauges ==
  /\ snap.pc = "gauge" /\ SnapGoes("sum")
  /\ \/ gauge' = snap.load /\ UNCHANGED failures
     \/ UNCHANGED gauge /\ Failure
  /\ UNCHANGED <<telemetry, instance, load, channel>>

WriteSums == snap.pc = "sum" /\ WriteTotals(snap.sum, "idle")

SyncStatsToRedis ==
  \/ Tick \/ CheckAndReset \/ ReadFigures \/ WriteGauges \/ WriteSums

-----------------------------------------------------------------------------
\* Heartbeat: the row is read, and saved as active.
Heartbeat ==
  /\ \/ /\ beat.pc = "idle" /\ Running /\ (phase \in {"registered", "up", "unsnapped"} \/ beat.due)
        /\ \/ beat' = [pc |-> "save", due |-> FALSE] /\ UNCHANGED failures
           \/ beat' = [beat EXCEPT !.due = FALSE] /\ Failure
        /\ UNCHANGED row
     \/ /\ beat.pc = "save" /\ Running /\ beat' = [beat EXCEPT !.pc = "idle"]
        /\ \/ row' = "active" /\ UNCHANGED failures
           \/ UNCHANGED row /\ Failure
  /\ UNCHANGED <<telemetry, phase, loose, load, channel, gauge, snap>>

\* Stop of the snapshot service: the snapshot under way goes on, and a tick that
\* is due may still be taken, for the loop's select chooses at random.
StopSnapshots ==
  /\ phase = "up" /\ phase' = "unsnapped"
  /\ \E due \in BOOLEAN :
       /\ snap' = [snap EXCEPT !.due = due]
       /\ loose' = loose \cup (IF due \/ snap.pc # "idle" THEN {"gauge"} ELSE {})
  /\ UNCHANGED <<telemetry, load, channel, gauge, row, beat, failures>>

\* Shutdown of the instance: the heartbeat is told to stop, and Deregister
\* reads the row, saves it as inactive and deletes the gauges.
\* Mutant: the instance is deregistered before its snapshots stop.
StopHeartbeat_First ==
  /\ phase \in {"up", "unsnapped"} /\ phase' = "find"
  /\ \E due \in BOOLEAN :
       /\ beat' = [beat EXCEPT !.due = due]
       /\ loose' = loose \cup (IF due \/ beat.pc # "idle" THEN {"row"} ELSE {})
  /\ UNCHANGED <<telemetry, load, channel, gauge, snap, row, failures>>
StopHeartbeat ==
  /\ phase = "unsnapped" /\ phase' = "find"
  /\ \E due \in BOOLEAN :
       /\ beat' = [beat EXCEPT !.due = due]
       /\ loose' = loose \cup (IF due \/ beat.pc # "idle" THEN {"row"} ELSE {})
  /\ UNCHANGED <<telemetry, load, channel, gauge, snap, row, failures>>

Breaks(what) == phase' = "stopped" /\ loose' = loose \cup what /\ Failure

Deregister ==
  /\ \/ /\ phase = "find"
        /\ \/ phase' = "save" /\ UNCHANGED <<loose, failures>>
           \/ Breaks({"row", "gauge"})
        /\ UNCHANGED <<row, gauge>>
     \/ /\ phase = "save"
        /\ \/ phase' = "reset" /\ row' = "inactive" /\ UNCHANGED <<loose, failures>>
           \/ Breaks({"row", "gauge"}) /\ UNCHANGED row
        /\ UNCHANGED gauge
     \/ /\ phase = "reset"
        /\ \/ phase' = "stopped" /\ gauge' = NoGauge /\ UNCHANGED <<loose, failures>>
           \/ Breaks({"gauge"}) /\ UNCHANGED gauge
        /\ UNCHANGED row
  /\ UNCHANGED <<telemetry, beat, load, channel, snap>>

Exit ==
  /\ phase = "stopped" /\ phase' = "exited"
  /\ snap' = Resting /\ beat' = [pc |-> "idle", due |-> FALSE]
  /\ UNCHANGED <<telemetry, load, channel, gauge, row, loose, failures>>

-----------------------------------------------------------------------------
MeterNext ==
  \/ Register \/ StartSnapshots \/ Connections \/ CreateChannel \/ Record \/ Aggregate
  \/ (Running /\ SyncStatsToRedis) \/ Heartbeat
  \/ StopSnapshots \/ StopHeartbeat \/ Deregister \/ Exit

MeterSpec == MeterInit /\ [][MeterNext]_meterVars

-----------------------------------------------------------------------------
\* An event that got into Redis is aggregated once, or is still there, however
\* snapshots and aggregations alternate; only an aggregation in the middle of a
\* snapshot and an error of Redis are excused (checkAndResetAccumulatingStats).
CountedExactly ==
  ~overlapped =>
    twice = {} /\ \A e \in written : (e \in once) # (e \in totals.ids)

\* Once the connections of a project stay as they are, so does their gauge,
\* with their number (syncStatsToRedis).
GaugeFollows ==
  \A n \in 0..LoadBound :
    <>[](phase = "up" /\ load = n /\ (channel \/ counter.exists)) => <>[](gauge = n)

\* A shutdown leaves no active row and no gauge behind, unless the heartbeat or
\* a snapshot was under way or due as it was stopped, or the database or Redis
\* failed (InstanceServiceManager.Shutdown, Deregister, the order of Shutdown).
LeavesNothing ==
  phase = "exited" =>
    /\ row = "active" => "row" \in loose
    /\ gauge # NoGauge => "gauge" \in loose
=============================================================================
