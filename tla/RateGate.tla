------------------------------ MODULE RateGate ------------------------------
(***************************************************************************)
(* The gate a message of one project passes, in one direction: the limit   *)
(* of the tenant, looked up in a cache of this instance before the store,  *)
(* and the fixed-window limiter of the project, which is replaced when a   *)
(* request comes with another limit.  Requests run at once; only the cache *)
(* and each limiter have a lock.                                           *)
(***************************************************************************)
EXTENDS Integers, Sequences, FiniteSets

CONSTANTS
  Requests,     \* messages at the gate at one time
  Limits,       \* what SetLimits may be called with
  NoLimits,     \* no row, nothing cached
  Window,       \* length of a limiter's window, in ticks
  ClockBound,   \* bound on the clock
  SetBound,     \* bound on the calls of SetLimits, on any instance
  PassBound     \* bound on the messages that pass a limiter

ASSUME GateAssumption ==
  /\ IsFiniteSet(Requests) /\ Requests # {}
  /\ Limits \subseteq Int /\ NoLimits \notin Limits
  /\ Window \in Nat \ {0} /\ ClockBound \in Nat /\ SetBound \in Nat /\ PassBound \in Nat

Unlimited == -1

VARIABLES
  clock,
  limitsRow,    \* the tenant's row in the store
  limitsCache,  \* limits of the tenant service of this instance
  setting,      \* the limits SetLimits holds the lock with, or NoLimits
  limiters,     \* the limiters made so far; the last one is the project's
  at,           \* what each request is doing
  passed,       \* history: when a message passed a limiter, and which
  sets,         \* history: calls of SetLimits
  moves,        \* history: changes of the limits this instance goes by
  unseen        \* history: the row changed beside the cache, or during a lookup

gateVars ==
  <<clock, limitsRow, limitsCache, setting, limiters, at, passed, sets, moves, unseen>>

AtGate == [pc |-> "idle", limit |-> Unlimited, limiter |-> 0]
Moves(q, r) == at' = [at EXCEPT ![q] = r]

GateInit ==
  /\ clock = 0
  /\ limitsRow = NoLimits /\ limitsCache = NoLimits /\ setting = NoLimits
  /\ limiters = <<>>
  /\ at = [q \in Requests |-> AtGate]
  /\ passed = <<>> /\ sets = 0 /\ moves = 0 /\ unseen = FALSE

-----------------------------------------------------------------------------
\* What a request is told that asks now.
InForce == IF limitsCache # NoLimits THEN limitsCache ELSE limitsRow
CountMoves == moves' = IF InForce' = InForce THEN moves ELSE moves + 1

\* GetLimits: the cache, under its lock,
GetLimits(q) ==
  /\ at[q].pc = "idle" /\ Len(passed) < PassBound /\ setting = NoLimits
  /\ Moves(q, IF limitsCache # NoLimits
              THEN [AtGate EXCEPT !.pc = "limiter", !.limit = limitsCache]
              ELSE [AtGate EXCEPT !.pc = "find"])
  /\ UNCHANGED <<clock, limitsRow, limitsCache, setting, limiters, passed, sets, moves, unseen>>

\* or else the row, without the lock; when there is none, or the read fails, the
\* message passes.
FindLimits(q) ==
  /\ at[q].pc = "find"
  /\ \/ limitsRow # NoLimits /\ Moves(q, [AtGate EXCEPT !.pc = "cache", !.limit = limitsRow])
     \/ Moves(q, AtGate)
  /\ UNCHANGED <<clock, limitsRow, limitsCache, setting, limiters, passed, sets, moves, unseen>>

CacheLimits(q) ==
  /\ at[q].pc = "cache" /\ setting = NoLimits
  /\ limitsCache' = at[q].limit
  /\ Moves(q, [at[q] EXCEPT !.pc = "limiter"])
  /\ UNCHANGED <<clock, limitsRow, setting, limiters, passed, sets, unseen>>
  /\ CountMoves

\* ProjectLimiter.Allow: a limiter with another limit is replaced, its count
\* with it; a limit of zero or less is none.
\* Mutant: every message makes a limiter.
PickLimiter_Anew(q) ==
  /\ at[q].pc = "limiter" /\ at[q].limit > 0
  /\ limiters' = Append(limiters, [limit |-> at[q].limit, start |-> clock, count |-> 0])
  /\ Moves(q, [at[q] EXCEPT !.pc = "allow", !.limiter = Len(limiters')])
  /\ UNCHANGED <<clock, limitsRow, limitsCache, setting, passed, sets, moves, unseen>>
PickLimiter(q) ==
  LET n == Len(limiters) IN
  /\ at[q].pc = "limiter"
  /\ \/ at[q].limit <= 0 /\ Moves(q, AtGate) /\ UNCHANGED limiters
     \/ /\ at[q].limit > 0
        /\ limiters' = IF n > 0 /\ limiters[n].limit = at[q].limit THEN limiters
                       ELSE Append(limiters, [limit |-> at[q].limit, start |-> clock,
                                              count |-> 0])
        /\ Moves(q, [at[q] EXCEPT !.pc = "allow", !.limiter = Len(limiters')])
  /\ UNCHANGED <<clock, limitsRow, limitsCache, setting, passed, sets, moves, unseen>>

\* FixedWindowLimiter.Allow, under the limiter's lock: a window begins with the
\* first message after the end of the one before.
Allow(q) ==
  LET k == at[q].limiter
      l == limiters[k]
  IN
  /\ at[q].pc = "allow"
  /\ \/ /\ clock - l.start >= Window
        /\ limiters' = [limiters EXCEPT ![k].start = clock, ![k].count = 1]
        /\ passed' = Append(passed, [at |-> clock, by |-> k])
     \/ /\ clock - l.start < Window /\ l.count < l.limit
        /\ limiters' = [limiters EXCEPT ![k].count = @ + 1]
        /\ passed' = Append(passed, [at |-> clock, by |-> k])
     \/ clock - l.start < Window /\ l.count >= l.limit /\ UNCHANGED <<limiters, passed>>
  /\ Moves(q, AtGate)
  /\ UNCHANGED <<clock, limitsRow, limitsCache, setting, sets, moves, unseen>>

\* SetLimits: under the lock the row is written, then the cache.
Looking == \E q \in Requests : at[q].pc = "cache"

\* Mutant: the cache is set before the row, which may fail to be written.
SetLimits_CacheFirst ==
  \/ /\ setting = NoLimits /\ sets < SetBound
     /\ \E l \in Limits : limitsCache' = l /\ setting' = l
     /\ sets' = sets + 1 /\ unseen' = (unseen \/ Looking)
     /\ UNCHANGED <<clock, limitsRow, limiters, at, passed>>
     /\ CountMoves
  \/ /\ setting # NoLimits
     /\ limitsRow' \in {setting, limitsRow} /\ setting' = NoLimits
     /\ UNCHANGED <<clock, limitsCache, limiters, at, passed, sets, unseen>>
     /\ CountMoves
SetLimits ==
  \/ /\ setting = NoLimits /\ sets < SetBound
     /\ \E l \in Limits : limitsRow' = l /\ setting' = l
     /\ sets' = sets + 1 /\ unseen' = (unseen \/ Looking)
     /\ UNCHANGED <<clock, limitsCache, limiters, at, passed>>
     /\ CountMoves
  \/ /\ setting # NoLimits
     /\ limitsCache' = setting /\ setting' = NoLimits
     /\ UNCHANGED <<clock, limitsRow, limiters, at, passed, sets, unseen>>
     /\ CountMoves

\* The same call answered by another instance.
SetElsewhere ==
  /\ sets < SetBound
  /\ \E l \in Limits : limitsRow' = l
  /\ sets' = sets + 1
  /\ unseen' = (unseen \/ Looking \/ setting # NoLimits \/ limitsCache # NoLimits)
  /\ UNCHANGED <<clock, limitsCache, setting, limiters, at, passed>>
  /\ CountMoves

\* DeleteLimits, when the tenant's deletion gets to its row: the store knows
\* nothing of the caches.
ForgetLimits ==
  /\ limitsRow # NoLimits /\ limitsRow' = NoLimits
  /\ unseen' = (unseen \/ Looking \/ setting # NoLimits \/ limitsCache # NoLimits)
  /\ UNCHANGED <<clock, limitsCache, setting, limiters, at, passed, sets>>
  /\ CountMoves

ClockTicks ==
  /\ clock < ClockBound /\ clock' = clock + 1
  /\ UNCHANGED <<limitsRow, limitsCache, setting, limiters, at, passed, sets, moves, unseen>>

GateNext ==
  \/ \E q \in Requests : GetLimits(q) \/ FindLimits(q) \/ CacheLimits(q) \/ PickLimiter(q) \/ Allow(q)
  \/ SetLimits \/ SetElsewhere \/ ForgetLimits \/ ClockTicks

GateSpec == GateInit /\ [][GateNext]_gateVars

-----------------------------------------------------------------------------
\* A limiter lets no more through in any window of time than its two fixed
\* windows that it touches, however many requests are at it; and a change of the
\* limits makes at most two limiters, there and back, for each request that still
\* has the limits of before (ProjectLimiter.Allow, FixedWindowLimiter.Allow).
Passes(k, from, to) ==
  {i \in DOMAIN passed : passed[i].by = k /\ passed[i].at >= from /\ passed[i].at < to}
WindowHeld ==
  \A k \in DOMAIN limiters : \A t \in 0..clock :
    Cardinality(Passes(k, t, t + Window)) <= 2 * limiters[k].limit
FewLimiters ==
  Len(limiters) <= IF moves = 0 THEN 0 ELSE 1 + (2 * Cardinality(Requests) - 1) * (moves - 1)
RateHeld == WindowHeld /\ FewLimiters

\* The limit this instance goes by is the one that was set, unless the row was
\* set by another instance, or deleted with its tenant, under a cached limit, or
\* written while a request was reading it (tenant SetLimits, GetLimits; DeleteLimits).
LimitsHold ==
  setting = NoLimits /\ limitsCache # NoLimits /\ ~unseen => limitsCache = limitsRow
=============================================================================
