SPECIFICATION AllSpec
CONSTANTS
  i1 = i1
  i2 = i2
  workers = workers
  cascade = cascade
  Instances = {i1, i2}
  Tasks = {workers, cascade}
  Schedule <- EveryMinute
  Bucket <- EveryMinute
  LockTimeout <- Timeouts
  Skew <- OneIsFast
  Horizon = 13
  LastBucket = 3
  FaultBound = 1
  EventBound = 1
  LoadBound = 1
  ErrorBound = 1
  q1 = q1
  q2 = q2
  NoLimits = NoLimits
  Requests <- MCRequests
  Limits = {0, 1, 2}
  Window = 2
  ClockBound = 2
  SetBound = 2
  PassBound = 3
  p1 = p1
  p2 = p2
  c1 = "c1"
  c2 = "c2"
  Publishers = {p1, p2}
  Channels = {"c1", "c2"}
  Refused = {"c2"}
  NameLists <- MCNameLists
  Permissions <- MCPermissions
  Unreadable = Unreadable
  OutageBound = 1
  LimitBound = 1
  Ids = {k1}
  Handlers = {h1, h2, h3}
  Unborn = Unborn
  Gone = Gone
  Duties = {d1, d2}
  Attempts = 2
  TickBound = 2
  MishapBound = 2
  NoDuty = NoDuty
INVARIANTS
  EachTickOnce
  CountedExactly LeavesNothing
  RateHeld LimitsHold
  AnswerIsTrue FailsForCause
  WorkersHold JobsAnswered
PROPERTIES GaugeFollows
CHECK_DEADLOCK FALSE
