CONSTANTS
  j1 = j1 j2 = j2 w1 = w1 w2 = w2 p1 = p1 p2 = p2 s1 = s1 s2 = s2 k1 = k1
  Unborn = Unborn
  Gone = Gone
  NoKey = NoKey
  NoWorker = NoWorker
  Jobs = {j1}
  Workers = {w1, w2}
  Registered = {}
  Procs = {p1}
  Schedulers = {s1}
  PlatformJobs = {}
  KeyOf <- NoKeys
  MaxAttempts = 1
  BatchSize = 1
  ClaimBound = 2
SPECIFICATION Spec
INVARIANTS SingleHolder
CHECK_DEADLOCK FALSE
