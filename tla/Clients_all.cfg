SPECIFICATION AllSpec
CONSTANTS
  c1 = c1  c2 = c2  ch1 = ch1  ch2 = ch2  h1 = h1  h2 = h2
  w1 = w1  w2 = w2  u1 = u1  all = all  some = some
  Clients = {c1, c2}
  Channels = {ch1, ch2}
  Handlers = {h1, h2}
  SubBound = 2
  RequestBound = 3
  FaultBound = 1
  Controllers = {w1, w2}
  Callers = {u1}
  Grants = {all, some}
  Omitted = Omitted
  NoKey = NoKey
  NoToken = NoToken
  Duration = 2
  MaxDuration = 1
  Tolerance = 1
  TimeBound = 3
  ChangeBound = 2
  TokenBound = 1
INVARIANTS
  GhostsAreLate OneSubscription ToldIsTrue
  UpdateHolds AdmittedForCause
SYMMETRY Alike
CHECK_DEADLOCK FALSE
