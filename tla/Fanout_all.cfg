SPECIFICATION Spec
CONSTANTS
  ch1 = ch1  ch2 = ch2  s1 = s1  s2 = s2  l1 = l1  l2 = l2  None = None
  Channels = {ch1, ch2}
  Subs = {s1}
  Listeners = {l1, l2}
  Capacity = 1
  MsgBound = 3
  FaultBound = 1
INVARIANTS OnceEach
PROPERTIES InOrder FanoutEnds
CHECK_DEADLOCK FALSE
