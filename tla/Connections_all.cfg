SPECIFICATION FairSpec
CONSTANTS
  c1 = c1  d1 = d1  Nobody = Nobody
  Conns = {c1}
  Senders = {d1}
  Capacity = 1
  Threshold = 2
  LoadBound = 3
INVARIANTS OneWriter
PROPERTIES DisconnectEnds EntryGoes QueueDrains
CHECK_DEADLOCK FALSE
