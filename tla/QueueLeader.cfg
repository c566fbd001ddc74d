SPECIFICATION FairSpec
CONSTANTS
  i1 = i1
  i2 = i2
  i3 = i3
  Instances = {i1, i2, i3}
  Nobody = Nobody
  KeyTTL = 6
  Beat = 4
  Watch = 5
  StaleBelow = 2
  FaultBound = 1
  BootBound = 3
INVARIANTS OneLeader ReplacedInTime
PROPERTIES LeaderFound
