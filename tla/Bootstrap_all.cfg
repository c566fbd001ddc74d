SPECIFICATION Spec
CONSTANTS
  i1 = i1  i2 = i2  None = None
  Instances <- MCInstances
  Versions = 2
  FaultBound = 1
INVARIANTS
  NeverMiswired
  SchemaFirst
  StopsInOrder
PROPERTIES
  StartEnds
CHECK_DEADLOCK FALSE
