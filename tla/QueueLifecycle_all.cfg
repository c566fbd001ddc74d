SPECIFICATION Spec
CONSTANTS
  i1 = i1
  q1 = q1
  j1 = j1
  j2 = j2
  r1 = r1
  r2 = r2
  s1 = s1
  maintenance = maintenance
  None = None
  Queues = {q1}
  Jobs = {j1, j2}
  Home <- OneQueue
  Requests = {r1, r2}
  Schedulers = {s1}
  Maintenance = maintenance
  Instances = {i1}
  Batch = 1
  IdBound = 2
  CrashBound = 1
INVARIANTS NoOrphans
PROPERTIES OnlyByForce TenantGoesLast
SYMMETRY Alike
CONSTRAINT NotYetOvertaken
