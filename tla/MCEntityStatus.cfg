\* One worker with every operation but undeployments, any statement failing, and the purger
\* and a request at any time.
SPECIFICATION StatusSpec
CONSTANTS
  old = old
  mid = mid
  new = new
  world = world
  windows = windows
  mac = mac
  w1 = w1
  w2 = w2
  Genesis = Genesis
  Entity = {old, mid}
  Deployed = {}
  Platform = {windows}
  Pointer = {1, 2}
  World = {world}
  PointersOf <- MCPointersOf
  TimestampOf <- MCTimestampOf
  ContextOf <- MCContextOf
  EventBundle <- MCEventBundle
  EventTime = {3}
  Interruption = {TRUE, FALSE}
  Worker = {w1}
  Operation = {"deployment", "conversion", "backfill", "purge"}
  Fault = TRUE
  BatchSize = 2
  q1 = q1
  alice = alice
  Request = {q1}
  User = {alice}
  Deployments <- MCDeployments
INVARIANTS
  StatusTypeOK
  StatusFound
  ListMissesOnlyPurged
PROPERTIES
  KnownEntitiesKept
