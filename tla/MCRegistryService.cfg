\* Events only: deployments, conversions, undeployments and the purger.
SPECIFICATION EventSpec
CONSTANTS
  old = old
  mid = mid
  new = new
  other = other
  world = world
  windows = windows
  mac = mac
  Genesis = Genesis
  Entity = {old, mid, new, other}
  Platform = {windows, mac}
  Pointer = {1, 2}
  World = {world}
  PointersOf <- MCPointersOf
  TimestampOf <- MCTimestampOf
  ContextOf <- WorldChain
  EventBundle <- MCEventBundle
  EventTime = {3}
  Interruption = {TRUE, FALSE}
SYMMETRY PlatformSymmetry
INVARIANTS
  TypeOK
  ServedDisjoint
  StatusReflectsBundles
PROPERTIES
  ServedUntilSuperseded
  ObsoleteIsFinal
  ContextsIsolated
