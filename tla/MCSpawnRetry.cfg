\* Undeployments whose recalculation fails and which are handled again.
SPECIFICATION WorldSpawnSpec
CONSTANTS
  column = column
  wing = wing
  world = world
  windows = windows
  w1 = w1
  w2 = w2
  Genesis = Genesis
  Entity = {column, wing}
  Platform = {windows}
  Pointer <- MCPointer
  World = {world}
  PointersOf <- MCPointersOf
  TimestampOf <- MCTimestampOf
  ContextOf <- MCContextOf
  EventBundle <- MCEventBundle
  EventTime = {2, 3}
  Interruption = {FALSE}
  Place = world
  BaseOf <- MCBaseOf
  SpawnPoint <- MCSpawnPoint
  SceneList <- MCSceneList
  Deniable = {wing}
  Worker = {w1}
  MaxRequeued = 1
INVARIANTS
  UndeploymentClearsSpawn
