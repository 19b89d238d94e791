\* One consumer and the purger implement RegistryService.
SPECIFICATION SerialSpec
CONSTANTS
  old = old
  mid = mid
  new = new
  world = world
  windows = windows
  w1 = w1
  Genesis = Genesis
  Entity = {old, mid, new}
  Deployed = {}
  Platform = {windows}
  Pointer = {1, 2}
  World = {world}
  PointersOf <- MCPointersOf
  TimestampOf <- MCTimestampOf
  ContextOf <- WorldContext
  EventBundle <- MCEventBundle
  EventTime = {3}
  Interruption = {TRUE, FALSE}
  Worker = {w1}
  Operation = {"deployment", "conversion", "undeployment", "purge"}
  Fault = TRUE
  BatchSize = 2
  Request = {}
PROPERTIES
  ImplementsService
