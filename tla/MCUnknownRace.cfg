\* Two consumers and a scene that the registry does not know yet.
SPECIFICATION HandlersSpec
CONSTANTS
  world = world
  old = old
  mid = mid
  new = new
  windows = windows
  mac = mac
  w1 = w1
  w2 = w2
  Genesis = Genesis
  Entity = {old, mid}
  Deployed = {}
  Platform = {windows, mac}
  Pointer = {1, 2}
  World = {}
  PointersOf <- MCPointersOf
  TimestampOf <- MCTimestampOf
  ContextOf <- MCContextOf
  EventBundle <- MCEventBundle
  EventTime = {}
  Interruption = {FALSE}
  Worker = {w1, w2}
  Operation = {"deployment", "conversion"}
  Fault = FALSE
  BatchSize = 1
  Request = {}
PROPERTIES
  CompleteNeverPending
