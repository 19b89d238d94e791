\* Two consumers update the counters of one scene on two platforms.
SPECIFICATION PendingSpec
CONSTANTS
  scene = scene
  windows = windows
  mac = mac
  w1 = w1
  w2 = w2
  Entity = {scene}
  Platform = {windows, mac}
  Worker = {w1, w2}
  Absent = Absent
  MaxEvents = 2
  MaxRetries = 1
  MaxFaults = 2
SYMMETRY MCSymmetry
CHECK_DEADLOCK FALSE
INVARIANTS
  PendingTypeOK
  CountersExact
