\* Three consumers converting scenes that are all deployed: the transaction.
SPECIFICATION ConversionsSpec
CONSTANTS
  old = old
  new = new
  windows = windows
  mac = mac
  w1 = w1
  w2 = w2
  w3 = w3
  Genesis = Genesis
  Entity = {old, new}
  Deployed = {old, new}
  Platform = {windows, mac}
  Pointer = {1}
  World = {}
  PointersOf <- MCPointersOf
  TimestampOf <- MCTimestampOf
  ContextOf <- MCContextOf
  EventBundle <- MCEventBundle
  EventTime = {}
  Interruption = {FALSE}
  Worker = {w1, w2, w3}
  Operation = {"conversion"}
  Fault = FALSE
  BatchSize = 1
  Request = {}
SYMMETRY MCSymmetry
INVARIANTS
  HandlersTypeOK
  DisjointUnlessRevived
PROPERTIES
  CompleteNeverPending
