\* The synchronization alone, with every kind of profile and one failure or restart.
SPECIFICATION FairSyncSpec
CONSTANTS
  first = first
  broken = broken
  second = second
  bait = bait
  alice = alice
  mallory = mallory
  early = early
  late = late
  NoVersion = NoVersion
  Profile = {first, broken, second, bait}
  Pointer = {alice, mallory}
  PointerOf <- MCPointerOf
  TimestampOf <- MCTimestampOf
  Traded = {}
  Persister = {"sync", "retrier"}
  MaxFaults = 1
  Snapshot = {early, late}
  InitOf <- MCInitOf
  EndOf <- MCEndOf
  Malicious = {mallory}
  Gone = {bait}
  Rejected = {broken}
  MixedCaseId = {first}
  RetryLimit = 2
INVARIANTS
  SyncTypeOK
  CacheBacked
  TrackedBacked
  NothingSkipped
  LossIsAFault
PROPERTIES
  DeploymentsFollowed
  FailedFetchesSettle
