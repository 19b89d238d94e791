\* The pointer changes, the retrier, a request and the validator on one pointer,
\* with one failure or restart.
SPECIFICATION FairProfileSpec
CONSTANTS
  first = first
  second = second
  alice = alice
  r1 = r1
  NoVersion = NoVersion
  Profile = {first, second}
  Pointer = {alice}
  PointerOf <- MCPointerOf
  TimestampOf <- MCTimestampOf
  Traded = {}
  Persister <- MCPersister
  MaxFaults = 1
  Snapshot = {}
  InitOf <- NoTimes
  EndOf <- NoTimes
  Malicious = {}
  Gone = {}
  Rejected = {}
  MixedCaseId = {}
  RetryLimit = 2
  Named = {}
  Reader = {r1}
INVARIANTS
  ProfileTypeOK
  CacheBacked
  TrackedBacked
PROPERTIES
  VersionsOnlyAdvance
  StaleCacheHeals
