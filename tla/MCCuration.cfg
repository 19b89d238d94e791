\* One profile, with an item that its owner does not have any more.
SPECIFICATION ProfileSpec
CONSTANTS
  first = first
  second = second
  alice = alice
  r1 = r1
  NoVersion = NoVersion
  Profile = {first}
  Pointer = {alice}
  PointerOf <- MCPointerOf
  TimestampOf <- MCTimestampOf
  Traded = {first}
  Persister <- MCPersister
  MaxFaults = 0
  Snapshot = {}
  InitOf <- NoTimes
  EndOf <- NoTimes
  Malicious = {}
  Gone = {}
  Rejected = {}
  MixedCaseId = {}
  RetryLimit = 2
  Named = {}
  Reader = {}
PROPERTIES
  OwnershipChangesApplied
