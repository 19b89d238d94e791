# A specification of the asset bundle registry

TLA+ modules, TLC models and TLAPS proofs for the Decentraland asset bundle registry: the
service that knows which version of each scene is ready to be downloaded as asset bundles,
and answers clients with it.

Paths are relative to the repository; `db.ts` is `src/adapters/db.ts`, `component.ts` is
`src/logic/registry/component.ts`, unless said otherwise.

## 1. The system

### Components, their state and how they interact

| Component | State | Operations | Talks to |
|---|---|---|---|
| Registry (`logic/registry/component.ts`, tables in `db.ts`) | `registries`: one row per entity with pointers, timestamp, world, `status`, `bundles`, `versions`; `historical_registries` | persistAndRotateStates, updateBundleAndRotateStates, undeployWorldScenes, undeployWorld | PostgreSQL, spawn coordinates |
| Event handlers (`logic/handlers/*`) | local variables across awaits | deployment, textures (conversion finished), status, undeployment, world undeployment, spawn coordinate | registry, catalyst, worlds, pending jobs |
| Consumer and processor (`logic/message-consumer.ts`, `message-processor.ts`) | the batch received; attempts and failed handlers travel in the message | receive, run the handlers, delete, resend | SQS, every handler |
| Purger (`logic/workers/obsolete-registries-purger.ts`) | a batch of ids | select OBSOLETE rows of any age (the limit is `Date.now()`), copy to the historical table, delete; a thread of its own, at midnight and every four hours from then | registry tables |
| Manual backfill (`controllers/handlers/post-registry.ts`) | none | fetch the manifests from the CDN, persistAndRotateStates | registry, CDN |
| Spawn coordinates (`logic/coordinates/component.ts`) | `world_spawn_coordinates`: x, y, is_user_set, timestamp | recalculate after registry events, set by the user, answer the manifest of a world | registry tables, denylist |
| Denylist | `denylist` | add, remove | spawn coordinates, read endpoints |
| Pending jobs (`logic/queues-status-manager.ts`) | a counter per platform and entity, in Redis or memory | markAsQueued, markAsFinished, flush, GET /queues/status | status and textures handlers |
| Profile synchronization (`logic/sync/synchronizer.ts`, `snapshots-handler.ts`, `pointer-changes-handler.ts`, `failed-profiles-retrier.ts`, `entity-persister.ts`, `entity-deployment-tracker.ts`) | tables `profiles`, `failed_profile_fetches`, `processed_profile_snapshots`; the cursor, the tracker, the queue of upserts | load the cursor, process snapshots, follow pointer changes, persist, retry | catalysts, database, hot cache |
| Profile retrieval (`logic/profile-retriever.ts`, `logic/sync/profiles-cache.ts`) | the hot cache (LRU) | look in the cache, the table, a catalyst | the lambdas of a catalyst, persister |
| Ownership validation (`logic/sync/ownership-validator-job.ts`) | a batch of cached profiles and what the catalysts answered | compare, update the cache, bulk upsert | the lambdas of a catalyst, hot cache, database |
| Read endpoints (`controllers/handlers/*`) | none | active entities, versions, status, profiles, manifests | all of the above |

The consumers share nothing but the queue and the database: every `await` in a handler lets
another consumer, a request or the purger run, and every statement outside of a transaction
is a commit of its own.

### The life of a registry

A deployment inserts a row with all bundles PENDING. Each finished conversion sets one bundle,
and the status follows: FAILED if an asset bundle failed, COMPLETE once both platforms are
complete, else PENDING; but OBSOLETE as soon as a newer overlapping entity is being served. What it replaces goes on being served as FALLBACK until the row is COMPLETE;
then everything older that overlaps becomes OBSOLETE. Undeployments of worlds make rows OBSOLETE;
the purger's next run moves them to the historical table. Genesis City and the worlds share
coordinates and must not mix.

### What is hard, and what must hold

- **Registry.** Events out of order, conversions for unknown, superseded, undeployed or purged
  entities, interleaved statements, failures between two statements of one event. At most one
  entity is served at a coordinate, its status agrees with its bundles, and it is replaced only
  by something newer that is ready; what was superseded does not come back; no entity is
  forgotten; contexts do not mix.
- **Consumer.** Partial failures of the handlers of one message, redelivery, deletion before
  resending, crashes. Nothing is lost but what a crash can lose, nothing is run again but what
  failed, nothing stays forever.
- **Spawn coordinates.** A decision taken on what was read before, events out of order, retries,
  scenes that leave. The coordinate is kept while it is within bounds, moved into the bounds where
  it is not, and cleared with the last scene.
- **Pending jobs.** A read and a write with no lock, retries from the first platform, results
  before what queued them, expiries. A counter that was not raced on is exact.
- **Status requests.** Two tables read by two queries while the purger moves rows; a deployer that only
  some of the writers know. A known entity is found, and a row listed for its owner stays listed.
- **Profiles.** The cursor skips what the tracker remembers, and what is older than the newest
  stored; the cache and the tracker are ahead of the table; failures are swallowed; late writers
  (a retry, a request, the validator) hold what they read long ago. Nothing the cursor has
  passed is forgotten, nothing claims to be stored that is not or will not be, no late write
  undoes a newer one, and a stale cached profile is healed.

`PROJECT.json` lists each hazard at its line with the properties that cover it.

## 2. The modules

```
RegistryRules            pure rules: overlap, related entities, fallback, status
  └─ RegistryService     one atomic step per event; the properties of the registry
       ├─ RegistryHandlers        the same operations, statement by statement
       │    ├─ RegistryConversions  what concurrent conversions keep of RegistryService
       │    ├─ RegistrySerial     RegistryHandlers with one consumer implements RegistryService
       │    └─ EntityStatus       RegistryHandlers composed with the status requests
       └─ WorldSpawn              RegistryService composed with the spawn coordinate of a world
EventDelivery            the queue, its consumers, retries and faults
PendingJobs              the counters of conversions in progress
ProfileStore             where profiles are kept, and how one is persisted
  └─ ProfileSync         snapshots, pointer changes, failed fetches, restarts
       └─ ProfileServing ProfileSync composed with requests and the ownership validator

RegistryServiceProofs, RegistrySerialProofs, WorldSpawnProofs, EventDeliveryProofs,
PendingJobsProofs, ProfileServingProofs
                         theorems about the module each is named for
RegistryHandlersProofs   also about RegistryConversions and EntityStatus
ProfileSyncProofs        also about ProfileStore
```

`MC*` modules give the constants values; the `.cfg` beside them are the runs.

### RegistryRules

`categorizeRelatedEntities`, `determineRegistryStatus`, `getRelatedRegistries` and the bundles
type, as operators on a status column. An entity has immutable `PointersOf`, `TimestampOf` and
`ContextOf` (its world, or `Genesis`). A registry's `versions` are left out: no status depends
on them. Two details of the code decide results and are kept: entities of equal timestamp are
never newer (`Newer` is strict) and are rotated with the older ones (`NotNewer`); and the fallback is
the newest candidate, but the query orders rows by timestamp only, so that among candidates
of the same timestamp any may come first: `FallbackChoices` is the set of the outcomes.

### RegistryService

`status`, `bundles` and `historical` are the two tables. One action per operation:

| Action | Code |
|---|---|
| `DeploymentEvent` | deployment handler, with persistAndRotateStates |
| `TextureEvent` | textures handler for a row that is not OBSOLETE: updateBundleAndRotateStates |
| `TextureEventOnObsolete` | the same for an OBSOLETE row: the bundle only |
| `TextureEventOnUnknown` | no row: skipped if historical, else inserted and then updated |
| `UndeployScenes`, `UndeployWorld` | `_undeployRegistries` by ids, or all that is live in a world |
| `PurgeRows` | insertHistoricalRegistry of any OBSOLETE rows and deleteRegistries of those copied, now or before |
| `Backfill` | POST /registry |

A handler that fails half-way leaves a prefix of its statements behind. `Interruption` adds
those outcomes to the actions: inserted without the update of the fallback, inserted without the bundle.
`EventSpec` has the events and the purger; `Spec` adds the backfill, which the safety
properties do not survive (section 4).

### RegistryHandlers, RegistryConversions and RegistrySerial

`job[w]` is what a worker (a consumer of any instance, or a request) is doing: a `pc` and the
handler's local variables. Each statement is a step. `persistRegistryInTransaction` runs at
READ COMMITTED: an UPDATE takes a row lock and waits for the one who has it (`HeldBy`,
`LockedFor`), reads see the last commit plus the worker's own updates, `Commit` publishes. The
rotated rows are locked one by one in any order (`RotateRow`), so that deadlocks occur;
PostgreSQL aborts a member of the cycle (`Deadlocked`, in `Fail`). With `Fault` any statement may fail; the
transaction is then rolled back and the earlier statements of the handler stay.

`RegistryConversions` adds a history variable, `revived`: the registries that a step took out of
OBSOLETE. This is what several consumers can do and one cannot, and `DisjointUnlessRevived`, the form
of `ServedDisjoint` which they keep, is about it (section 4).

`RegistrySerial` takes one worker and the purger, and adds history variables: `settledStatus`, `settledBundles`
and `settledHistorical` are the tables as the mapping shows them, `purged` the rows deleted but still shown. The mapping
hides the operation in flight, whose effects show when it ends, and with them all of what the purger does in the meantime; the
purger's work shows when the next operation begins, or when the purger moves while the worker rests. So it can select,
copy and delete any OBSOLETE row at any moment, including one that the operation in flight has just made OBSOLETE, in the middle
of that operation. Under this mapping every schedule of statements, purger steps and faults is a behaviour of RegistryService.
`SerialAssumption` says what it takes: one worker, tables that are empty at first, no backfill, and
interruptions in the abstract specification where statements may fail in the detailed one.

Simplifications, both named in the modules: the `UPDATE` of an undeployment is one step; the refinement leaves backfills
out, because `deleteRegistries` deletes by id a row which a backfill has made live since it was selected. The `purger` run
has backfills, for what holds with them.

### EntityStatus

RegistryHandlers and its purger, composed with GET /entities/status/:id and GET /entities/status.
`signed` is the deployer column: the rows of either table, and of the purger's batch, that carry the
address of their deployer. Only a deployment knows it. A conversion result or a backfill that comes first inserts the row with
an empty one (textures-handler.ts:98, post-registry.ts:79), and the deployment after it finds the row and leaves it alone
(deployment-handler.ts:37): such an entity is never on its owner's list, and no property says it is. The ON CONFLICT clauses keep
an address that a later write does not have (`Signing`), and a historical row keeps the one it was first copied with (`PurgerSigns`).
`ServiceNext` is the next-state relation of RegistryHandlers with this column.

`request[q]` holds the tables a request has still to read; `Query` is one query, for an id or by the deployer column (`Rows`). For an id the
registries come first and what is found ends the search; for a user's entities the two
queries run at once (`Promise.all`) and come in any order. RegistryHandlers declares `request`
and leaves it alone in every action, so that the next-state relations are joined by a disjunction.
Runs without requests take `Request = {}`. `owed` and `archived` are history
variables: what the tables could answer with when the request came and was not found so far. A request
by pointer is decided by its third query alone, and is left out.

### WorldSpawn

RegistryService composed with the coordinate of one world. `Recalculate` is called where the
handlers call recalculateSpawnIfNeeded; the transaction is three steps (`ReadBounds`,
`ReadSpawn`, `Apply`) since its reads lock nothing, and between them other workers handle events, users choose a coordinate and
operators edit the denylist (`EditDenylist`). Events carry any of the `EventTime`s, in any order; only the guards of the upsert and of the
delete compare them (`Upsert`, `DeleteSpawn`). An undeployment whose recalculation fails is queued again and handled once more (`ProcessAgain`).
`Rectangle` and `CenterFromBounds` compute on integer coordinates, and `Middle` rounds halves up as `Math.round` does.

`vacated` and `disturbed` are history variables: the newest of the undeployments since the world has no scenes, and whether an event was handled
twice or a recalculation was overtaken, that is, applied its decision when the bounds or the coordinate it had read had changed.

### EventDelivery

`visible` is the queue, a bag of messages with attempts and failed handlers; `consumer[c]` is
where a consumer's loop stands. What handlers do is abstracted to success or failure, and
parallel handlers of one message end in any order. Messages no handler accepts run none and are
deleted. What receiveMessages may return is `Batches`: copies of some of the visible
messages, which the queue does not order. Faults: `RemoveFails` and `ResendFails` (the queue's
client throws), `Crash`, `VisibilityExpires` (a batch that takes too long is received by
another consumer as well). `done` and `failures` are history variables.

### PendingJobs

`stored` is the key-value store; a worker reads a counter in one step and writes it in another,
platform after platform; `Fail` puts the event back in `requeued`, from where it starts over,
`MaxRetries` times. An absent key counts as zero, and a decrement that gives zero purges it. Events about levels
of detail, which the handlers skip, are left out. Keys expire (`Expire`) and are flushed by
DELETE /flush-cache (`FlushCache`), which lists the keys and then deletes them. `disturbed` is a history variable: the counters
on which something happened that the code does not protect against.

### ProfileStore

`stored` is the table `profiles`, `cache` the hot cache, both by pointer; `dedup` and `bloom`
are the two memories of the deployment tracker; `queue` holds the upserts of the
persister with the process that waits for each. `Persist` is the first half of persistEntity, which
runs without an await: tracker and cache; `Upsert` the second, run by the queue, whose failure
is logged and swallowed. `IfNewer` is both the cache's setIfNewer and the ON CONFLICT clause of
the upserts: equal timestamps do not replace. A profile is a deployment with a pointer and a timestamp; of its
contents a `Version` keeps whether the items its owner no longer has were removed (`curated`),
which is all that the validator distinguishes. `lost` and `faults` are history variables: `lost`
names each profile the service lost track of, at the step where it does.

### ProfileSync

`sync` is the synchronizer: `load` (loadLastCursor), `start` to `flush` (processSnapshots), `wait`,
`stream` and `store` (the pointer changes loop). `retrier` is the loop of the failed profiles
retrier, `failed` its table in the order of `first_failed_at`, `processed` the table of snapshots.

| Action | Code |
|---|---|
| `LoadLastCursor` | the newest stored timestamp; a failed query gives genesis; a cursor older than a week leads to the snapshots |
| `FetchSnapshotsToProcess` ... `SnapshotsDone` | snapshots-handler.ts: skip the processed ones, stream, record what is missing, persist, mark |
| `SnapshotsFail` | its catch: the loops start from the old cursor |
| `Poll`, `SkipProcessed`, `SkipMalicious` (only if the list can be had), `StreamMissing`, `StreamRejected`, `StreamFound`, `StreamStored`, `StreamEnds`, `StreamFails` | pointer-changes-handler.ts, one deployment after the other |
| `RetryRead` ... `RetryFails` | failed-profiles-retrier.ts, one row after the other |
| `Drain` | the upsert queue |
| `Restart` | the process stops: the memory is lost and what was queued is in `lost` |

Deployments that a restarted cursor passes over are put in `lost` by `LoadLastCursor`, what lies
between the cursor and the first snapshot by `FetchSnapshotsToProcess`, and a false positive of the bloom filter
by `SkipProcessed`: the properties admit these losses by name, where they happen, and no other.

External, and assumed: catalysts publish and stream deployments in the order of their timestamps, and
offer a snapshot once all of its range is published. Simplifications: a snapshot is one chunk
of the persister; a deployment has one pointer; a profile's contents are whether it is missing
(`Gone`), discarded (`Rejected`) or has an id that is not in lower case (`MixedCaseId`).

### ProfileServing

ProfileSync composed with `reader[r]`, a request for one pointer through its three layers
(`CacheMiss`, `ReadTable`, `AnswerRow`, `AskLambdas`, `AnswerServed`, `Answered`), and
`validator`, one batch of the ownership validator (`FetchServed`, `Compare`, `BulkUpsert`). Each
works on what it has read: between two of its steps everybody else may write. The lambdas serve
the newest deployment of a pointer, without the items traded away; they are not asked about names of
default profiles (`Named`). A failed bulk upsert is swallowed.

## 3. Runs that pass

| Run | Model | Shows |
|---|---|---|
| `registry_events` | MCRegistryService | the properties of the registry below, for every order of events, with interrupted handlers |
| `serial` | MCRegistrySerial | one consumer, any statement failing, with the purger taking any OBSOLETE row at any moment, implements `EventSpec` |
| `purger` | MCEntityStatus | deployments, conversions and backfills, any statement failing, the purger and a status request at any moment: `KnownEntitiesKept`, `StatusFound`, `ListMissesOnlyPurged` |
| `conversions` | MCConversions | three consumers converting two known registries of one coordinate: the transaction keeps `CompleteNeverPending`, and `DisjointUnlessRevived` |
| `world_spawn` | MCWorldSpawn | two consumers, events in any order, failures and denylist edits at any moment: `SpawnKeptInBounds`, `SpawnMovedIntoBounds`, `NoOrphanSpawn` |
| `delivery` | MCEventDelivery | `LossBounded`, `AppliedOnce`, `EventsLeaveQueue` |
| `pending_jobs` | MCPendingJobs | `CountersExact` |
| `profile_sync` | MCProfileSync | the synchronization alone, with every kind of profile, two snapshots, one failure or restart: the invariants below, `DeploymentsFollowed`, `FailedFetchesSettle` |
| `profile_serving` | MCProfileServing | synchronization, a request and the validator on one pointer, one failure or restart: `CacheBacked`, `TrackedBacked`, `VersionsOnlyAdvance`, `StaleCacheHeals` |

The safety properties of the registry (`RegistryService`):

- `ServedDisjoint`: no two served registries overlap. GET /entities/active returns one row per
  pointer and does not order the rows, so that "the latest version" is defined only by this.
- `StatusReflectsBundles`: COMPLETE, FAILED and PENDING say what the bundles say, and a FALLBACK is complete.
- `ServedUntilSuperseded`: a served registry stops being served only in a step after which an
  overlapping, no older registry is served, or has itself been superseded, or in an undeployment.
- `ObsoleteIsFinal`, `ContextsIsolated`: action properties on single events.
- `KnownEntitiesKept`: a row leaves `registries` only once it is in the historical table. It is checked on the statements, where
  a copy of a batch or its deletion may fail and a backfill may come between (run `purger`).
- `DisjointUnlessRevived` (`RegistryConversions`): two registries served at a coordinate are a newer one
  and an older one that was OBSOLETE before and came back.

The properties of the status requests (`EntityStatus`):

- `StatusFound`: what was known when its status was asked for is found.
- `ListMissesOnlyPurged`: of the rows that carried the user's address when the list was asked for, it leaves out only some that were purged
  meanwhile, and none that was in the historical table already.

The properties of the spawn coordinate (`WorldSpawn`):

- `SpawnKeptInBounds`: a coordinate gives way only to a later event, and while it is within the bounds only to a user's choice or to
  a recalculation that had read another coordinate, or bounds this one is not in. What such a recalculation may do is the race of section 4.
- `SpawnMovedIntoBounds`: what is put automatically in the place of a coordinate lies within the bounds that were read.
- `NoOrphanSpawn`: once every event is handled, a world without scenes has no automatic coordinate older than what emptied it, unless
  an event was handled twice or a recalculation was overtaken. Both exceptions are needed: `spawn_retry` is the one, section 4 has the other.

The properties of the profiles (`ProfileStore`, `ProfileSync`, `ProfileServing`):

- `CacheBacked`, `TrackedBacked`: what is cached, or remembered by the tracker (and so passed over
  by the stream), is stored, queued for the database, superseded by such, or in `lost`.
- `NothingSkipped`: every deployment before the cursor is accounted for: backed in this sense,
  written down as failed, rejected, or of a malicious address.
- `LossIsAFault`: without a failure or restart nothing is lost; this is where a gap between the snapshots and the
  pointer changes would show. That the snapshots leave no gap among themselves is assumed (`SnapshotsGapless`).
- `DeploymentsFollowed`, `FailedFetchesSettle` (liveness): again and again all that is deployed is
  accounted for, and among the first `RetryLimit` rows of failed fetches, which are those the retrier reads, none is left that it could
  settle. The code promises no more: rows that stay for good and fill a batch hide all that come after them. The run reaches this, with
  a fetch that could be settled behind a gone and a rejected one.
- `VersionsOnlyAdvance` (action property): neither table nor cache goes back to an older deployment.
- `StaleCacheHeals` (liveness): a cached profile that is not the newest is replaced or evicted.

### Bounds, and why they are enough

- **Entities.** Three scenes in a chain, `old` at {1}, `mid` at {1, 2}, `new` at {2}: the least that
  has a scene superseded twice, a middle one related to scenes unrelated with each other, and
  each order of their events. `registry_events` adds `other` at {1} in Genesis City, so
  that contexts could mix; `serial` has the chain in one world, where it can be undeployed; `purger` has `old` and `mid` in Genesis City. `conversions` has two scenes at one coordinate.
- **Platforms.** Two where symmetric; one in `serial`, `purger` and `world_spawn`, where bundles are
  a means to be served. Conversions report on asset bundles (`MCEventBundle`): the status ignores LODs.
- **Event times.** `EventTime = {3}` in the registry runs is after `old` and `mid` and not
  after `new`: an undeployment overtaken by a newer deployment is among the cases. `world_spawn` has
  the times 2 and 3, after the one scene and not after, or after, the other: any number of events of equal, growing and shrinking
  times. `MaxRequeued = 1` undeployment waits to be handled again.
- **World.** A column of three parcels and a wing that replaces it from its top, and may be denylisted: bounds that shrink, grow
  and move, odd and even, with the center of the one outside of the other, and a user's choice within the column only.
- **BatchSize** of the purger: 2 in `serial` and `purger`, so that one copy of a batch fails and another
  succeeds, and that a batch is deleted at once. Of the consumer: 2.
- **Workers.** Two wherever interleaving is the question, in `world_spawn` too; three in `conversions`, where with two scenes a third one
  is needed for a registry to come back beside another. With two workers it takes four scenes.
- **Delivery.** `MaxRetries = 2` (the code has 3) distinguishes first, second and last attempt;
  `MaxFaults = 1`, two events, two consumers, an event with two handlers. `failures` stops counting at `MaxRetries`.
- **Counters.** `MaxEvents = 2` conversions queued and finished per counter, `MaxRetries = 1`,
  `MaxFaults = 2`: races of two workers, repeated, given up and expired updates, and counters below zero.
- **Status requests.** One at a time, for any scene or for the two of a user: requests do not see each other. The two overlap, so
  that a batch is purged which a conversion or a deployment has made OBSOLETE, and undeployments, which know of no deployer, can be left out.
- **Profiles.** `profile_sync`: four profiles of two pointers, with two of the same timestamp, one superseded by a
  later one, one rejected, one malicious and gone, one with a mixed-case id; two adjacent snapshots; a
  retry batch of two, which two rows fill for good. `profile_serving`: two profiles of one pointer: races are about one pointer. `MaxFaults = 1`
  in both: one failure of any kind at any point, and unboundedly many steps after it.
- **Symmetry.** Over platforms and workers, which the code treats alike, in runs without liveness.

Runs check deadlock except `delivery` and `pending_jobs`, whose systems stop when their bounded
events have been handled.

### Fairness

`DeliverySpec` assumes weak fairness of `Consume(c)` for each consumer: the loop runs as long as the
service does, each of its awaits comes back, and handlers answer, if only with a failure.

`SyncFairness` assumes weak fairness of `Synchronize`, `FollowChanges` and `Retry`, which are loops on timers that
catch everything and whose requests have timeouts, and of `Drain(w)`, the upsert queue, which
runs what it is given in order. `FairProfileSpec` assumes weak fairness of `Validate`, a loop on a timer.
No fairness is assumed of catalysts, evictions, requests, restarts or faults, and none
elsewhere: the other properties are safety properties.

## 4. Disagreements

### Found by a run

Each is in `PROJECT.json` under `findings` with the line of the document it refutes.

- `unknown_race`: `component.ts` says the atomic update keeps a stale worker from overwriting COMPLETE
  with PENDING. It does for a row that exists; two workers that both found none insert
  it, and the second insertion overwrites.
- `spawn_retry`: an undeployment whose recalculation failed finds nothing to undeploy when it is
  retried, and does not recalculate: the world keeps the coordinate of scenes that are gone.
- `curation`: the validator finds that a profile has to lose items its owner traded away; cache and
  table both refuse the update, because its timestamp is that of what they have.

### Met while modelling, and checked by no run

- A FALLBACK "is served while newer content is being processed" (`docs/database-schemas.md:137`). Its status
  is never reconsidered when that newer content fails or is undeployed.
- persistAndRotateStates rotates one related registry only: a complete scene backfilled over two served
  ones leaves one of them served beside it. This is why the registry's theorems are about `EventSpec`.
- The spawn recalculation is described as atomic (`db.ts:1040`), but its transaction runs at READ COMMITTED and decides on bounds and a
  coordinate read without a lock. A user's choice committed in between is overwritten. A conversion of a world's last scene that
  reads the bounds, then lets an undeployment of this scene find no coordinate to delete, sets one for a world that has no scenes left, and no
  event comes to clear it. These are the recalculations that `disturbed` and `SpawnKeptInBounds` except.
- "This prevents race conditions where out-of-order event processing could delete newer data" (`db.ts:849`): it also keeps the coordinate of an
  empty world. A conversion stamped later than an undeployment that is handled after it leaves a coordinate the undeployment may not delete
  (`db.ts:862`), although the scene, whose own timestamp is earlier, is gone. `UndeploymentClearsSpawn` says "stamped later" for this reason.
- A deployment handled after a newer scene is served makes the older scene it overlaps OBSOLETE (component.ts:138) and recalculates nothing; nor does an edit of the
  denylist. The stored coordinate
  may lie outside of the bounds until the next conversion that is served or the next undeployment.
- GET /entities/status lists by deployer. A row inserted first by a conversion result or by a backfill has none, and the deployment that comes after leaves it
  so (section 2, EntityStatus): its owner does not see it.
- Two scenes served at one coordinate. Whether a registry is OBSOLETE is read before the transaction
  (textures-handler.ts:42), and the query of related registries passes over OBSOLETE rows. Take `old` and `new` at
  one coordinate. Worker 1 takes a result of `old` and reads it live; worker 2 completes `new`, which makes `old`
  OBSOLETE; a failed result of `new`, whose handler had read its bundle pending, makes `new` FAILED. Worker
  1's transaction now finds nothing newer that is served and is about to write `old` COMPLETE, and has it
  locked. A last result completes `new` again: its query passes over `old`, which is still OBSOLETE for all others, does not lock it,
  and commits. Worker 1 commits: both are COMPLETE, and GET /entities/active answers with either. An older
  scene which comes back that way is the only one that is ever beside another (`DisjointUnlessRevived`).
- "If reconversion fails but previous bundles were COMPLETE, keep them" (textures-handler.ts): the previous
  status is read before the transaction, so that a failed result overwrites a bundle completed
  meanwhile by another worker. `CompleteBundlesKept` of RegistryHandlers states the contrary.
- GET /queues/status on Redis: a key purged between the scan of the keys and the read of their values
  is read as null, and the filter throws on it.
- GET /entities/status reads both tables at once: an entity that is being purged may be listed
  twice or not at all. `docs/openapi.yaml:166` documents a list of ids that the handler does not read.
- The retrier fetches `failedDeployments`, all the rows it read, and not `profilesToRetry`
  (failed-profiles-retrier.ts:43): rows it has just dropped as superseded are fetched again and may be
  written down again.
- A row whose entity id is not in lower case is never deleted (db.ts:704 compares it with the id in lower case),
  although "successful retries remove the record" (`docs/database-schemas.md:257`). Rows that never leave take
  places in the batch of 50, oldest first; once they fill it no other failed fetch is retried. There is no
  "exponential backoff" (line 255).
- After a restart the cursor is the newest stored timestamp, whoever stored it. A request that
  stores a profile ahead of the stream moves the next start past every deployment in between.

## 5. What is proved

### The registry

`RegistryServiceProofs` proves, for any entities, pointers, worlds, platforms, timestamps and undeployment
times, with or without interruptions and with purges of any rows, but without backfills (`EventSpec`), from the assumptions named in RegistryRules and RegistryService
(`EntityAssumption`: what the three maps of an entity are, and that there is a platform; `EventAssumption`):

- `TypeCorrect`: `EventSpec => []TypeOK`.
- `DisjointHolds`: `EventSpec => []ServedDisjoint`.
- `ReflectsHolds`: `EventSpec => []StatusReflectsBundles`.
- `SupersededHolds`: `EventSpec => ServedUntilSuperseded`.
- `ObsoleteFinalHolds`, `ContextsHold`: the same for `ObsoleteIsFinal` and `ContextsIsolated`.

The argument. `IInv == TypeOK /\ ServedDisjoint /\ StatusReflectsBundles` is inductive; the
parts need each other. ServedDisjoint is preserved by an insertion because the new row
has pending bundles and is not served, which is what `PendingVerdict` and `InsertionServesNothingNew` say; and by
a conversion because a row becomes COMPLETE only when no newer overlapping row makes it
OBSOLETE, and then everything not newer that overlaps is rotated (`RotationKeepsDisjoint`). Newer rows that
are being served are FALLBACK or COMPLETE; StatusReflectsBundles is needed where a served row is
converted again: its bundles are complete, and a failed conversion keeps complete bundles
(`ConversionKeepsVerdict`), so that a FALLBACK's status and bundles go on agreeing. The
effects of the operations on the status column are lemmas (`InsertionEffect`, `RotationEffect`,
`UndeployedEffect`), used by one step per action. `SupersededHolds` follows from the invariant:
a row stops being served only as a fallback or rotated row of one that became
COMPLETE, or by being converted itself when it has been overtaken (`RotationSupersedes`, `InsertionSupersedes`).
The last two need the types only: `RowStep` follows one row and `ContextStep` one context through every action.

### Its statements

`RegistryHandlersProofs`, for any number of workers, any operations and batch size, with and without failures:

- `HandlersTypesHold`, `HandlersKeepEntities`: `HandlersTypeOK` and `KnownEntitiesKept`. The invariant
  adds that what the purger has `copied` is in the historical table; a step that overwrites a row
  never removes one.
- `CompleteStays`: `CompleteNeverPending`, where every entity is known from the start (`AllKnown`), which
  is what `unknown_race` shows to be needed. `KnownInv` says that the rows held by two transactions
  are disjoint, that a transaction holds the row of its entity and so knows that its bundles are
  still those it computed from, and that a COMPLETE row waits for no bundle: a transaction about to
  write PENDING has an entity that is not COMPLETE.
- `ConversionsDisjoint`: `DisjointUnlessRevived` under the same assumption, with undeployments and the purger too.
  `JobSees` is what a transaction about to write COMPLETE may rely on: everything not newer that overlaps is
  OBSOLETE, among the rows it locks, or was revived; and what is newer and served has completed since it looked, whose transaction
  then did not lock this entity, which was OBSOLETE. So the entity is revived by the commit, or was before.
- `KnownIsFound` (`StatusFound`), `OnlyPurgedMissed` (`ListMissesOnlyPurged`) and `StatusTypesHold`, of EntityStatus: what is
  still owed once the registries have been read was absent from them, hence in the historical
  table, from which nothing is ever deleted (`HistoricalGrows`). For the list, `SignedOK` and `SignedStep` follow the deployer column:
  a row that carries an address does so until the purger deletes it.

`RegistrySerialProofs`, for one consumer and any entities, operations and batches, any statement failing, and the purger selecting any OBSOLETE
rows, copying and deleting them at any moment:

- `SerialImplements`: `ImplementsService`. `SettledInv` says at each statement how far the tables are from those of the
  mapping: unchanged until the first write, then inserted without the fallback, and then as the event leaves them but for the
  bundle and the rotation, for which the locked rows and those to go are exactly the ones the event changes. It says so of the tables
  with the purged rows put back (`Shown`, `Restored`): such a row is OBSOLETE, no operation reads a row that is OBSOLETE or tells it from
  one that is missing, and so putting them back changes nothing that an operation does (`ShownReads`, `DeletedUnseen`). What the purger has in hand is
  OBSOLETE. When the next operation begins, or the purger moves while the worker rests, what it did since is one `PurgeRows`. A statement that fails after the
  insertion maps to the interrupted event, before it to a stutter.
- `SerialTablesHold`: whenever the worker is idle, of the tables themselves, purged rows absent: `ServedDisjoint` and `StatusReflectsBundles`. They are the theorems of
  RegistryServiceProofs instantiated with the mapping (`ServiceTheorems`): the abstract specification was proved once,
  and its implementation inherits the invariants.

### The spawn coordinate

`WorldSpawnProofs`, for any number of workers, events in any order, failures, and a denylist edited at any moment:

- `WorldRunsRegistry`: every behaviour of WorldSpawn is one of `EventSpec`, so that the registry's theorems hold of it.
- `OrphanHolds` (`NoOrphanSpawn`). `ClearingInv`: while nothing was disturbed and the world has no scenes but has an automatic coordinate older than
  what emptied it, some worker is `Clearing`, in a recalculation of an undeployment no older than `vacated`. Its decision, if it was
  not overtaken, is to delete. No conversion or deployment empties a world, because what it makes OBSOLETE is superseded by something that is
  served (`ConversionSupersedes`, from the registry's proofs): `ScenesKept`.
- `KeptHolds` (`SpawnKeptInBounds`): what each decision writes, given what was read (`ActionEffect`, `SpawnChange`).
- `MovedHolds` (`SpawnMovedIntoBounds`): the parcels of the world are finitely many (`SpawnAssumption`), and a finite set of integers has a least and a greatest
  element (`FiniteBounded`: of its unbounded subsets none would be minimal), between which the center lies (`MiddleWithin`, `CenterWithin`).
- `WorldSpawnTypesHold` (`WorldSpawnTypeOK`).

### The delivery

`EventDeliveryProofs`, for any events, handlers, consumers, batches, retries and faults:
`LossIsBounded` (`LossBounded`) and `DeliveryTypesHold`. A message is `Honest`: the handlers it says
have failed have failed as often as it says. A pair of event and handler is `Covered` if it is settled, or a
message in the queue or in the hands of a consumer would still run it; `Endangered` events have a pair that is
not. A step without a fault endangers none, each fault one at most, so that the endangered are
finite and no more than the faults; lost events are endangered.

`RunsAreBounded` and `AppliedOnceHolds` (`AppliedOnce`): `OnceInv` counts, for an event and a handler, the runs done,
the copies in the queue of messages that would lead to another, and those the consumers hold. Handling a message turns one
copy into a run or a retry; a fault copies some of what is there, hence at most doubles the sum, which is at most
2 to the number of faults. Copies in a bag are counted as pairs of a message and a number
(`CopiesUnion`), so that sums over bags are cardinalities of finite sets.

### The pending jobs

`PendingJobsProofs`, for any entities, workers, events, retries and faults: `PendingTypesHold` (`PendingTypeOK`) and `CountersHold`
(`CountersExact`). The invariant holds while events are handled too: on a counter not disturbed, the value stored and what
is still owed to it, by the events in the hands of workers or waiting to be retried, make up what was queued less what was
finished; and the value a worker has read is still the one stored, unless the counter is disturbed. With
nothing owed, this is `CountersExact`. There are two platforms (`PendingAssumption`), as in the code, whose lists name them.

### The profiles

`ProfileSyncProofs` and `ProfileServingProofs`, for any profiles, pointers,
snapshots, retry batch, requests and faults:

- `SyncTypesHold`, `SyncedIsBacked` (`CacheBacked`), `SyncSkipsNothing` (`NothingSkipped`) of the synchronization;
- `LossOnlyByFaults` (`LossIsAFault`), where the snapshots are gapless;
- `ProfileTypesHold`, `ServedIsBacked` (`TrackedBacked`), `ServingSkipsNothing`, `VersionsAdvance` (`VersionsOnlyAdvance`)
  of the whole.

`Backed` and `Accounted` are monotone: the table and `lost` only move forward, a queued version goes to the one or the
other, and a row leaves the table of failures only when its profile is superseded or was
persisted. The invariant adds what the loops rely on: timestamps before the cursor or before
the last deployment handled are closed (nothing is deployed with them any more), what a poll has
seen is accounted for, the snapshots to go cover what lies before the point reached, and what the
retrier is `doing` is backed. For the whole: a row in the hands of a request is no newer
than the table (`ReaderInv`), and the validator has one update per pointer under way at most (`ValidatorInv`). `LossInv`: before the first fault the
service has started once only, with nothing stored, and so from the beginning of time; what the snapshots leave is after the
end of the newest, where the stream begins.

### Only model-checked

Liveness (`EventsLeaveQueue`, `DeploymentsFollowed`, `FailedFetchesSettle`, `StaleCacheHeals`), which is out of the prover's
reach. Every invariant, every action property and the refinement that the passing runs check is a theorem, from the assumptions
named with it. Not proved of several consumers, because false of them: `ServedDisjoint` without the exception of
section 4, and `StatusReflectsBundles`, since a bundle stored on a row read as OBSOLETE leaves the status alone, and a row
that came back in between then has a status its bundles do not explain.

## 6. What is not modelled

- The `versions` column and the build dates that conversions write to it: they are not guarded by
  anything, and results out of order leave the last one. Metrics, logs, formats, HTTP parsing.
- Authentication, feature flags and routing: configuration without state of its own. Wiring and
  migrations: the tables are the variables of the modules.
- The statistics and VACUUM of the purger, which change no row. It may run at any moment in the modules.
- The manifest of a world (getWorldManifest): it changes nothing, and answers with the coordinate it reads or one computed from the parcels. Its
  "consistent view" is two statements at READ COMMITTED.
- The catalysts and the worlds content server and CDN for registries: an answer or a failure. For
  profiles the two clients are modelled by what they return; their retries and load balancing
  are not.
- GET /queues/status, GET /entities/active and GET /entities/versions: requests that change nothing and, the first
  excepted, make one query. What they may return is constrained by `CountersExact` and `ServedDisjoint`.
- Profiles of several pointers, and several chunks of a snapshot or batches of the validator at a time.

## 7. What could be added

1. `StatusReflectsBundles` with several consumers: which exceptions the stale reads force.
2. The manifest beside the recalculations: what its two reads can disagree on.
3. `versions`, with the build dates of concurrent conversions.
