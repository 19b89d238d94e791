---------------------------- MODULE PendingJobs ----------------------------
(***************************************************************************)
(* The counters of conversions in progress, behind GET /queues/status.     *)
(*                                                                         *)
(* Each (platform, entity) has a counter in a key-value store, incremented *)
(* when a conversion is queued and decremented when its result arrives.    *)
(* The store has no atomic increment: a handler reads the counter and      *)
(* writes it back, one platform after the other, and what fails is retried *)
(* from the start.                                                         *)
(***************************************************************************)
EXTENDS Integers, FiniteSets, Sequences, Bags

CONSTANTS
  Entity,
  Platform,
  Worker,     \* the consumers of the events queue
  Absent,     \* the value of a key that is not stored
  MaxEvents,  \* bound on the events about one counter
  MaxRetries, \* how often the queue sends an event again
  MaxFaults   \* bound on the failures of handlers, the expiries and the flushes

ASSUME PendingAssumption ==
  /\ \E p, q \in Platform : p # q /\ Platform = {p, q}
  /\ Absent \notin Int
  /\ MaxEvents \in Nat /\ MaxRetries \in Nat /\ MaxFaults \in Nat

VARIABLES
  stored,     \* the value of each key, Absent if there is none
  job,        \* what each worker is doing
  requeued,   \* the events waiting to be retried (a bag)
  queued,     \* how many conversions have been queued
  finished,   \* how many results have arrived
  faults,     \* how many failures, expiries and flushes there were
  disturbed   \* counters raced on, counted twice, given up, expired or flushed

pendingVars == <<stored, job, requeued, queued, finished, faults, disturbed>>

Key == Platform \X Entity

Idle == [pc |-> "idle"]

\* An event adds `by` to its keys, in order; some have been written already.
Events ==
  [by : {1, -1}, keys : Seq(Key), written : SUBSET Key, retries : 0..MaxRetries]

NewEvent(by, keys) == [by |-> by, keys |-> keys, written |-> {}, retries |-> 0]

PendingTypeOK ==
  /\ stored \in [Key -> Int \cup {Absent}]
  /\ \A w \in Worker :
       job[w] = Idle \/ /\ job[w].pc \in {"read", "write", "rest"}
                        /\ job[w].event \in Events
                        /\ job[w].at \in 1..Len(job[w].event.keys)
                        /\ job[w].value \in Int
  /\ IsABag(requeued) /\ BagToSet(requeued) \subseteq Events
  /\ queued \in [Key -> 0..MaxEvents] /\ finished \in [Key -> 0..MaxEvents]
  /\ faults \in 0..MaxFaults
  /\ disturbed \subseteq Key

PendingInit ==
  /\ stored = [k \in Key |-> Absent]
  /\ job = [w \in Worker |-> Idle]
  /\ requeued = EmptyBag
  /\ queued = [k \in Key |-> 0]
  /\ finished = [k \in Key |-> 0]
  /\ faults = 0
  /\ disturbed = {}

-----------------------------------------------------------------------------

\* getStatus, with the default of a counter that is not stored.
Value(k) == IF stored[k] = Absent THEN 0 ELSE stored[k]

\* The bag of one event.
One(event) == SetToBag({event})

Start(w, event) ==
  /\ job[w] = Idle
  /\ job' = [job EXCEPT ![w] = [pc |-> "read", event |-> event, at |-> 1, value |-> 0]]

CountOne(counts, ks) == [k \in Key |-> IF k \in ks THEN counts[k] + 1 ELSE counts[k]]

\* A DeploymentToSqs event queues a conversion for each platform...
Deployed(w, e, keys) ==
  /\ \A i \in DOMAIN keys : queued[keys[i]] < MaxEvents
  /\ {keys[i] : i \in DOMAIN keys} = Platform \X {e}
  /\ Start(w, NewEvent(1, keys))
  /\ queued' = CountOne(queued, Platform \X {e})
  /\ UNCHANGED <<stored, requeued, finished, faults, disturbed>>

\* ... an AssetBundleConversionManuallyQueuedEvent for one...
ManuallyQueued(w, k) ==
  /\ queued[k] < MaxEvents
  /\ Start(w, NewEvent(1, <<k>>))
  /\ queued' = CountOne(queued, {k})
  /\ UNCHANGED <<stored, requeued, finished, faults, disturbed>>

\* ... and an AssetBundleConversionFinishedEvent ends one.  It may come first.
ConversionFinished(w, k) ==
  /\ finished[k] < MaxEvents
  /\ Start(w, NewEvent(-1, <<k>>))
  /\ finished' = CountOne(finished, {k})
  /\ UNCHANGED <<stored, requeued, queued, faults, disturbed>>

\* A retry starts from the first key again, whatever was written.
Retried(w, event) ==
  /\ Start(w, event)
  /\ requeued' = requeued (-) One(event)
  /\ disturbed' = disturbed \cup event.written
  /\ UNCHANGED <<stored, queued, finished, faults>>

-----------------------------------------------------------------------------
(* markAsQueued and markAsFinished                                           *)

KeyOf(w) == job[w].event.keys[job[w].at]

Read(w) ==
  /\ job[w].pc = "read"
  /\ job' = [job EXCEPT ![w].pc = "write", ![w].value = Value(KeyOf(w))]
  /\ UNCHANGED <<stored, requeued, queued, finished, faults, disturbed>>

\* Mutant: a counter that is not positive is not kept.
StoredPositive(by, v) == IF v + by <= 0 THEN Absent ELSE v + by

\* What is stored over the value v; a counter back to 0 is purged.
Stored(by, v) == IF by = -1 /\ v + by = 0 THEN Absent ELSE v + by

\* Mutant: one key too many.
OneKeyMore(w) ==
  LET j == [job[w] EXCEPT !.event.written = @ \cup {KeyOf(w)}]
  IN IF j.at <= Len(j.event.keys) THEN [j EXCEPT !.pc = "read", !.at = @ + 1]
     ELSE Idle

\* The status handler goes on with the next platform; after a decrement, the
\* textures handler goes on with the registry.
AfterWrite(w) ==
  LET j == [job[w] EXCEPT !.event.written = @ \cup {KeyOf(w)}]
  IN IF j.at < Len(j.event.keys) THEN [j EXCEPT !.pc = "read", !.at = @ + 1]
     ELSE IF j.event.by = -1 THEN [j EXCEPT !.pc = "rest"]
     ELSE Idle

\* Another worker has read the counter and will write over this update.
Raced(w) == \E v \in Worker \ {w} : job[v].pc = "write" /\ KeyOf(v) = KeyOf(w)

Write(w) ==
  /\ job[w].pc = "write"
  /\ stored' = [stored EXCEPT ![KeyOf(w)] = Stored(job[w].event.by, job[w].value)]
  /\ disturbed' = IF Raced(w) THEN disturbed \cup {KeyOf(w)} ELSE disturbed
  /\ job' = [job EXCEPT ![w] = AfterWrite(w)]
  /\ UNCHANGED <<requeued, queued, finished, faults>>

\* What the textures handler still has to do with the conversion result.
Rest(w) ==
  /\ job[w].pc = "rest"
  /\ job' = [job EXCEPT ![w] = Idle]
  /\ UNCHANGED <<stored, requeued, queued, finished, faults, disturbed>>

KeysOf(event) == {event.keys[i] : i \in DOMAIN event.keys}

\* The store, or what comes after it, throws: the event is retried, or given up.
Fail(w) ==
  LET event == job[w].event
  IN /\ faults < MaxFaults
     /\ faults' = faults + 1
     /\ job[w] # Idle
     /\ job' = [job EXCEPT ![w] = Idle]
     /\ \/ /\ event.retries < MaxRetries
           /\ requeued' = requeued (+) One([event EXCEPT !.retries = @ + 1])
           /\ UNCHANGED disturbed
        \/ /\ event.retries = MaxRetries
           /\ disturbed' = disturbed \cup (KeysOf(event) \ event.written)
           /\ UNCHANGED requeued
     /\ UNCHANGED <<stored, queued, finished>>

\* Keys live for a week after their last write in Redis, for four hours in
\* memory, where they are also evicted.
Expire(k) ==
  /\ faults < MaxFaults
  /\ faults' = faults + 1
  /\ stored[k] # Absent
  /\ stored' = [stored EXCEPT ![k] = Absent]
  /\ disturbed' = disturbed \cup {k}
  /\ UNCHANGED <<job, requeued, queued, finished>>

\* DELETE /flush-cache lists the keys and then deletes them: a key stored in between
\* stays.
FlushCache ==
  /\ faults < MaxFaults
  /\ faults' = faults + 1
  /\ \E K \in SUBSET {k \in Key : stored[k] # Absent} :
       /\ K # {}
       /\ stored' = [k \in Key |-> IF k \in K THEN Absent ELSE stored[k]]
       /\ disturbed' = disturbed \cup K
  /\ UNCHANGED <<job, requeued, queued, finished>>

-----------------------------------------------------------------------------

Step(w) ==
  \/ \E k \in Key : ManuallyQueued(w, k) \/ ConversionFinished(w, k)
  \/ \E e \in Entity, keys \in [1..2 -> Key] : Deployed(w, e, keys)
  \/ \E event \in BagToSet(requeued) : Retried(w, event)
  \/ Read(w) \/ Write(w) \/ Rest(w) \/ Fail(w)

PendingNext == (\E w \in Worker : Step(w)) \/ (\E k \in Key : Expire(k)) \/ FlushCache

PendingSpec == PendingInit /\ [][PendingNext]_pendingVars

-----------------------------------------------------------------------------

\* No event about the counter is being handled or waits for a retry.
Settled(k) ==
  \A event \in BagToSet(requeued) \cup {job[w].event : w \in {v \in Worker : job[v] # Idle}} :
    k \notin KeysOf(event)

(* An entity is pending for a platform exactly as long as it has conversions  *)
(* in progress, in whatever order queueing and results arrive and whatever    *)
(* happens to the other counters: only a race on the counter itself, a retry  *)
(* of an update already written or one given up, an expiry or a flush makes   *)
(* it drift.                                                                  *)
CountersExact ==
  \A k \in Key : Settled(k) /\ k \notin disturbed => Value(k) = queued[k] - finished[k]

=============================================================================
