---------------------------- MODULE ProfileSync ----------------------------
(***************************************************************************)
(* The synchronization of profiles.                                        *)
(*                                                                         *)
(* A cursor says how far the service has followed the deployments of the   *)
(* catalysts. When it starts, the cursor is the newest timestamp it has    *)
(* stored; if that is more than a week old it first goes through the       *)
(* snapshots of the catalysts. Then it polls the pointer changes after the *)
(* cursor. Deployments whose content cannot be fetched are written down    *)
(* in a table and retried by a second loop. Everything else is in memory   *)
(* and lost when the service restarts.                                     *)
(*                                                                         *)
(* External: a catalyst streams the deployments at or after a timestamp    *)
(* in the order of their timestamps, and offers a snapshot once everything *)
(* in its range has been deployed.                                         *)
(***************************************************************************)
EXTENDS ProfileStore, SequencesExt

CONSTANTS
  Snapshot,
  InitOf,      \* start of the time range of a snapshot, included
  EndOf,       \* and its end, excluded
  Malicious,   \* pointers of the malicious addresses list
  Gone,        \* profiles no catalyst has the content of any more
  Rejected,    \* profiles whose content validateFetchedProfile discards
  MixedCaseId, \* profiles whose id is not in lower case (CID version 0)
  RetryLimit   \* failed fetches per retry, 50 in the code

ASSUME SyncAssumption ==
  /\ InitOf \in [Snapshot -> Nat \ {0}]
  /\ EndOf \in [Snapshot -> Nat \ {0}]
  /\ \A s \in Snapshot : InitOf[s] < EndOf[s]
  /\ \A s, t \in Snapshot : InitOf[s] = InitOf[t] => s = t
  /\ Malicious \subseteq Pointer
  /\ Gone \subseteq Profile
  /\ Rejected \subseteq Profile
  /\ MixedCaseId \subseteq Profile
  /\ RetryLimit \in Nat \ {0}
  /\ {"sync", "retrier"} \subseteq Persister

VARIABLES
  failed,     \* table failed_profile_fetches, in the order of first_failed_at
  processed,  \* table processed_profile_snapshots
  sync,       \* the synchronizer: its start, then the pointer changes loop
  retrier     \* the loop of the failed profiles retrier

syncVars == <<failed, processed, sync, retrier>>

Genesis == 0

(* `cursor` is kept by the synchronizer. `last`, `seen` and `todo` belong to   *)
(* one call of a handler: the timestamp it has reached, the deployments        *)
(* streamed so far, the snapshots to go, and what was found or is missing of   *)
(* the snapshot in hand.                                                       *)
SyncState ==
  [pc : {"load", "start", "snapshots", "missing", "flush", "wait", "stream", "store"},
   cursor : Nat, last : Nat, seen : SUBSET Profile, todo : SUBSET Snapshot,
   found : SUBSET Profile, missing : SUBSET Profile]

Loading ==
  [pc |-> "load", cursor |-> Genesis, last |-> 0, seen |-> {}, todo |-> {},
   found |-> {}, missing |-> {}]

(* `batch` are the rows read, `at` the place of the next to look at, `kept`    *)
(* those to retry, `missing` and `found` what was not fetched and what was, and  *)
(* is not yet done with, `doing` what is being persisted and then deleted.     *)
RetrierState ==
  [pc : {"wait", "check", "persist"}, batch : Seq(Profile),
   at : Nat \ {0}, kept : SUBSET Profile, missing : SUBSET Profile,
   found : SUBSET Profile, doing : SUBSET Profile]

Resting ==
  [pc |-> "wait", batch |-> <<>>, at |-> 1, kept |-> {}, missing |-> {},
   found |-> {}, doing |-> {}]

SyncTypeOK ==
  /\ StoreTypeOK
  /\ failed \in Seq(Profile)
  /\ \A i, j \in DOMAIN failed : failed[i] = failed[j] => i = j
  /\ processed \subseteq Snapshot
  /\ sync \in SyncState
  /\ retrier \in RetrierState

SyncInit ==
  /\ StoreInit
  /\ failed = <<>>
  /\ processed = {}
  /\ sync = Loading
  /\ retrier = Resting

-----------------------------------------------------------------------------
(* The table of failed fetches.                                              *)

\* Mutant: no conflict on the id of the row.
FailingAgain(e) == Append(failed, e)

\* insertFailedProfileFetch with the time of now: a row keeps its first time.
Failing(e) == IF e \in Range(failed) THEN failed ELSE Append(failed, e)

\* The retrier has read the row of f before that of e: it failed before.
FailedBefore(f, e) ==
  \E i, j \in DOMAIN retrier.batch :
    i < j /\ retrier.batch[i] = f /\ retrier.batch[j] = e

\* The same with the time of the row that the retrier has read, for a row that may
\* have been deleted since.
Refailing(e) ==
  IF e \in Range(failed) THEN UNCHANGED failed
  ELSE \E k \in 1 .. Len(failed) + 1 :
         /\ \A i \in 1 .. k - 1 : FailedBefore(failed[i], e)
         /\ k \in DOMAIN failed => ~FailedBefore(failed[k], e)
         /\ failed' = InsertAt(failed, k, e)

\* deleteFailedProfileFetch looks for the id in lower case.
Deleting(e) ==
  IF e \notin Range(failed) \ MixedCaseId THEN UNCHANGED failed
  ELSE \E k \in DOMAIN failed : failed[k] = e /\ failed' = RemoveAt(failed, k)

-----------------------------------------------------------------------------
(* The start of the synchronizer.                                            *)

\* e needs nothing more from the synchronization.
Accounted(e) ==
  \/ Backed(e)
  \/ e \in Range(failed)
  \/ e \in Rejected
  \/ PointerOf[e] \in Malicious

\* The newest timestamp of the table.
Latest ==
  LET times == {TimestampOf[stored[p].profile] : p \in {q \in Pointer : stored[q] # NoVersion}}
  IN  IF times = {} THEN {Genesis} ELSE {t \in times : \A u \in times : u <= t}

\* loadLastCursor. Whether the cursor is a week old is for the clock to say.
\* Deployments before it that are not accounted for will never be streamed.
LoadLastCursor ==
  /\ sync.pc = "load"
  /\ \E c \in {Genesis} \cup Latest :
       /\ IF c \in Latest THEN UNCHANGED faults ELSE Failure
       /\ \E pc \in IF c = Genesis THEN {"start"} ELSE {"start", "wait"} :
            sync' = [sync EXCEPT !.pc = pc, !.cursor = c]
       /\ lost' = lost \cup {e \in deployed : TimestampOf[e] < c /\ ~Accounted(e)}
  /\ UNCHANGED <<deployed, stored, cache, dedup, bloom, queue, failed, processed,
                 retrier>>

\* Mutant: only the last of them.
OfferedLast(c) ==
  {s \in Snapshot : /\ InitOf[s] >= c
                    /\ \A e \in Profile : TimestampOf[e] < EndOf[s] => e \in deployed
                    /\ \A t \in Snapshot : InitOf[t] <= InitOf[s]}

\* The snapshots a catalyst offers and fetchSnapshotsToProcess keeps.
Offered(c) ==
  {s \in Snapshot : /\ InitOf[s] >= c
                    /\ \A e \in Profile : TimestampOf[e] < EndOf[s] => e \in deployed}

\* The deployments streamed from a snapshot.
Streamed(s, from) ==
  {e \in deployed : /\ InitOf[s] <= TimestampOf[e] /\ TimestampOf[e] < EndOf[s]
                    /\ from <= TimestampOf[e]}

\* What lies between the cursor and the end of the snapshots and in none of them.
PassedOver(c, S) ==
  {e \in deployed : /\ c <= TimestampOf[e]
                    /\ \E s \in S : TimestampOf[e] < EndOf[s]
                    /\ \A s \in S : e \notin Streamed(s, 0)}

FetchSnapshotsToProcess ==
  /\ sync.pc = "start"
  /\ LET S == Offered(sync.cursor)
     IN  /\ sync' = [sync EXCEPT !.pc = IF S = {} THEN "wait" ELSE "snapshots",
                                 !.todo = S, !.last = 0]
         /\ lost' = lost \cup {e \in PassedOver(sync.cursor, S) : ~Accounted(e)}
  /\ UNCHANGED <<deployed, stored, cache, dedup, bloom, queue, faults, failed,
                 processed, retrier>>

\* Snapshots are processed in the order of their start.
NextSnapshot(s) ==
  /\ sync.pc = "snapshots"
  /\ s \in sync.todo
  /\ \A t \in sync.todo : InitOf[s] <= InitOf[t]

Later(t, u) == IF t > u THEN t ELSE u

SkipSnapshot(s) ==
  /\ NextSnapshot(s)
  /\ s \in processed
  /\ sync' = [sync EXCEPT !.todo = @ \ {s}, !.last = Later(@, EndOf[s])]
  /\ UNCHANGED <<storeVars, failed, processed, retrier>>

\* The part of a request for contents that is not answered: all that is gone,
\* and after a failure of the catalysts anything.
NotAnswered(asked) ==
  {M \in SUBSET asked : asked \cap Gone \subseteq M}

\* A request that finds less than what is there is a failure.
MissesOnly(asked, M) == IF M = asked \cap Gone THEN UNCHANGED faults ELSE Failure

FetchSnapshot(s) ==
  /\ NextSnapshot(s)
  /\ s \notin processed
  /\ LET asked == Streamed(s, sync.last)
     IN  \E M \in NotAnswered(asked) :
           /\ MissesOnly(asked, M)
           /\ sync' = [sync EXCEPT !.pc = "missing", !.missing = M,
                                   !.found = asked \ (M \cup Rejected)]
  /\ UNCHANGED <<deployed, stored, cache, dedup, bloom, queue, lost, failed,
                 processed, retrier>>

\* notFoundProfilesHandler, one profile after the other.
RecordMissing(e) ==
  /\ sync.pc = "missing"
  /\ e \in sync.missing
  /\ failed' = Failing(e)
  /\ sync' = [sync EXCEPT !.missing = @ \ {e}]
  /\ UNCHANGED <<storeVars, processed, retrier>>

\* Persisting all of `found` at once, in an order the catalyst chose: of a pointer
\* the newest is cached in the end, and any of the others may have been before it.
PersistFound ==
  /\ sync.pc = "missing"
  /\ sync.missing = {}
  /\ LET new == {e \in sync.found : Caches(AsDeployed(e))}
     IN  \E W \in SUBSET new :
           /\ \A e, f \in W : Covers(e, f) /\ Covers(f, e) => e = f
           /\ \E N \in SUBSET W :
                /\ \A e, f \in N : PointerOf[e] = PointerOf[f] => e = f
                /\ \A e \in new : \E f \in N : Covers(f, e)
                /\ cache' = [p \in Pointer |->
                               IF \E e \in N : PointerOf[e] = p
                               THEN AsDeployed(CHOOSE e \in N : PointerOf[e] = p)
                               ELSE cache[p]]
           /\ bloom' = bloom \cup W
           /\ queue' = queue \cup {[by |-> "sync", version |-> AsDeployed(e)] : e \in W}
  /\ dedup' = dedup \cup sync.found
  /\ sync' = [sync EXCEPT !.pc = "flush", !.found = {}]
  /\ UNCHANGED <<deployed, stored, lost, faults, failed, processed, retrier>>

MarkSnapshotProcessed(s) ==
  /\ sync.pc = "flush"
  /\ Waiting("sync") = {}
  /\ s \in sync.todo /\ \A t \in sync.todo : InitOf[s] <= InitOf[t]
  /\ processed' = processed \cup {s}
  /\ sync' = [sync EXCEPT !.pc = "snapshots", !.todo = @ \ {s},
                          !.last = Later(@, EndOf[s])]
  /\ UNCHANGED <<storeVars, failed, retrier>>

\* The loops start from what the snapshots have reached.
SnapshotsDone ==
  /\ sync.pc = "snapshots"
  /\ sync.todo = {}
  /\ sync' = [sync EXCEPT !.pc = "wait", !.cursor = sync.last, !.last = 0]
  /\ UNCHANGED <<storeVars, failed, processed, retrier>>

\* Any failure of the snapshots: the loops start from where the cursor was.
SnapshotsFail ==
  /\ sync.pc \in {"start", "snapshots", "missing", "flush"}
  /\ Waiting("sync") = {}
  /\ Failure
  /\ sync' = [Loading EXCEPT !.pc = "wait", !.cursor = sync.cursor]
  /\ UNCHANGED <<deployed, stored, cache, dedup, bloom, queue, lost, failed,
                 processed, retrier>>

-----------------------------------------------------------------------------
(* The pointer changes loop.                                                 *)

Poll ==
  /\ sync.pc = "wait"
  /\ sync' = [sync EXCEPT !.pc = "stream", !.last = 0, !.seen = {}]
  /\ UNCHANGED <<storeVars, failed, processed, retrier>>

\* Mutant: what has the timestamp of the cursor has been handled.
UnseenLater == {e \in deployed \ sync.seen : TimestampOf[e] > sync.cursor}

\* The deployments the stream has to give, and the next of them.
Unseen == {e \in deployed \ sync.seen : TimestampOf[e] >= sync.cursor}

NextStreamed(e) ==
  /\ sync.pc = "stream"
  /\ e \in Unseen
  /\ \A f \in Unseen : TimestampOf[e] <= TimestampOf[f]

Seen(e) == [sync EXCEPT !.seen = @ \cup {e}]

\* hasBeenProcessed: what was persisted is not persisted again. The bloom filter
\* may also say so of what was not.
SkipProcessed(e) ==
  /\ NextStreamed(e)
  /\ sync' = Seen(e)
  /\ IF e \in dedup \cup bloom
     THEN UNCHANGED <<lost, faults>>
     ELSE Failure /\ lost' = lost \cup {e}
  /\ UNCHANGED <<deployed, stored, cache, dedup, bloom, queue, failed, processed,
                 retrier>>

SkipMalicious(e) ==
  /\ NextStreamed(e)
  /\ e \notin dedup \cup bloom
  /\ PointerOf[e] \in Malicious
  /\ sync' = [Seen(e) EXCEPT !.last = TimestampOf[e]]
  /\ UNCHANGED <<storeVars, failed, processed, retrier>>

\* The profile is fetched; one of a malicious address too while the list is not available.
Fetched(e) ==
  /\ NextStreamed(e)
  /\ e \notin dedup \cup bloom

\* Mutant: not written down.
StreamMissingForgotten(e) ==
  /\ Fetched(e)
  /\ MissesOnly({e}, {e})
  /\ sync' = Seen(e)
  /\ UNCHANGED <<deployed, stored, cache, dedup, bloom, queue, lost, failed,
                 processed, retrier>>

\* Not found: written down for the retrier. The cursor is not moved by it.
StreamMissing(e) ==
  /\ Fetched(e)
  /\ MissesOnly({e}, {e})
  /\ failed' = Failing(e)
  /\ sync' = Seen(e)
  /\ UNCHANGED <<deployed, stored, cache, dedup, bloom, queue, lost, processed,
                 retrier>>

StreamRejected(e) ==
  /\ Fetched(e)
  /\ e \in Rejected \ Gone
  /\ sync' = Seen(e)
  /\ UNCHANGED <<storeVars, failed, processed, retrier>>

StreamFound(e) ==
  /\ Fetched(e)
  /\ e \notin Rejected \cup Gone
  /\ Persist("sync", AsDeployed(e))
  /\ sync' = [Seen(e) EXCEPT !.pc = "store", !.last = TimestampOf[e]]
  /\ UNCHANGED <<deployed, stored, lost, faults, failed, processed, retrier>>

StreamStored ==
  /\ sync.pc = "store"
  /\ Waiting("sync") = {}
  /\ sync' = [sync EXCEPT !.pc = "stream"]
  /\ UNCHANGED <<storeVars, failed, processed, retrier>>

\* The stream ends: the cursor moves forward to the last deployment handled.
StreamEnds ==
  /\ sync.pc = "stream"
  /\ Unseen = {}
  /\ sync' = [sync EXCEPT !.pc = "wait", !.cursor = Later(@, sync.last),
                          !.last = 0, !.seen = {}]
  /\ UNCHANGED <<storeVars, failed, processed, retrier>>

\* A request that times out, or a failed insertion, ends the poll.
StreamFails ==
  /\ sync.pc = "stream"
  /\ Failure
  /\ sync' = [sync EXCEPT !.pc = "wait", !.last = 0, !.seen = {}]
  /\ UNCHANGED <<deployed, stored, cache, dedup, bloom, queue, lost, failed,
                 processed, retrier>>

-----------------------------------------------------------------------------
(* The failed profiles retrier. It begins with the loops.                    *)

\* The stored profile of the pointer is newer than e.
Superseded(e) ==
  /\ stored[PointerOf[e]] # NoVersion
  /\ TimestampOf[stored[PointerOf[e]].profile] > TimestampOf[e]

RetryRead ==
  /\ retrier.pc = "wait"
  /\ sync.pc \in {"wait", "stream", "store"}
  /\ failed # <<>>
  /\ LET n == IF Len(failed) < RetryLimit THEN Len(failed) ELSE RetryLimit
     IN  retrier' = [Resting EXCEPT !.pc = "check", !.batch = SubSeq(failed, 1, n)]
  /\ UNCHANGED <<storeVars, failed, processed, sync>>

\* A row is dropped where something newer is stored, else it is retried.
RetryCheck ==
  /\ retrier.pc = "check"
  /\ retrier.at <= Len(retrier.batch)
  /\ LET e == retrier.batch[retrier.at]
     IN  IF Superseded(e)
         THEN /\ Deleting(e)
              /\ retrier' = [retrier EXCEPT !.at = @ + 1]
         ELSE /\ retrier' = [retrier EXCEPT !.at = @ + 1, !.kept = @ \cup {e}]
              /\ UNCHANGED failed
  /\ UNCHANGED <<storeVars, processed, sync>>

\* sanitizeProfiles is given all the rows read, those just dropped included.
Asked == Range(retrier.batch)

RetryChecked ==
  /\ retrier.pc = "check"
  /\ retrier.at > Len(retrier.batch)

RetryNothing ==
  /\ RetryChecked
  /\ retrier.kept = {}
  /\ retrier' = Resting
  /\ UNCHANGED <<storeVars, failed, processed, sync>>

RetryFetch ==
  /\ RetryChecked
  /\ retrier.kept # {}
  /\ \E M \in NotAnswered(Asked) :
       /\ MissesOnly(Asked, M)
       /\ retrier' = [retrier EXCEPT !.pc = "persist", !.kept = {}, !.missing = M,
                                     !.found = Asked \ (M \cup Rejected)]
  /\ UNCHANGED <<deployed, stored, cache, dedup, bloom, queue, lost, failed,
                 processed, sync>>

\* What is missing is written down again, with its first time.
RetryMissing(e) ==
  /\ retrier.pc = "persist"
  /\ e \in retrier.missing
  /\ Refailing(e)
  /\ retrier' = [retrier EXCEPT !.missing = @ \ {e}]
  /\ UNCHANGED <<storeVars, processed, sync>>

RetryPersist(e) ==
  /\ retrier.pc = "persist"
  /\ retrier.missing = {}
  /\ retrier.doing = {}
  /\ e \in retrier.found
  /\ Persist("retrier", AsDeployed(e))
  /\ retrier' = [retrier EXCEPT !.found = @ \ {e}, !.doing = {e}]
  /\ UNCHANGED <<deployed, stored, lost, faults, failed, processed, sync>>

\* Mutant: the row stays.
RetryKeep(e) ==
  /\ retrier.pc = "persist"
  /\ e \in retrier.doing
  /\ Waiting("retrier") = {}
  /\ retrier' = [retrier EXCEPT !.doing = {}]
  /\ UNCHANGED <<storeVars, failed, processed, sync>>

RetryDelete(e) ==
  /\ retrier.pc = "persist"
  /\ e \in retrier.doing
  /\ Waiting("retrier") = {}
  /\ Deleting(e)
  /\ retrier' = [retrier EXCEPT !.doing = {}]
  /\ UNCHANGED <<storeVars, processed, sync>>

RetryDone ==
  /\ retrier.pc = "persist"
  /\ retrier.missing = {}
  /\ retrier.doing = {}
  /\ retrier.found = {}
  /\ retrier' = Resting
  /\ UNCHANGED <<storeVars, failed, processed, sync>>

\* Any failed query, or a request that times out, ends the retry.
RetryFails ==
  /\ retrier.pc # "wait"
  /\ Waiting("retrier") = {}
  /\ Failure
  /\ retrier' = Resting
  /\ UNCHANGED <<deployed, stored, cache, dedup, bloom, queue, lost, failed,
                 processed, sync>>

-----------------------------------------------------------------------------

\* The service stops and starts: memory is lost, and with it what was queued.
Restart ==
  /\ Failure
  /\ cache' = [p \in Pointer |-> NoVersion]
  /\ dedup' = {}
  /\ bloom' = {}
  /\ queue' = {}
  /\ lost' = lost \cup {q.version.profile : q \in queue}
  /\ sync' = Loading
  /\ retrier' = Resting
  /\ UNCHANGED <<deployed, stored, failed, processed>>

Synchronize ==
  \/ LoadLastCursor \/ FetchSnapshotsToProcess
  \/ \E s \in Snapshot :
       SkipSnapshot(s) \/ FetchSnapshot(s) \/ MarkSnapshotProcessed(s)
  \/ \E e \in Profile : RecordMissing(e)
  \/ PersistFound \/ SnapshotsDone \/ SnapshotsFail

FollowChanges ==
  \/ Poll \/ StreamStored \/ StreamEnds \/ StreamFails
  \/ \E e \in Profile :
       \/ SkipProcessed(e) \/ SkipMalicious(e) \/ StreamMissing(e)
       \/ StreamRejected(e) \/ StreamFound(e)

Retry ==
  \/ RetryRead \/ RetryCheck \/ RetryNothing \/ RetryFetch \/ RetryDone \/ RetryFails
  \/ \E e \in Profile : RetryMissing(e) \/ RetryPersist(e) \/ RetryDelete(e)

\* The queue runs the upserts of persistEntity; a bulk upsert is not queued.
Drain(w) ==
  /\ w # "validator"
  /\ \E q \in Waiting(w) : Upsert(q)
  /\ UNCHANGED syncVars

World ==
  \/ Deploy /\ UNCHANGED syncVars
  \/ Evict /\ UNCHANGED syncVars
  \/ DedupExpires /\ UNCHANGED syncVars

SyncNext ==
  \/ Synchronize \/ FollowChanges \/ Retry \/ World \/ Restart
  \/ \E w \in Persister : Drain(w)

allSyncVars == <<storeVars, syncVars>>

SyncSpec == SyncInit /\ [][SyncNext]_allSyncVars

\* The loops run on timers and go on after whatever fails, and the queue runs
\* what it is given, first come first served. Nothing makes the catalysts deploy or the cache evict.
SyncFairness ==
  /\ WF_allSyncVars(Synchronize)
  /\ WF_allSyncVars(FollowChanges)
  /\ WF_allSyncVars(Retry)
  /\ \A w \in Persister : WF_allSyncVars(Drain(w))

FairSyncSpec == SyncSpec /\ SyncFairness

-----------------------------------------------------------------------------
(* Properties.                                                               *)

\* Every deployment the cursor has passed is accounted for: the stream will not
\* give it again. The cursor passes deployments that were skipped because the
\* tracker knows them, that could not be fetched, that a snapshot or the retrier
\* handled, or that are older than what was stored when the service started.
NothingSkipped ==
  \A e \in deployed : TimestampOf[e] < sync.cursor => Accounted(e)

\* The snapshots of the catalysts leave no gap: what is older than the end of one of
\* them is in it or in one before it.
SnapshotsGapless ==
  \A s \in Snapshot, e \in Profile :
    TimestampOf[e] < EndOf[s] =>
      \E t \in Snapshot : /\ InitOf[t] <= TimestampOf[e] /\ TimestampOf[e] < EndOf[t]
                         /\ EndOf[t] <= EndOf[s]

\* The service loses track of a profile only after a failure or a restart, where the
\* snapshots leave no gap. This is about the snapshots and the pointer changes
\* together: where the ones end, the others go on.
LossIsAFault == faults = 0 => lost = {}

\* What was deployed is eventually accounted for, whatever failed on the way.
DeploymentsFollowed == []<>(\A e \in deployed : Accounted(e))

\* The retrier can do no more for a row: no content to store, or nothing newer stored
\* that would drop it, or an id that no deletion finds.
Settled(e) ==
  IF e \in MixedCaseId THEN e \in Gone \cup Rejected \/ Backed(e)
                       ELSE e \in Gone \cup Rejected /\ ~Superseded(e)

\* The retrier settles every failed fetch it reads: what can be fetched is stored and its
\* row dropped. A fetch is left over only behind RetryLimit rows that stay for good, and
\* then it is left over for good: nothing skips or expires such rows.
FailedFetchesSettle ==
  []<>(\A i \in DOMAIN failed : i <= RetryLimit => Settled(failed[i]))

=============================================================================
