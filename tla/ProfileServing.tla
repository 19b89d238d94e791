--------------------------- MODULE ProfileServing ---------------------------
(***************************************************************************)
(* The profile half of the service: the synchronization of ProfileSync,    *)
(* with the requests for profiles and the validation of ownership, which   *)
(* read and write the same cache and table.                                *)
(*                                                                         *)
(* A request looks in the cache, then in the table, then asks a catalyst.  *)
(* The validator compares, every few minutes, what is cached with what the *)
(* catalysts serve. Each works on what it has read a while ago.            *)
(***************************************************************************)
EXTENDS ProfileSync

CONSTANTS
  Reader,  \* requests for a profile
  Named    \* pointers that are names of default profiles and no addresses

ASSUME ServingAssumption ==
  /\ Named \subseteq Pointer
  /\ Persister = {"sync", "retrier", "validator"} \cup Reader
  /\ Reader \cap {"sync", "retrier", "validator"} = {}

VARIABLES
  reader,    \* what each request is doing
  validator  \* what the ownership validator is doing

servingVars == <<reader, validator>>
profileVars == <<storeVars, syncVars, servingVars>>

\* A request for the profile of a pointer, and what it has read.
ReaderState ==
  [pc : {"idle", "table", "row", "lambdas", "answer", "store"},
   pointer : SUBSET Pointer, version : Version \cup {NoVersion}]

NoRequest == [pc |-> "idle", pointer |-> {}, version |-> NoVersion]

\* `served` is what the catalysts answered for the pointers of the cache.
ValidatorState ==
  [pc : {"wait", "compare", "update"}, served : [Pointer -> Version \cup {NoVersion}]]

NotValidating == [pc |-> "wait", served |-> [p \in Pointer |-> NoVersion]]

ProfileTypeOK ==
  /\ SyncTypeOK
  /\ reader \in [Reader -> ReaderState]
  /\ \A r \in Reader :
       reader[r].pc \in {"row", "answer"} => reader[r].version # NoVersion
  /\ validator \in ValidatorState

ProfileInit ==
  /\ SyncInit
  /\ reader = [r \in Reader |-> NoRequest]
  /\ validator = NotValidating

-----------------------------------------------------------------------------
(* A request. What the cache has is answered at once and changes nothing.    *)

CacheMiss(r, p) ==
  /\ reader[r].pc = "idle"
  /\ cache[p] = NoVersion
  /\ reader' = [reader EXCEPT ![r] = [NoRequest EXCEPT !.pc = "table", !.pointer = {p}]]
  /\ UNCHANGED <<storeVars, syncVars, validator>>

\* Mutant: no row is taken for a row.
ReadTableAnyRow(r) ==
  /\ reader[r].pc = "table"
  /\ \E p \in reader[r].pointer :
       reader' = [reader EXCEPT ![r].pc = "row", ![r].version = stored[p]]
  /\ UNCHANGED <<storeVars, syncVars, validator>>

\* getFromDatabase: no row, as after a failed query, means that a catalyst is asked.
ReadTable(r) ==
  /\ reader[r].pc = "table"
  /\ \E p \in reader[r].pointer :
       \/ /\ reader' = [reader EXCEPT
                          ![r].pc = IF stored[p] = NoVersion THEN "lambdas" ELSE "row",
                          ![r].version = stored[p]]
          /\ UNCHANGED faults
       \/ /\ Failure
          /\ reader' = [reader EXCEPT ![r].pc = "lambdas"]
  /\ UNCHANGED <<deployed, stored, cache, dedup, bloom, queue, lost, syncVars, validator>>

AnswerRow(r) ==
  /\ reader[r].pc = "row"
  /\ cache' = IfNewer(cache, reader[r].version)
  /\ reader' = [reader EXCEPT ![r] = NoRequest]
  /\ UNCHANGED <<deployed, stored, dedup, bloom, queue, lost, faults, syncVars, validator>>

\* What the lambdas client may return for a pointer: it is asked for addresses only.
Served(p) == {AsServed(e) : e \in IF p \in Named THEN {} ELSE Newest(p)}

\* getFromCatalyst: nothing deployed, and a failure, are no answer.
AskLambdas(r) ==
  /\ reader[r].pc = "lambdas"
  /\ \E p \in reader[r].pointer :
       \/ /\ \E v \in Served(p) :
               reader' = [reader EXCEPT ![r].pc = "answer", ![r].version = v]
          /\ UNCHANGED faults
       \/ /\ IF Served(p) = {} THEN UNCHANGED faults ELSE Failure
          /\ reader' = [reader EXCEPT ![r] = NoRequest]
  /\ UNCHANGED <<deployed, stored, cache, dedup, bloom, queue, lost, syncVars, validator>>

AnswerServed(r) ==
  /\ reader[r].pc = "answer"
  /\ Persist(r, reader[r].version)
  /\ reader' = [reader EXCEPT ![r].pc = "store", ![r].version = NoVersion]
  /\ UNCHANGED <<deployed, stored, lost, faults, syncVars, validator>>

Answered(r) ==
  /\ reader[r].pc = "store"
  /\ Waiting(r) = {}
  /\ reader' = [reader EXCEPT ![r] = NoRequest]
  /\ UNCHANGED <<storeVars, syncVars, validator>>

-----------------------------------------------------------------------------
(* The ownership validator. Pointers are taken in batches of 50 of the cache *)
(* and each batch is handled like this.                                      *)

FetchServed ==
  /\ validator.pc = "wait"
  /\ \E p \in Pointer : cache[p] # NoVersion
  /\ \E served \in [Pointer -> Version \cup {NoVersion}] :
       /\ \A p \in Pointer :
            served[p] \in (IF cache[p] = NoVersion THEN {} ELSE Served(p)) \cup {NoVersion}
       /\ validator' = [pc |-> "compare", served |-> served]
       /\ IF \A p \in Pointer : cache[p] # NoVersion /\ Served(p) # {} => served[p] # NoVersion
          THEN UNCHANGED faults ELSE Failure
  /\ UNCHANGED <<deployed, stored, cache, dedup, bloom, queue, lost, syncVars, reader>>

\* Mutant: only the same deployment is compared.
ShouldUpdateIfSame(v, w) ==
  TimestampOf[v.profile] = TimestampOf[w.profile] /\ w.curated # v.curated

\* Of different deployments the newer one; of the same one, what was curated.
ShouldUpdateProfile(v, w) ==
  IF TimestampOf[v.profile] # TimestampOf[w.profile]
  THEN TimestampOf[w.profile] > TimestampOf[v.profile]
  ELSE w.curated # v.curated

Updates ==
  {p \in Pointer : /\ validator.served[p] # NoVersion
                   /\ cache[p] # NoVersion
                   /\ ShouldUpdateProfile(cache[p], validator.served[p])}

\* The cached profiles are compared with the answer, and the cache updated.
Compare ==
  /\ validator.pc = "compare"
  /\ cache' = [p \in Pointer |->
                 IF p \in Updates THEN IfNewer(cache, validator.served[p])[p] ELSE cache[p]]
  /\ queue' = queue \cup {[by |-> "validator", version |-> validator.served[p]] : p \in Updates}
  /\ validator' = IF Updates = {} THEN NotValidating
                  ELSE [NotValidating EXCEPT !.pc = "update"]
  /\ UNCHANGED <<deployed, stored, dedup, bloom, lost, faults, syncVars, reader>>

\* One statement upserts them all; its failure is logged and swallowed.
BulkUpsert ==
  /\ validator.pc = "update"
  /\ LET U == {q.version : q \in Waiting("validator")}
     IN  \/ /\ stored' = [p \in Pointer |->
                            IF \E v \in U : PointerOf[v.profile] = p
                            THEN IfNewer(stored, CHOOSE v \in U : PointerOf[v.profile] = p)[p]
                            ELSE stored[p]]
            /\ UNCHANGED <<lost, faults>>
         \/ /\ Failure
            /\ lost' = lost \cup {v.profile : v \in U}
            /\ UNCHANGED stored
  /\ queue' = queue \ Waiting("validator")
  /\ validator' = NotValidating
  /\ UNCHANGED <<deployed, cache, dedup, bloom, syncVars, reader>>

-----------------------------------------------------------------------------

Request ==
  \E r \in Reader :
    \/ \E p \in Pointer : CacheMiss(r, p)
    \/ ReadTable(r) \/ AnswerRow(r) \/ AskLambdas(r) \/ AnswerServed(r) \/ Answered(r)

Validate == FetchServed \/ Compare \/ BulkUpsert

RestartAll ==
  /\ Restart
  /\ reader' = [r \in Reader |-> NoRequest]
  /\ validator' = NotValidating

Synchronization ==
  (World \/ Synchronize \/ FollowChanges \/ Retry \/ \E w \in Persister : Drain(w))
    /\ UNCHANGED servingVars

ProfileNext == Synchronization \/ Request \/ Validate \/ RestartAll

ProfileSpec == ProfileInit /\ [][ProfileNext]_profileVars

\* The validator runs on a timer, and goes on after whatever fails.
FairProfileSpec == ProfileSpec /\ WF_profileVars(Validate)

-----------------------------------------------------------------------------
(* Properties. ProfileStore and ProfileSync state the others.                *)

\* Who writes late does not undo what others wrote: neither the table nor the cache
\* goes back to an older deployment of a pointer, though the synchronizer, the
\* retrier, requests and the validator all write what they read a while ago.
VersionsOnlyAdvance ==
  [][\A p \in Pointer :
       /\ stored[p] # NoVersion => AsNew(stored', stored[p].profile)
       /\ cache[p] # NoVersion /\ cache'[p] # NoVersion => AsNew(cache', cache[p].profile)
    ]_profileVars

Stale(p) ==
  /\ cache[p] # NoVersion
  /\ cache[p].profile \notin Newest(p)

\* A cached profile that is out of date does not stay. It may be: an old row read by
\* a request or an old deployment that was retried is cached where nothing is, and
\* an update may have been missed. The validator is what heals it, names excepted.
StaleCacheHeals == \A p \in Pointer \ Named : Stale(p) ~> ~Stale(p)

\* When the validator finds that a cached profile has to be updated, the cache has
\* what the catalysts served afterwards. The test "should update the profile in
\* cache" of ownership-validator-job.spec.ts, line 308, says so of a profile of
\* the same timestamp with other wearables.
OwnershipChangesApplied ==
  [][Compare => \A p \in Updates : cache'[p] = validator.served[p]]_profileVars

=============================================================================
