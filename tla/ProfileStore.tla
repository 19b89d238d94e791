---------------------------- MODULE ProfileStore ----------------------------
(***************************************************************************)
(* Where profiles are kept, and how one is persisted.                      *)
(*                                                                         *)
(* A profile is deployed to the catalysts for a pointer, and a later       *)
(* deployment for the pointer replaces it. The service keeps one version   *)
(* per pointer in its database and the most used ones in memory, where a   *)
(* tracker also remembers the deployments that were processed. Persisting  *)
(* writes to memory first and to the database afterwards.                  *)
(*                                                                         *)
(* The catalysts are external. Two clients read them: the content client   *)
(* returns the deployment as it was made, the lambdas client the newest    *)
(* one of a pointer without the items its owner no longer has (`Traded`).  *)
(***************************************************************************)
EXTENDS Integers, FiniteSets

CONSTANTS
  Profile,      \* deployments of profiles
  Pointer,      \* who they are for
  PointerOf,
  TimestampOf,
  Traded,       \* profiles with items that their owner does not have any more
  NoVersion,
  Persister,    \* who persists profiles
  MaxFaults     \* bound on the failures and restarts explored

ASSUME ProfileAssumption ==
  /\ PointerOf \in [Profile -> Pointer]
  /\ TimestampOf \in [Profile -> Nat \ {0}]
  /\ Traded \subseteq Profile
  /\ MaxFaults \in Nat

\* What is kept: a deployment, as it was made or curated.
Version == [profile : Profile, curated : BOOLEAN]

ASSUME NoVersionAssumption == NoVersion \notin Version

VARIABLES
  deployed,  \* the deployments the catalysts have
  stored,    \* table profiles, by pointer
  cache,     \* the hot cache, by pointer
  dedup,     \* short-term cache of the tracker
  bloom,     \* its bloom filter
  queue,     \* versions on their way to the database, and who waits for each
  lost,      \* profiles the service has lost track of: a history variable
  faults     \* failures and restarts so far

storeVars == <<deployed, stored, cache, dedup, bloom, queue, lost, faults>>

StoreTypeOK ==
  /\ deployed \subseteq Profile
  /\ stored \in [Pointer -> Version \cup {NoVersion}]
  /\ cache \in [Pointer -> Version \cup {NoVersion}]
  /\ \A p \in Pointer :
       /\ stored[p] # NoVersion => PointerOf[stored[p].profile] = p
       /\ cache[p] # NoVersion => PointerOf[cache[p].profile] = p
  /\ dedup \subseteq Profile
  /\ bloom \subseteq Profile
  /\ queue \subseteq [by : Persister, version : Version]
  /\ lost \subseteq Profile
  /\ faults \in 0..MaxFaults

StoreInit ==
  /\ deployed = {}
  /\ stored = [p \in Pointer |-> NoVersion]
  /\ cache = [p \in Pointer |-> NoVersion]
  /\ dedup = {}
  /\ bloom = {}
  /\ queue = {}
  /\ lost = {}
  /\ faults = 0

-----------------------------------------------------------------------------
(* Versions.                                                                 *)

\* What the content client returns, and what the lambdas client does.
AsDeployed(e) == [profile |-> e, curated |-> FALSE]
AsServed(e) == [profile |-> e, curated |-> e \in Traded]

\* f says at least as much about the pointer of e as e does.
Covers(f, e) ==
  /\ PointerOf[f] = PointerOf[e]
  /\ TimestampOf[f] >= TimestampOf[e]

\* The slot of e's pointer in the table or in the cache is no older than e.
AsNew(slot, e) ==
  /\ slot[PointerOf[e]] # NoVersion
  /\ TimestampOf[slot[PointerOf[e]].profile] >= TimestampOf[e]

\* Mutant: the last write wins.
AlwaysReplaced(slot, v) == [slot EXCEPT ![PointerOf[v.profile]] = v]

\* setIfNewer of the cache, and the ON CONFLICT clause of the upserts.
IfNewer(slot, v) ==
  IF AsNew(slot, v.profile) THEN slot
  ELSE [slot EXCEPT ![PointerOf[v.profile]] = v]

\* The newest deployments of a pointer: the lambdas serve one of them.
Newest(p) ==
  {e \in deployed : /\ PointerOf[e] = p
                    /\ \A f \in deployed : PointerOf[f] = p => Covers(e, f)}

-----------------------------------------------------------------------------
(* Persisting a version: first in memory, at once; then in the database.     *)

\* Mutant: a pointer that is cached needs nothing more.
CachesIfAbsent(v) == v.profile \notin dedup /\ cache[PointerOf[v.profile]] = NoVersion

\* The first half of persistEntity goes on to the database.
Caches(v) == v.profile \notin dedup /\ ~AsNew(cache, v.profile)

\* The first half, by the process w, which then waits for the second one.
Persist(w, v) ==
  /\ dedup' = dedup \cup {v.profile}
  /\ IF Caches(v)
     THEN /\ cache' = IfNewer(cache, v)
          /\ bloom' = bloom \cup {v.profile}
          /\ queue' = queue \cup {[by |-> w, version |-> v]}
     ELSE UNCHANGED <<cache, bloom, queue>>

\* What w waits for.
Waiting(w) == {q \in queue : q.by = w}

\* One more failure, of the database, of a catalyst, of the tracker or of the process.
Failure == faults < MaxFaults /\ faults' = faults + 1

\* The queue of the persister runs an upsert. Its failure is logged and swallowed.
Upsert(q) ==
  /\ queue' = queue \ {q}
  /\ \/ /\ stored' = IfNewer(stored, q.version)
        /\ UNCHANGED <<lost, faults>>
     \/ /\ Failure
        /\ lost' = lost \cup {q.version.profile}
        /\ UNCHANGED stored
  /\ UNCHANGED <<deployed, cache, dedup, bloom>>

\* e, or a profile that replaces it, is stored, or about to be, or is lost.
Backed(e) ==
  \/ AsNew(stored, e)
  \/ \E q \in queue : Covers(q.version.profile, e)
  \/ \E f \in lost : Covers(f, e)

\* What is cached is stored or on its way, unless the service has lost track of
\* it: persistEntity and the validator write to memory first, a request may cache
\* what it read from the table before, and nobody undoes a cached profile.
CacheBacked ==
  \A p \in Pointer : cache[p] # NoVersion => Backed(cache[p].profile)

\* What the tracker remembers is too, so that the stream may pass over it: it
\* remembers a profile before it is stored, and those that were never cached
\* because something newer was.
TrackedBacked == \A e \in dedup \cup bloom : Backed(e)

-----------------------------------------------------------------------------
(* What happens by itself.                                                   *)

\* The catalysts publish deployments in the order of their timestamps.
Deploy ==
  \E e \in Profile \ deployed :
    /\ \A d \in deployed : TimestampOf[d] <= TimestampOf[e]
    /\ deployed' = deployed \cup {e}
    /\ UNCHANGED <<stored, cache, dedup, bloom, queue, lost, faults>>

\* The hot cache holds the pointers used last.
Evict ==
  \E p \in Pointer :
    /\ cache[p] # NoVersion
    /\ cache' = [cache EXCEPT ![p] = NoVersion]
    /\ UNCHANGED <<deployed, stored, dedup, bloom, queue, lost, faults>>

\* The tracker remembers for a minute, and at most 100 deployments.
DedupExpires ==
  \E e \in dedup :
    /\ dedup' = dedup \ {e}
    /\ UNCHANGED <<deployed, stored, cache, bloom, queue, lost, faults>>

=============================================================================
