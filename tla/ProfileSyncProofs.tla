------------------------- MODULE ProfileSyncProofs -------------------------
(***************************************************************************)
(* Theorems about the synchronization of profiles, for every set of        *)
(* profiles, pointers and snapshots: its types, and that nothing is        *)
(* skipped.  What the ways of writing a profile preserve comes first; the  *)
(* proofs about ProfileServing use it too.                                 *)
(***************************************************************************)
EXTENDS ProfileSync, SequenceTheorems, TLAPS

-----------------------------------------------------------------------------
(* The ways of writing a profile                                             *)

\* What is stored, or about to be, was deployed.
StoreKnown ==
  /\ \A p \in Pointer : stored[p] # NoVersion => stored[p].profile \in deployed
  /\ \A q \in queue : q.version.profile \in deployed

StoreInv ==
  /\ StoreTypeOK
  /\ StoreKnown
  /\ CacheBacked
  /\ TrackedBacked

\* A slot is never replaced by something older.
TableAdvances ==
  \A p \in Pointer : stored[p] # NoVersion => AsNew(stored', stored[p].profile)

CacheAdvances ==
  \A p \in Pointer :
    cache[p] # NoVersion /\ cache'[p] # NoVersion => AsNew(cache', cache[p].profile)

(* What a step may not take back: the table advances, nothing lost is found  *)
(* again, and what leaves the queue is stored or lost.                       *)
Keeps ==
  /\ TableAdvances
  /\ lost \subseteq lost'
  /\ \A q \in queue \ queue' :
       AsNew(stored', q.version.profile) \/ q.version.profile \in lost'

-----------------------------------------------------------------------------
(* Covering is a preorder, and what covers a backed profile backs it.        *)

LEMMA VersionProfile ==
  ASSUME NEW v \in Version
  PROVE  /\ v.profile \in Profile
         /\ PointerOf[v.profile] \in Pointer
         /\ TimestampOf[v.profile] \in Nat
         /\ v # NoVersion
  BY ProfileAssumption, NoVersionAssumption DEF Version

LEMMA CoversTransitive ==
  ASSUME NEW e \in Profile, NEW f \in Profile, NEW g \in Profile,
         Covers(g, f), Covers(f, e)
  PROVE  Covers(g, e)
  BY ProfileAssumption DEF Covers

LEMMA AsNewCovers ==
  ASSUME NEW slot \in [Pointer -> Version \cup {NoVersion}],
         NEW e \in Profile, NEW f \in Profile, Covers(f, e), AsNew(slot, f)
  PROVE  AsNew(slot, e)
  BY ProfileAssumption DEF Covers, AsNew, Version

LEMMA BackedCovers ==
  ASSUME StoreTypeOK, NEW e \in Profile, NEW f \in Profile, Covers(f, e), Backed(f)
  PROVE  Backed(e)
<1>1. CASE AsNew(stored, f)
  BY <1>1, AsNewCovers DEF StoreTypeOK, Backed
<1>2. CASE \E q \in queue : Covers(q.version.profile, f)
  BY <1>2, CoversTransitive, VersionProfile DEF StoreTypeOK, Backed
<1>3. CASE \E g \in lost : Covers(g, f)
  BY <1>3, CoversTransitive DEF StoreTypeOK, Backed
<1>4. QED
  BY <1>1, <1>2, <1>3 DEF Backed

\* A cached profile covers whatever it is as new as.
LEMMA CachedCovers ==
  ASSUME StoreTypeOK, CacheBacked, NEW e \in Profile, AsNew(cache, e)
  PROVE  Backed(e)
<1> DEFINE p == PointerOf[e]
           f == cache[p].profile
<1>1. p \in Pointer /\ cache[p] \in Version /\ f \in Profile
  BY ProfileAssumption, VersionProfile DEF StoreTypeOK, AsNew
<1>2. Covers(f, e)
  BY <1>1 DEF StoreTypeOK, AsNew, Covers
<1>3. Backed(f)
  BY <1>1 DEF CacheBacked, AsNew
<1>4. QED
  BY <1>1, <1>2, <1>3, BackedCovers

LEMMA BackedKept ==
  ASSUME StoreTypeOK, StoreTypeOK', Keeps, NEW e \in Profile, Backed(e)
  PROVE  Backed(e)'
<1>1. CASE AsNew(stored, e)
  <2> DEFINE p == PointerOf[e]
             f == stored[p].profile
  <2>1. p \in Pointer /\ stored[p] # NoVersion /\ f \in Profile /\ Covers(f, e)
    BY <1>1, ProfileAssumption, VersionProfile DEF StoreTypeOK, AsNew, Covers
  <2>2. AsNew(stored', f)
    BY <2>1 DEF Keeps, TableAdvances
  <2>3. QED
    BY <2>1, <2>2, AsNewCovers DEF StoreTypeOK, Backed
<1>2. ASSUME NEW q \in queue, Covers(q.version.profile, e) PROVE Backed(e)'
  <2>1. q.version.profile \in Profile
    BY VersionProfile DEF StoreTypeOK
  <2>2. CASE q \in queue'
    BY <1>2, <2>2 DEF Backed
  <2>3. CASE AsNew(stored', q.version.profile)
    BY <1>2, <2>1, <2>3, AsNewCovers DEF StoreTypeOK, Backed
  <2>4. CASE q.version.profile \in lost'
    BY <1>2, <2>4 DEF Backed
  <2>5. QED
    BY <2>2, <2>3, <2>4 DEF Keeps
<1>3. CASE \E f \in lost : Covers(f, e)
  BY <1>3 DEF Keeps, Backed
<1>4. QED
  BY <1>1, <1>2, <1>3 DEF Backed

-----------------------------------------------------------------------------
(* Writing a slot.                                                           *)

LEMMA IfNewerType ==
  ASSUME NEW slot \in [Pointer -> Version \cup {NoVersion}], NEW v \in Version,
         NEW p \in Pointer
  PROVE  /\ IfNewer(slot, v) \in [Pointer -> Version \cup {NoVersion}]
         /\ IfNewer(slot, v)[p] \in {slot[p], v}
         /\ IfNewer(slot, v)[p] = v /\ slot[p] # v => PointerOf[v.profile] = p
         /\ AsNew(IfNewer(slot, v), v.profile)
         /\ slot[p] # NoVersion /\ PointerOf[slot[p].profile] = p =>
              AsNew(IfNewer(slot, v), slot[p].profile)
<1>1. v.profile \in Profile /\ PointerOf[v.profile] \in Pointer
      /\ TimestampOf[v.profile] \in Nat /\ v # NoVersion
  BY VersionProfile
<1>2. CASE AsNew(slot, v.profile)
  <2>1. IfNewer(slot, v) = slot
    BY <1>2 DEF IfNewer
  <2>2. slot[p] # NoVersion /\ PointerOf[slot[p].profile] = p => AsNew(slot, slot[p].profile)
    BY VersionProfile DEF AsNew
  <2>3. QED
    BY <1>2, <2>1, <2>2
<1>3. CASE ~AsNew(slot, v.profile)
  <2>1. IfNewer(slot, v) = [slot EXCEPT ![PointerOf[v.profile]] = v]
    BY <1>3 DEF IfNewer
  <2>2. AsNew(IfNewer(slot, v), v.profile)
    BY <2>1, <1>1 DEF AsNew
  <2>3. ASSUME slot[p] # NoVersion, PointerOf[slot[p].profile] = p
        PROVE  AsNew(IfNewer(slot, v), slot[p].profile)
    <3>1. slot[p] \in Version /\ TimestampOf[slot[p].profile] \in Nat
      BY <2>3, VersionProfile
    <3>2. CASE PointerOf[v.profile] = p
      BY <3>1, <3>2, <2>1, <2>3, <1>1, <1>3 DEF AsNew
    <3>3. CASE PointerOf[v.profile] # p
      BY <3>1, <3>3, <2>1, <2>3, <1>1 DEF AsNew
    <3>4. QED
      BY <3>2, <3>3
  <2>4. QED
    BY <2>1, <2>2, <2>3, <1>1
<1>4. QED
  BY <1>2, <1>3

-----------------------------------------------------------------------------
(* Steps.                                                                    *)

\* A step that writes nothing, though profiles may be deployed or lost.
LEMMA NothingWritten ==
  ASSUME StoreInv, UNCHANGED <<stored, cache, dedup, bloom, queue>>,
         deployed \subseteq deployed', deployed' \subseteq Profile,
         lost \subseteq lost', lost' \subseteq Profile, faults' \in 0..MaxFaults
  PROVE  StoreInv' /\ Keeps /\ CacheAdvances
<1>1. StoreTypeOK'
  BY DEF StoreInv, StoreTypeOK
<1>2. Keeps
  BY VersionProfile DEF StoreInv, StoreTypeOK, Keeps, TableAdvances, AsNew
<1>3. CacheAdvances
  BY VersionProfile DEF StoreInv, StoreTypeOK, CacheAdvances, AsNew
<1>4. StoreKnown'
  BY DEF StoreInv, StoreKnown
<1>5. CacheBacked'
  <2>1. \A p \in Pointer : cache[p] # NoVersion => cache[p].profile \in Profile
    BY VersionProfile DEF StoreInv, StoreTypeOK
  <2>2. QED
    BY <1>1, <1>2, <2>1, BackedKept DEF StoreInv, CacheBacked
<1>6. TrackedBacked'
  BY <1>1, <1>2, BackedKept DEF StoreInv, StoreTypeOK, TrackedBacked
<1>7. QED
  BY <1>1, <1>2, <1>3, <1>4, <1>5, <1>6 DEF StoreInv

\* persistEntity: afterwards the profile is backed, whatever was in the way.
LEMMA PersistKeeps ==
  ASSUME StoreInv, NEW w \in Persister, NEW v \in Version, v.profile \in deployed,
         Persist(w, v), UNCHANGED <<deployed, stored, lost, faults>>
  PROVE  /\ StoreInv' /\ Keeps /\ CacheAdvances
         /\ Backed(v.profile)'
         /\ \A q \in queue' \ queue : q.by = w
<1>0. v.profile \in Profile
  BY VersionProfile
<1>1. StoreTypeOK'
  BY VersionProfile, IfNewerType DEF StoreInv, StoreTypeOK, Persist
<1>2. Keeps
  BY VersionProfile DEF StoreInv, StoreTypeOK, Keeps, TableAdvances, AsNew, Persist
<1>3. CacheAdvances
  <2>1. ASSUME NEW p \in Pointer, cache[p] # NoVersion
        PROVE  AsNew(cache, cache[p].profile) /\ AsNew(IfNewer(cache, v), cache[p].profile)
    BY <2>1, VersionProfile, IfNewerType DEF StoreInv, StoreTypeOK, AsNew
  <2>2. QED
    BY <2>1 DEF CacheAdvances, Persist
<1>4. StoreKnown'
  BY DEF StoreInv, StoreKnown, Persist
<1>5. Backed(v.profile)'
  <2>1. CASE Caches(v)
    <3> DEFINE q == [by |-> w, version |-> v]
    <3>1. q \in queue' /\ Covers(q.version.profile, v.profile)
      BY <2>1, VersionProfile DEF Persist, Covers
    <3>2. QED
      BY <3>1 DEF Backed
  <2>2. CASE ~Caches(v)
    <3>1. Backed(v.profile)
      BY <2>2, <1>0, CachedCovers DEF Caches, StoreInv, TrackedBacked
    <3>2. QED
      BY <3>1, <1>0, <1>1, <1>2, BackedKept DEF StoreInv
  <2>3. QED
    BY <2>1, <2>2
<1>6. CacheBacked'
  <2>1. ASSUME NEW p \in Pointer, cache'[p] # NoVersion PROVE Backed(cache[p].profile)'
    <3>1. cache'[p] = cache[p] \/ cache'[p] = v
      BY IfNewerType DEF StoreInv, StoreTypeOK, Persist
    <3>2. CASE cache'[p] = cache[p]
      <4>1. cache[p].profile \in Profile /\ Backed(cache[p].profile)
        BY <3>2, <2>1, VersionProfile DEF StoreInv, StoreTypeOK, CacheBacked
      <4>2. QED
        BY <3>2, <4>1, <1>1, <1>2, BackedKept DEF StoreInv
    <3>3. QED
      BY <3>1, <3>2, <1>5
  <2>2. QED
    BY <2>1 DEF CacheBacked
<1>7. TrackedBacked'
  <2>1. ASSUME NEW e \in dedup' \cup bloom' PROVE Backed(e)'
    <3>1. e \in dedup \cup bloom \/ e = v.profile
      BY DEF Persist
    <3>2. QED
      BY <3>1, <1>1, <1>2, <1>5, BackedKept DEF StoreInv, StoreTypeOK, TrackedBacked
  <2>2. QED
    BY <2>1 DEF TrackedBacked
<1>8. \A q \in queue' \ queue : q.by = w
  BY DEF Persist
<1>9. QED
  BY <1>1, <1>2, <1>3, <1>4, <1>5, <1>6, <1>7, <1>8 DEF StoreInv

\* An upsert, done or failed.
LEMMA UpsertKeeps ==
  ASSUME StoreInv, NEW q \in queue, Upsert(q)
  PROVE  StoreInv' /\ Keeps /\ CacheAdvances
<1>0. q.version \in Version /\ q.version.profile \in Profile
  BY VersionProfile DEF StoreInv, StoreTypeOK
<1>1. StoreTypeOK'
  <2>1. stored \in [Pointer -> Version \cup {NoVersion}]
    BY DEF StoreInv, StoreTypeOK
  <2>2. IfNewer(stored, q.version) \in [Pointer -> Version \cup {NoVersion}]
    BY <1>0, <2>1 DEF IfNewer
  <2>3. \A p \in Pointer :
          IfNewer(stored, q.version)[p] # NoVersion =>
            PointerOf[IfNewer(stored, q.version)[p].profile] = p
    BY <1>0, <2>1 DEF IfNewer, StoreInv, StoreTypeOK
  <2>4. /\ stored' \in [Pointer -> Version \cup {NoVersion}]
        /\ \A p \in Pointer : stored'[p] # NoVersion => PointerOf[stored'[p].profile] = p
    BY <2>1, <2>2, <2>3 DEF Upsert, StoreInv, StoreTypeOK
  <2>5. lost' \subseteq Profile /\ faults' \in 0..MaxFaults
    BY <1>0, ProfileAssumption DEF Upsert, Failure, StoreInv, StoreTypeOK
  <2>6. QED
    BY <2>4, <2>5 DEF Upsert, StoreInv, StoreTypeOK
<1>2. Keeps
  <2>1. CASE stored' = IfNewer(stored, q.version) /\ UNCHANGED lost
    <3>1. TableAdvances
      <4>1. SUFFICES ASSUME NEW p \in Pointer, stored[p] # NoVersion
                     PROVE  AsNew(IfNewer(stored, q.version), stored[p].profile)
        BY <2>1 DEF TableAdvances
      <4>2. QED
        BY <1>0, <4>1, IfNewerType DEF StoreInv, StoreTypeOK
    <3>2. queue \ queue' = {q}
      BY DEF Upsert
    <3>3. ASSUME Pointer # {} PROVE AsNew(stored', q.version.profile)
      BY <1>0, <2>1, <3>3, IfNewerType DEF StoreInv, StoreTypeOK
    <3>4. QED
      BY <1>0, <2>1, <3>1, <3>2, <3>3, VersionProfile DEF Keeps
  <2>2. CASE lost' = lost \cup {q.version.profile} /\ UNCHANGED stored
    BY <1>0, <2>2, VersionProfile
    DEF StoreInv, StoreTypeOK, Keeps, TableAdvances, Upsert, AsNew
  <2>3. QED
    BY <2>1, <2>2 DEF Upsert
<1>3. CacheAdvances
  BY VersionProfile DEF StoreInv, StoreTypeOK, CacheAdvances, AsNew, Upsert
<1>4. StoreKnown'
  BY <1>0, IfNewerType DEF StoreInv, StoreTypeOK, StoreKnown, Upsert
<1>5. CacheBacked'
  <2>1. \A p \in Pointer : cache[p] # NoVersion => cache[p].profile \in Profile
    BY VersionProfile DEF StoreInv, StoreTypeOK
  <2>2. QED
    BY <1>1, <1>2, <2>1, BackedKept DEF StoreInv, CacheBacked, Upsert
<1>6. TrackedBacked'
  BY <1>1, <1>2, BackedKept DEF StoreInv, StoreTypeOK, TrackedBacked, Upsert
<1>7. QED
  BY <1>1, <1>2, <1>3, <1>4, <1>5, <1>6 DEF StoreInv

\* A step that writes to the table, and takes off the queue, only.
LEMMA StoreWrittenKeeps ==
  ASSUME StoreInv, StoreTypeOK', Keeps, UNCHANGED <<deployed, cache, dedup, bloom>>,
         queue' \subseteq queue,
         \A p \in Pointer : stored'[p] # NoVersion => stored'[p].profile \in deployed
  PROVE  StoreInv' /\ Keeps /\ CacheAdvances
<1>1. CacheAdvances
  BY VersionProfile DEF StoreInv, StoreTypeOK, CacheAdvances, AsNew
<1>2. StoreKnown'
  BY DEF StoreInv, StoreKnown
<1>3. CacheBacked'
  <2>1. \A p \in Pointer : cache[p] # NoVersion => cache[p].profile \in Profile
    BY VersionProfile DEF StoreInv, StoreTypeOK
  <2>2. QED
    BY <2>1, BackedKept DEF StoreInv, CacheBacked
<1>4. TrackedBacked'
  BY BackedKept DEF StoreInv, StoreTypeOK, TrackedBacked
<1>5. QED
  BY <1>1, <1>2, <1>3, <1>4 DEF StoreInv

\* Memory forgets.
LEMMA ForgettingKeeps ==
  ASSUME StoreInv, Evict \/ DedupExpires
  PROVE  StoreInv' /\ Keeps /\ CacheAdvances /\ queue' = queue
<1>1. StoreTypeOK'
  BY DEF StoreInv, StoreTypeOK, Evict, DedupExpires
<1>2. Keeps
  BY VersionProfile
  DEF StoreInv, StoreTypeOK, Keeps, TableAdvances, AsNew, Evict, DedupExpires
<1>3. \A p \in Pointer : cache'[p] \in {cache[p], NoVersion}
  BY DEF StoreInv, StoreTypeOK, Evict, DedupExpires
<1>4. CacheAdvances
  BY <1>3, VersionProfile DEF StoreInv, StoreTypeOK, CacheAdvances, AsNew
<1>5. StoreKnown'
  BY DEF StoreInv, StoreKnown, Evict, DedupExpires
<1>6. CacheBacked'
  <2>1. \A p \in Pointer : cache[p] # NoVersion => cache[p].profile \in Profile
    BY VersionProfile DEF StoreInv, StoreTypeOK
  <2>2. QED
    BY <1>1, <1>2, <1>3, <2>1, BackedKept DEF StoreInv, CacheBacked
<1>7. TrackedBacked'
  <2>1. dedup' \cup bloom' \subseteq dedup \cup bloom
    BY DEF Evict, DedupExpires
  <2>2. QED
    BY <1>1, <1>2, <2>1, BackedKept DEF StoreInv, StoreTypeOK, TrackedBacked
<1>8. QED
  BY <1>1, <1>2, <1>4, <1>5, <1>6, <1>7 DEF StoreInv, Evict, DedupExpires

-----------------------------------------------------------------------------
(* Sequences without repetitions                                             *)

Distinct(s) == \A i, j \in DOMAIN s : s[i] = s[j] => i = j

LEMMA Removed ==
  ASSUME NEW s \in Seq(Profile), Distinct(s), NEW k \in DOMAIN s
  PROVE  /\ RemoveAt(s, k) \in Seq(Profile)
         /\ Distinct(RemoveAt(s, k))
         /\ Range(RemoveAt(s, k)) = Range(s) \ {s[k]}
<1> DEFINE t == RemoveAt(s, k)
<1>1. /\ Len(s) \in Nat /\ DOMAIN s = 1 .. Len(s)
      /\ k \in 1 .. Len(s)
      /\ \A i \in 1 .. Len(s) : s[i] \in Profile
  BY LenProperties, ElementOfSeq
<1>2. /\ SubSeq(s, 1, k - 1) \in Seq(Profile)
      /\ Len(SubSeq(s, 1, k - 1)) = k - 1
      /\ \A i \in 1 .. k - 1 : SubSeq(s, 1, k - 1)[i] = s[i]
  BY <1>1, SubSeqProperties
<1>3. /\ SubSeq(s, k + 1, Len(s)) \in Seq(Profile)
      /\ Len(SubSeq(s, k + 1, Len(s))) = Len(s) - k
      /\ \A i \in 1 .. Len(s) - k : SubSeq(s, k + 1, Len(s))[i] = s[k + i]
  BY <1>1, SubSeqProperties
<1>4. /\ t \in Seq(Profile)
      /\ Len(t) = Len(s) - 1
      /\ \A i \in 1 .. Len(s) - 1 : t[i] = IF i < k THEN s[i] ELSE s[i + 1]
  <2> DEFINE a == SubSeq(s, 1, k - 1)
             b == SubSeq(s, k + 1, Len(s))
  <2>1. /\ a \o b \in Seq(Profile)
        /\ Len(a \o b) = Len(a) + Len(b)
        /\ \A i \in 1 .. Len(a) + Len(b) :
             (a \o b)[i] = IF i <= Len(a) THEN a[i] ELSE b[i - Len(a)]
    BY <1>2, <1>3, ConcatProperties
  <2>2. t = a \o b
    BY DEF RemoveAt
  <2>3. /\ Len(a) = k - 1 /\ \A i \in 1 .. k - 1 : a[i] = s[i]
        /\ Len(b) = Len(s) - k /\ \A i \in 1 .. Len(s) - k : b[i] = s[k + i]
    BY <1>2, <1>3
  <2> HIDE DEF t, a, b
  <2>4. Len(a) + Len(b) = Len(s) - 1
    BY <1>1, <2>3
  <2>5. ASSUME NEW i \in 1 .. Len(s) - 1
        PROVE  t[i] = IF i < k THEN s[i] ELSE s[i + 1]
    <3>1. t[i] = IF i <= k - 1 THEN a[i] ELSE b[i - (k - 1)]
      BY <2>1, <2>2, <2>3, <2>4
    <3>2. CASE i < k
      BY <3>1, <3>2, <2>3, <1>1
    <3>3. CASE i >= k
      <4> DEFINE m == i - (k - 1)
      <4>1. m \in 1 .. Len(s) - k /\ k + m = i + 1
        BY <3>3, <1>1
      <4>2. t[i] = b[m]
        BY <3>1, <3>3, <1>1
      <4> HIDE DEF m
      <4>3. b[m] = s[k + m]
        BY <4>1, <2>3
      <4>4. QED
        BY <3>3, <4>1, <4>2, <4>3, <1>1
    <3>4. QED
      BY <3>2, <3>3, <1>1
  <2>6. QED
    BY <2>1, <2>2, <2>4, <2>5
<1> HIDE DEF t
<1>5. DOMAIN t = 1 .. Len(s) - 1
  BY <1>4, LenProperties
<1>6. Distinct(t)
  <2>1. SUFFICES ASSUME NEW i \in 1 .. Len(s) - 1, NEW j \in 1 .. Len(s) - 1, t[i] = t[j]
                 PROVE  i = j
    BY <1>5 DEF Distinct
  <2>2. \A m, n \in 1 .. Len(s) : s[m] = s[n] => m = n
    BY <1>1 DEF Distinct
  <2> DEFINE from(m) == IF m < k THEN m ELSE m + 1
  <2>3. /\ t[i] = s[from(i)] /\ from(i) \in 1 .. Len(s)
        /\ t[j] = s[from(j)] /\ from(j) \in 1 .. Len(s)
    BY <1>1, <1>4
  <2>4. from(i) = from(j)
    BY <2>1, <2>2, <2>3
  <2>5. QED
    BY <2>4, <1>1
<1>7. Range(t) = Range(s) \ {s[k]}
  <2>1. ASSUME NEW x \in Range(t) PROVE x \in Range(s) \ {s[k]}
    BY <1>1, <1>4, <1>5 DEF Range, Distinct
  <2>2. ASSUME NEW i \in 1 .. Len(s), i # k PROVE s[i] \in Range(t)
    <3>1. CASE i < k
      BY <3>1, <1>1, <1>4, <1>5 DEF Range
    <3>2. CASE i > k
      <4>1. i - 1 \in DOMAIN t /\ t[i - 1] = s[i]
        BY <3>2, <1>1, <1>4, <1>5
      <4>2. QED
        BY <4>1 DEF Range
    <3>3. QED
      BY <2>2, <3>1, <3>2, <1>1
  <2>3. QED
    BY <1>1, <2>1, <2>2 DEF Range
<1>8. QED
  BY <1>4, <1>6, <1>7 DEF t

LEMMA Inserted ==
  ASSUME NEW s \in Seq(Profile), Distinct(s), NEW k \in 1 .. Len(s) + 1,
         NEW e \in Profile \ Range(s)
  PROVE  /\ InsertAt(s, k, e) \in Seq(Profile)
         /\ Distinct(InsertAt(s, k, e))
         /\ Range(InsertAt(s, k, e)) = Range(s) \cup {e}
<1> DEFINE t == InsertAt(s, k, e)
           u == SubSeq(s, 1, k - 1) \o <<e>>
<1>1. /\ Len(s) \in Nat /\ DOMAIN s = 1 .. Len(s)
      /\ \A i \in 1 .. Len(s) : s[i] \in Profile
  BY LenProperties, ElementOfSeq
<1>2. /\ SubSeq(s, 1, k - 1) \in Seq(Profile)
      /\ Len(SubSeq(s, 1, k - 1)) = k - 1
      /\ \A i \in 1 .. k - 1 : SubSeq(s, 1, k - 1)[i] = s[i]
  BY <1>1, SubSeqProperties
<1>3. /\ SubSeq(s, k, Len(s)) \in Seq(Profile)
      /\ Len(SubSeq(s, k, Len(s))) = Len(s) - k + 1
      /\ \A i \in 1 .. Len(s) - k + 1 : SubSeq(s, k, Len(s))[i] = s[k + i - 1]
  BY <1>1, SubSeqProperties
<1>4. <<e>> \in Seq(Profile) /\ Len(<<e>>) = 1 /\ <<e>>[1] = e
  OBVIOUS
<1>5. /\ u \in Seq(Profile)
      /\ Len(u) = k
      /\ \A i \in 1 .. k : u[i] = IF i < k THEN s[i] ELSE e
  BY <1>1, <1>2, <1>4, ConcatProperties
<1>6. /\ t \in Seq(Profile)
      /\ Len(t) = Len(s) + 1
      /\ \A i \in 1 .. Len(s) + 1 :
           t[i] = IF i < k THEN s[i] ELSE IF i = k THEN e ELSE s[i - 1]
  <2>1. /\ u \o SubSeq(s, k, Len(s)) \in Seq(Profile)
        /\ Len(u \o SubSeq(s, k, Len(s))) = Len(u) + Len(SubSeq(s, k, Len(s)))
        /\ \A i \in 1 .. Len(u) + Len(SubSeq(s, k, Len(s))) :
             (u \o SubSeq(s, k, Len(s)))[i] =
               IF i <= Len(u) THEN u[i] ELSE SubSeq(s, k, Len(s))[i - Len(u)]
    BY <1>3, <1>5, ConcatProperties
  <2>2. t = u \o SubSeq(s, k, Len(s))
    BY DEF InsertAt
  <2> HIDE DEF t, u
  <2>3. QED
    BY <1>1, <1>3, <1>5, <2>1, <2>2
<1> HIDE DEF t, u
<1>7. DOMAIN t = 1 .. Len(s) + 1
  BY <1>6, LenProperties
<1>8. \A i \in DOMAIN s : s[i] # e
  BY DEF Range
<1>9. Distinct(t)
  <2>1. SUFFICES ASSUME NEW i \in 1 .. Len(s) + 1, NEW j \in 1 .. Len(s) + 1, t[i] = t[j]
                 PROVE  i = j
    BY <1>7 DEF Distinct
  <2>2. \A m, n \in 1 .. Len(s) : s[m] = s[n] => m = n
    BY <1>1 DEF Distinct
  <2>3. ASSUME NEW m \in 1 .. Len(s) + 1, m # k PROVE t[m] # e
    <3>1. CASE m < k
      <4>1. m \in DOMAIN s /\ t[m] = s[m]
        BY <3>1, <1>1, <1>6
      <4>2. QED
        BY <4>1, <1>8
    <3>2. CASE m > k
      <4>1. m - 1 \in DOMAIN s /\ t[m] = s[m - 1]
        BY <3>2, <1>1, <1>6
      <4>2. QED
        BY <4>1, <1>8
    <3>3. QED
      BY <2>3, <3>1, <3>2, <1>1
  <2> DEFINE from(m) == IF m < k THEN m ELSE m - 1
  <2>4. ASSUME i # k, j # k PROVE i = j
    <3>1. /\ t[i] = s[from(i)] /\ from(i) \in 1 .. Len(s)
          /\ t[j] = s[from(j)] /\ from(j) \in 1 .. Len(s)
      BY <1>1, <1>6, <2>4
    <3>2. from(i) = from(j)
      BY <2>1, <2>2, <3>1
    <3>3. QED
      BY <2>4, <3>2, <1>1
  <2>5. t[k] = e
    BY <1>1, <1>6
  <2>6. QED
    BY <2>1, <2>3, <2>4, <2>5
<1>10. Range(t) = Range(s) \cup {e}
  <2>1. ASSUME NEW x \in Range(t) PROVE x \in Range(s) \cup {e}
    BY <1>1, <1>6, <1>7 DEF Range
  <2>2. ASSUME NEW i \in 1 .. Len(s) PROVE s[i] \in Range(t)
    <3>1. CASE i < k
      BY <3>1, <1>1, <1>6, <1>7 DEF Range
    <3>2. CASE i >= k
      <4>1. i + 1 \in DOMAIN t /\ t[i + 1] = s[i]
        BY <3>2, <1>1, <1>6, <1>7
      <4>2. QED
        BY <4>1 DEF Range
    <3>3. QED
      BY <3>1, <3>2, <1>1
  <2>3. k \in DOMAIN t /\ t[k] = e
    BY <1>1, <1>6, <1>7
  <2>4. QED
    BY <1>1, <2>1, <2>2, <2>3 DEF Range
<1>11. QED
  BY <1>6, <1>9, <1>10 DEF t

LEMMA Appended ==
  ASSUME NEW s \in Seq(Profile), Distinct(s), NEW e \in Profile \ Range(s)
  PROVE  /\ Append(s, e) \in Seq(Profile)
         /\ Distinct(Append(s, e))
         /\ Range(Append(s, e)) = Range(s) \cup {e}
<1> DEFINE t == Append(s, e)
<1>1. Len(s) \in Nat /\ DOMAIN s = 1 .. Len(s)
  BY LenProperties
<1>2. /\ t \in Seq(Profile)
      /\ Len(t) = Len(s) + 1
      /\ \A i \in 1 .. Len(s) : t[i] = s[i]
      /\ t[Len(s) + 1] = e
  BY AppendProperties
<1>3. DOMAIN t = 1 .. Len(s) + 1
  BY <1>2, LenProperties
<1> HIDE DEF t
<1>4. \A i \in DOMAIN s : s[i] # e
  BY DEF Range
<1>5. Distinct(t)
  BY <1>1, <1>2, <1>3, <1>4 DEF Distinct
<1>6. Range(t) = Range(s) \cup {e}
  BY <1>1, <1>2, <1>3 DEF Range
<1>7. QED
  BY <1>2, <1>5, <1>6 DEF t
-----------------------------------------------------------------------------
(* The inductive invariant                                                   *)

\* Nothing earlier than t can be deployed any more.
Closed(t) ==
  \A e \in Profile \ deployed :
    (\A d \in deployed : TimestampOf[d] <= TimestampOf[e]) => t <= TimestampOf[e]

\* What the loops hold was deployed.
SyncKnown ==
  /\ Range(failed) \subseteq deployed
  /\ sync.seen \cup sync.found \cup sync.missing \subseteq deployed
  /\ Range(retrier.batch) \cup retrier.found \cup retrier.missing \subseteq deployed

\* What the stream has given is accounted for, and so is what it has passed before.
StreamInv ==
  /\ NothingSkipped
  /\ Closed(sync.cursor) /\ Closed(sync.last)
  /\ \A e \in sync.seen : Accounted(e)

\* The snapshots that were ever processed are closed and accounted for.
ProcessedInv ==
  \A s \in processed :
    /\ Closed(EndOf[s])
    /\ \A e \in Streamed(s, 0) : Accounted(e)

InSnapshots == sync.pc \in {"snapshots", "missing", "flush"}

SnapshotsInv ==
  /\ ~InSnapshots => sync.todo = {}
  /\ sync.pc # "missing" => sync.missing = {} /\ sync.found = {}
  /\ \A s \in sync.todo : Closed(EndOf[s])
  /\ InSnapshots =>
       /\ \A e \in deployed : TimestampOf[e] < sync.last => Accounted(e)
       /\ \A e \in deployed :
            sync.last <= TimestampOf[e] =>
              \A s \in sync.todo : TimestampOf[e] < EndOf[s] =>
                \/ Accounted(e)
                \/ \E t \in sync.todo : InitOf[t] <= TimestampOf[e] /\ TimestampOf[e] < EndOf[t]
  /\ sync.pc \in {"missing", "flush"} =>
       \A s \in sync.todo :
         (\A t \in sync.todo : InitOf[s] <= InitOf[t]) =>
           \A e \in Streamed(s, sync.last) :
             Accounted(e) \/ e \in sync.missing \cup sync.found

RetrierInv == \A e \in retrier.doing : Backed(e)

SyncInv ==
  /\ SyncTypeOK /\ StoreInv /\ SyncKnown /\ StreamInv
  /\ ProcessedInv /\ SnapshotsInv /\ RetrierInv

\* What every step does besides: who reads the table and the cache relies on it.
GoodStep ==
  /\ SyncInv'
  /\ Keeps /\ CacheAdvances
  /\ deployed \subseteq deployed'
  /\ \A q \in queue' \ queue : q.by # "validator"

-----------------------------------------------------------------------------
(* The table of failed fetches                                               *)

RowsOK == failed \in Seq(Profile) /\ Distinct(failed)

LEMMA FailingRows ==
  ASSUME RowsOK, NEW e \in Profile, failed' = Failing(e)
  PROVE  RowsOK' /\ Range(failed)' = Range(failed) \cup {e}
<1>1. CASE e \in Range(failed)
  <2>1. failed' = failed /\ Range(failed)' = Range(failed)
    BY <1>1 DEF Failing
  <2>2. QED
    BY <2>1, <1>1 DEF RowsOK, Distinct
<1>2. CASE e \notin Range(failed)
  <2>1. failed' = Append(failed, e)
    BY <1>2 DEF Failing
  <2>2. QED
    BY <1>2, <2>1, Appended DEF RowsOK
<1>3. QED
  BY <1>1, <1>2

LEMMA RefailingRows ==
  ASSUME RowsOK, NEW e \in Profile, Refailing(e)
  PROVE  RowsOK' /\ Range(failed)' = Range(failed) \cup {e}
<1>1. CASE e \in Range(failed)
  <2>1. failed' = failed /\ Range(failed)' = Range(failed)
    BY <1>1 DEF Refailing
  <2>2. QED
    BY <2>1, <1>1 DEF RowsOK, Distinct
<1>2. CASE e \notin Range(failed)
  <2>1. PICK k \in 1 .. Len(failed) + 1 : failed' = InsertAt(failed, k, e)
    BY <1>2 DEF Refailing
  <2>2. QED
    BY <1>2, <2>1, Inserted DEF RowsOK
<1>3. QED
  BY <1>1, <1>2

LEMMA DeletingRows ==
  ASSUME RowsOK, NEW e \in Profile, Deleting(e)
  PROVE  /\ RowsOK'
         /\ Range(failed)' \subseteq Range(failed)
         /\ Range(failed) \ {e} \subseteq Range(failed)'
<1>1. CASE e \notin Range(failed) \ MixedCaseId
  <2>1. failed' = failed /\ Range(failed)' = Range(failed)
    BY <1>1 DEF Deleting
  <2>2. QED
    BY <2>1 DEF RowsOK, Distinct
<1>2. CASE e \in Range(failed) \ MixedCaseId
  <2>1. PICK k \in DOMAIN failed : failed[k] = e /\ failed' = RemoveAt(failed, k)
    BY <1>2 DEF Deleting
  <2>2. QED
    BY <2>1, Removed DEF RowsOK
<1>3. QED
  BY <1>1, <1>2

-----------------------------------------------------------------------------
(* What a step keeps                                                         *)

AccountedKept == \A e \in Profile : Accounted(e) => Accounted(e)'

LEMMA AccountedStays ==
  ASSUME StoreInv, StoreInv', Keeps,
         \A e \in Range(failed) : e \in Range(failed') \/ Backed(e)'
  PROVE  AccountedKept
  BY BackedKept DEF AccountedKept, Accounted, StoreInv

LEMMA ClosedStays ==
  ASSUME deployed \subseteq deployed', NEW t, Closed(t)
  PROVE  Closed(t)'
  BY DEF Closed

LEMMA TypeParts ==
  SyncTypeOK <=> /\ StoreTypeOK /\ RowsOK /\ processed \subseteq Snapshot
                 /\ sync \in SyncState /\ retrier \in RetrierState
  BY DEF SyncTypeOK, RowsOK, Distinct

LEMMA ProcessedStays ==
  ASSUME ProcessedInv, AccountedKept, StoreTypeOK, UNCHANGED <<deployed, processed>>
  PROVE  ProcessedInv'
<1>1. SUFFICES ASSUME NEW s \in processed
               PROVE  Closed(EndOf[s])' /\ \A e \in Streamed(s, 0)' : Accounted(e)'
  BY DEF ProcessedInv
<1>2. Closed(EndOf[s]) /\ \A e \in Streamed(s, 0) : Accounted(e)
  BY <1>1 DEF ProcessedInv
<1>3. Streamed(s, 0)' = Streamed(s, 0) /\ Streamed(s, 0) \subseteq Profile
  BY DEF Streamed, StoreTypeOK
<1>4. QED
  BY <1>2, <1>3, ClosedStays DEF AccountedKept

\* Nothing is asked of the loops while they are not in a snapshot.
LEMMA OutsideSnapshots ==
  ASSUME ~InSnapshots', sync'.todo = {}, sync'.missing = {}, sync'.found = {}
  PROVE  SnapshotsInv'
  BY DEF SnapshotsInv, InSnapshots

\* A step of the pointer changes loop is good if it is for the loop itself.
LEMMA FollowAssembly ==
  ASSUME SyncInv, StoreInv', Keeps, CacheAdvances,
         UNCHANGED <<deployed, processed, retrier>>,
         RowsOK', Range(failed)' \subseteq deployed, AccountedKept,
         sync' \in SyncState, ~InSnapshots',
         sync'.todo = {}, sync'.missing = {}, sync'.found = {},
         sync'.seen \subseteq deployed, StreamInv',
         \A q \in queue' \ queue : q.by # "validator"
  PROVE  GoodStep
<1>1. SyncTypeOK'
  BY TypeParts DEF SyncInv, StoreInv, SyncTypeOK, RowsOK, Distinct
<1>2. SyncKnown'
  BY DEF SyncInv, SyncKnown
<1>3. ProcessedInv' /\ SnapshotsInv'
  BY OutsideSnapshots, ProcessedStays DEF SyncInv, StoreInv
<1>4. RetrierInv'
  BY BackedKept DEF SyncInv, RetrierInv, SyncTypeOK, RetrierState, StoreInv
<1>5. QED
  BY <1>1, <1>2, <1>3, <1>4 DEF SyncInv, GoodStep

-----------------------------------------------------------------------------
(* The pointer changes loop                                                  *)

\* A step of the loop that leaves the table and the memory alone.
LEMMA FollowQuiet ==
  ASSUME SyncInv, UNCHANGED <<deployed, stored, cache, dedup, bloom, queue>>,
         lost \subseteq lost', lost' \subseteq Profile, faults' \in 0..MaxFaults,
         RowsOK', Range(failed) \subseteq Range(failed)'
  PROVE  StoreInv' /\ Keeps /\ CacheAdvances /\ AccountedKept
<1>1. StoreInv' /\ Keeps /\ CacheAdvances
  BY NothingWritten DEF SyncInv, StoreInv, StoreTypeOK
<1>2. AccountedKept
  BY <1>1, AccountedStays DEF SyncInv
<1>3. QED
  BY <1>1, <1>2

\* What the loop has passed stays accounted for while its cursor does not move.
LEMMA StreamStays ==
  ASSUME SyncInv, AccountedKept, UNCHANGED deployed,
         sync'.cursor = sync.cursor, Closed(sync'.last),
         \A e \in sync'.seen : Accounted(e)'
  PROVE  StreamInv'
<1>1. NothingSkipped'
  BY DEF SyncInv, SyncTypeOK, StoreTypeOK, StreamInv, NothingSkipped, AccountedKept
<1>2. Closed(sync.cursor)' /\ Closed(sync.last)'
  BY DEF Closed, SyncInv, StreamInv
<1>3. QED
  BY <1>1, <1>2 DEF StreamInv

LEMMA ClosedStart == Closed(0)
  BY ProfileAssumption DEF Closed

LEMMA ClosedAt ==
  ASSUME NEW e \in deployed
  PROVE  Closed(TimestampOf[e])
  BY DEF Closed

LEMMA SyncParts ==
  ASSUME SyncInv
  PROVE  /\ StoreInv /\ StoreTypeOK /\ RowsOK /\ Range(failed) \subseteq deployed
         /\ deployed \subseteq Profile /\ faults \in 0..MaxFaults /\ lost \subseteq Profile
         /\ sync \in SyncState /\ sync.seen \subseteq deployed
         /\ Closed(sync.cursor) /\ Closed(sync.last)
         /\ \A e \in sync.seen : Accounted(e)
         /\ ~InSnapshots => sync.todo = {} /\ sync.missing = {} /\ sync.found = {}
  BY TypeParts
  DEF SyncInv, StoreInv, StoreTypeOK, SyncKnown, StreamInv, SnapshotsInv, InSnapshots

LEMMA FailureType ==
  ASSUME faults \in 0..MaxFaults, Failure \/ UNCHANGED faults
  PROVE  faults' \in 0..MaxFaults
  BY ProfileAssumption DEF Failure

LEMMA PollStep ==
  ASSUME SyncInv, Poll \/ StreamStored
  PROVE  GoodStep
<1>1. sync.pc \in {"wait", "store"} /\ ~InSnapshots
  BY DEF Poll, StreamStored, InSnapshots
<1>2. /\ sync' \in SyncState /\ ~InSnapshots'
      /\ sync'.todo = {} /\ sync'.missing = {} /\ sync'.found = {}
      /\ sync'.seen \subseteq sync.seen /\ sync'.cursor = sync.cursor
      /\ sync'.last \in {0, sync.last}
  <2>1. CASE Poll
    BY <1>1, <2>1, SyncParts DEF Poll, SyncState, InSnapshots
  <2>2. CASE StreamStored
    BY <1>1, <2>2, SyncParts DEF StreamStored, SyncState, InSnapshots
  <2>3. QED
    BY <2>1, <2>2
<1>3. UNCHANGED <<storeVars, failed, processed, retrier>>
  BY DEF Poll, StreamStored
<1>4. StoreInv' /\ Keeps /\ CacheAdvances /\ AccountedKept /\ RowsOK'
  BY <1>3, SyncParts, FollowQuiet DEF storeVars, RowsOK, Distinct
<1>5. StreamInv'
  BY <1>2, <1>3, <1>4, SyncParts, StreamStays, ClosedStart DEF storeVars, AccountedKept
<1>6. QED
  BY <1>2, <1>3, <1>4, <1>5, SyncParts, FollowAssembly DEF storeVars

LEMMA StreamFailsStep ==
  ASSUME SyncInv, StreamFails
  PROVE  GoodStep
<1>1. ~InSnapshots
  BY DEF StreamFails, InSnapshots
<1>2. /\ sync' \in SyncState /\ ~InSnapshots'
      /\ sync'.todo = {} /\ sync'.missing = {} /\ sync'.found = {}
      /\ sync'.seen = {} /\ sync'.cursor = sync.cursor
      /\ sync'.last = 0
  BY <1>1, SyncParts DEF StreamFails, SyncState, InSnapshots
<1>3. UNCHANGED <<deployed, stored, cache, dedup, bloom, queue, lost, failed, processed, retrier>>
      /\ faults' \in 0..MaxFaults
  BY SyncParts, FailureType DEF StreamFails
<1>4. StoreInv' /\ Keeps /\ CacheAdvances /\ AccountedKept /\ RowsOK'
  BY <1>3, SyncParts, FollowQuiet DEF RowsOK, Distinct
<1>5. StreamInv'
  BY <1>2, <1>3, <1>4, SyncParts, StreamStays, ClosedStart
<1>6. QED
  BY <1>2, <1>3, <1>4, <1>5, SyncParts, FollowAssembly

\* The cursor moves: what it passes has been seen, or was passed before.
LEMMA StreamEndsStep ==
  ASSUME SyncInv, StreamEnds
  PROVE  GoodStep
<1>1. ~InSnapshots
  BY DEF StreamEnds, InSnapshots
<1>2. /\ sync' \in SyncState /\ ~InSnapshots'
      /\ sync'.todo = {} /\ sync'.missing = {} /\ sync'.found = {}
      /\ sync'.seen = {} /\ sync'.cursor \in {sync.cursor, sync.last}
      /\ sync'.last = 0
  BY <1>1, SyncParts DEF StreamEnds, SyncState, InSnapshots, Later
<1>3. UNCHANGED <<storeVars, failed, processed, retrier>>
  BY DEF StreamEnds
<1>4. StoreInv' /\ Keeps /\ CacheAdvances /\ AccountedKept /\ RowsOK'
  BY <1>3, SyncParts, FollowQuiet DEF storeVars, RowsOK, Distinct
<1>5. StreamInv'
  <2>1. NothingSkipped'
    <3>1. SUFFICES ASSUME NEW e \in deployed PROVE Accounted(e)'
      BY <1>3 DEF NothingSkipped, storeVars
    <3>2. CASE TimestampOf[e] < sync.cursor
      BY <1>4, <3>2, SyncParts DEF SyncInv, StreamInv, NothingSkipped, AccountedKept
    <3>3. CASE ~(TimestampOf[e] < sync.cursor)
      <4>1. TimestampOf[e] \in Nat /\ sync.cursor \in Nat
        BY SyncParts, ProfileAssumption DEF SyncState
      <4>2. e \in sync.seen
        BY <3>3, <4>1 DEF StreamEnds, Unseen
      <4>3. QED
        BY <1>4, <4>2, SyncParts DEF AccountedKept
    <3>4. QED
      BY <3>2, <3>3
  <2>2. Closed(sync.cursor)' /\ Closed(sync.last)'
    BY <1>2, <1>3, SyncParts, ClosedStart DEF Closed, storeVars
  <2>3. QED
    BY <1>2, <2>1, <2>2 DEF StreamInv
<1>6. QED
  BY <1>2, <1>3, <1>4, <1>5, SyncParts, FollowAssembly DEF storeVars

\* A streamed deployment that is not persisted: it has to be accounted for.
LEMMA PassingStep ==
  ASSUME SyncInv, NEW e \in Profile, NextStreamed(e),
         UNCHANGED <<deployed, stored, cache, dedup, bloom, queue, processed, retrier>>,
         lost \subseteq lost', lost' \subseteq Profile, faults' \in 0..MaxFaults,
         RowsOK', Range(failed) \subseteq Range(failed)',
         Range(failed)' \subseteq deployed,
         sync' = Seen(e) \/ sync' = [Seen(e) EXCEPT !.last = TimestampOf[e]],
         Accounted(e)'
  PROVE  GoodStep
<1>1. ~InSnapshots /\ e \in deployed
  BY DEF NextStreamed, InSnapshots, Unseen
<1>2. /\ sync' \in SyncState /\ ~InSnapshots'
      /\ sync'.todo = {} /\ sync'.missing = {} /\ sync'.found = {}
      /\ sync'.seen = sync.seen \cup {e} /\ sync'.cursor = sync.cursor
      /\ sync'.last \in {sync.last, TimestampOf[e]}
  <2>1. sync.pc = "stream" /\ TimestampOf[e] \in Nat
    BY ProfileAssumption DEF NextStreamed
  <2>2. CASE sync' = Seen(e)
    BY <1>1, <2>1, <2>2, SyncParts DEF Seen, SyncState, InSnapshots
  <2>3. CASE sync' = [Seen(e) EXCEPT !.last = TimestampOf[e]]
    BY <1>1, <2>1, <2>3, SyncParts DEF Seen, SyncState, InSnapshots
  <2>4. QED
    BY <2>2, <2>3
<1>3. StoreInv' /\ Keeps /\ CacheAdvances /\ AccountedKept
  BY FollowQuiet
<1>4. StreamInv'
  BY <1>1, <1>2, <1>3, SyncParts, StreamStays, ClosedAt DEF AccountedKept
<1>5. QED
  BY <1>1, <1>2, <1>3, <1>4, SyncParts, FollowAssembly

LEMMA StreamStep ==
  ASSUME SyncInv, NEW e \in Profile,
         \/ SkipProcessed(e) \/ SkipMalicious(e) \/ StreamMissing(e)
         \/ StreamRejected(e) \/ StreamFound(e)
  PROVE  GoodStep
<1>0. NextStreamed(e) /\ e \in deployed
  BY DEF SkipProcessed, SkipMalicious, StreamMissing, StreamRejected, StreamFound,
         Fetched, NextStreamed, Unseen
<1>1. CASE SkipProcessed(e)
  <2>1. RowsOK' /\ Range(failed)' = Range(failed)
    BY <1>1, SyncParts DEF SkipProcessed, RowsOK, Distinct
  <2>2. lost \subseteq lost' /\ lost' \subseteq Profile /\ faults' \in 0..MaxFaults
    BY <1>1, SyncParts, FailureType DEF SkipProcessed
  <2>3. StoreInv' /\ Keeps
    BY <1>1, <2>1, <2>2, FollowQuiet DEF SkipProcessed
  <2>4. Backed(e)'
    <3>1. CASE e \in dedup \cup bloom
      BY <2>3, <3>1, BackedKept DEF SyncInv, StoreInv, TrackedBacked
    <3>2. CASE e \in lost'
      BY <3>2, ProfileAssumption DEF Backed, Covers
    <3>3. QED
      BY <1>1, <3>1, <3>2 DEF SkipProcessed
  <2>5. QED
    BY <1>0, <1>1, <2>1, <2>2, <2>4, SyncParts, PassingStep DEF SkipProcessed, Accounted
<1>2. CASE SkipMalicious(e)
  <2>1. RowsOK' /\ Range(failed)' = Range(failed)
    BY <1>2, SyncParts DEF SkipMalicious, RowsOK, Distinct
  <2>2. QED
    BY <1>0, <1>2, <2>1, SyncParts, PassingStep DEF SkipMalicious, Accounted, storeVars
<1>3. CASE StreamMissing(e)
  <2>1. RowsOK' /\ Range(failed)' = Range(failed) \cup {e}
    BY <1>3, SyncParts, FailingRows DEF StreamMissing
  <2>2. faults' \in 0..MaxFaults
    BY <1>3, SyncParts, FailureType DEF StreamMissing, MissesOnly
  <2>3. QED
    BY <1>0, <1>3, <2>1, <2>2, SyncParts, PassingStep DEF StreamMissing, Accounted
<1>4. CASE StreamRejected(e)
  <2>1. RowsOK' /\ Range(failed)' = Range(failed)
    BY <1>4, SyncParts DEF StreamRejected, RowsOK, Distinct
  <2>2. QED
    BY <1>0, <1>4, <2>1, SyncParts, PassingStep DEF StreamRejected, Accounted, storeVars
<1>5. CASE StreamFound(e)
  <2>1. ~InSnapshots
    BY <1>0 DEF NextStreamed, InSnapshots
  <2>2. /\ sync' \in SyncState /\ ~InSnapshots'
        /\ sync'.todo = {} /\ sync'.missing = {} /\ sync'.found = {}
        /\ sync'.seen = sync.seen \cup {e} /\ sync'.cursor = sync.cursor
        /\ sync'.last = TimestampOf[e]
    BY <1>5, <2>1, SyncParts, ProfileAssumption DEF StreamFound, Seen, SyncState, InSnapshots
  <2>3. RowsOK' /\ Range(failed)' = Range(failed)
    BY <1>5, SyncParts DEF StreamFound, RowsOK, Distinct
  <2>4. AsDeployed(e) \in Version /\ AsDeployed(e).profile = e /\ "sync" \in Persister
    BY SyncAssumption DEF AsDeployed, Version
  <2>5. /\ StoreInv' /\ Keeps /\ CacheAdvances /\ Backed(e)'
        /\ \A q \in queue' \ queue : q.by = "sync"
    BY <1>0, <1>5, <2>4, SyncParts, PersistKeeps DEF StreamFound
  <2>6. AccountedKept
    BY <2>3, <2>5, SyncParts, AccountedStays
  <2>7. StreamInv'
    BY <1>0, <1>5, <2>2, <2>5, <2>6, SyncParts, StreamStays, ClosedAt
    DEF AccountedKept, StreamFound, Accounted
  <2>8. QED
    BY <1>5, <2>2, <2>3, <2>5, <2>6, <2>7, <1>0, SyncParts, FollowAssembly DEF StreamFound
<1>6. QED
  BY <1>1, <1>2, <1>3, <1>4, <1>5

LEMMA FollowStep ==
  ASSUME SyncInv, FollowChanges
  PROVE  GoodStep
  BY PollStep, StreamEndsStep, StreamFailsStep, StreamStep DEF FollowChanges

-----------------------------------------------------------------------------
(* The steps of others                                                       *)

\* A newly deployed profile is after everything that is closed.
LEMMA NewAfterClosed ==
  ASSUME NEW e \in Profile \ deployed, \A d \in deployed : TimestampOf[d] <= TimestampOf[e],
         NEW t, Closed(t)
  PROVE  t <= TimestampOf[e]
  BY DEF Closed

LEMMA LoopUntouched ==
  ASSUME SyncInv, AccountedKept, UNCHANGED <<sync, processed>>,
         deployed \subseteq deployed', deployed' \subseteq Profile,
         \A e \in deployed' \ deployed : \A d \in deployed : TimestampOf[d] <= TimestampOf[e]
  PROVE  StreamInv' /\ ProcessedInv' /\ SnapshotsInv'
<1>1. /\ processed \subseteq Snapshot /\ sync.todo \subseteq Snapshot
      /\ sync.cursor \in Nat /\ sync.last \in Nat
      /\ \A s \in Snapshot : InitOf[s] \in Nat /\ EndOf[s] \in Nat
      /\ \A e \in Profile : TimestampOf[e] \in Nat
  BY SyncAssumption, ProfileAssumption DEF SyncInv, SyncTypeOK, SyncState
<1>2. ASSUME NEW e \in deployed' \ deployed, NEW t, Closed(t)
      PROVE  t <= TimestampOf[e]
  BY <1>2, NewAfterClosed
<1>3. StreamInv'
  <2>1. NothingSkipped'
    <3>1. SUFFICES ASSUME NEW e \in deployed', TimestampOf[e] < sync.cursor
                   PROVE  Accounted(e)'
      BY DEF NothingSkipped
    <3>2. e \in deployed
      BY <1>1, <1>2, <3>1, SyncParts
    <3>3. QED
      BY <3>1, <3>2, SyncParts DEF SyncInv, StreamInv, NothingSkipped, AccountedKept
  <2>2. Closed(sync.cursor)' /\ Closed(sync.last)'
    BY SyncParts DEF Closed
  <2>3. \A e \in sync'.seen : Accounted(e)'
    BY SyncParts DEF AccountedKept
  <2>4. QED
    BY <2>1, <2>2, <2>3 DEF StreamInv
<1>4. ASSUME NEW s \in Snapshot, Closed(EndOf[s]), NEW t
      PROVE  Streamed(s, t)' = Streamed(s, t)
  <2>1. \A e \in deployed' \ deployed : ~(TimestampOf[e] < EndOf[s])
    BY <1>1, <1>2, <1>4
  <2>2. QED
    BY <2>1 DEF Streamed
<1>5. ProcessedInv'
  <2>1. SUFFICES ASSUME NEW s \in processed
                 PROVE  Closed(EndOf[s])' /\ \A e \in Streamed(s, 0)' : Accounted(e)'
    BY DEF ProcessedInv
  <2>2. Closed(EndOf[s]) /\ \A e \in Streamed(s, 0) : Accounted(e)
    BY <2>1 DEF SyncInv, ProcessedInv
  <2>3. Streamed(s, 0)' = Streamed(s, 0) /\ Streamed(s, 0) \subseteq Profile
    BY <1>1, <1>4, <2>2, SyncParts DEF Streamed
  <2>4. Closed(EndOf[s])'
    BY <2>2, ClosedStays
  <2>5. QED
    BY <2>2, <2>3, <2>4 DEF AccountedKept
<1>6. SnapshotsInv'
  <2>1. /\ ~InSnapshots' => sync'.todo = {}
        /\ sync'.pc # "missing" => sync'.missing = {} /\ sync'.found = {}
    BY DEF SyncInv, SnapshotsInv, InSnapshots
  <2>2. \A s \in sync.todo : Closed(EndOf[s]) /\ Closed(EndOf[s])'
    BY ClosedStays DEF SyncInv, SnapshotsInv
  <2>3. ASSUME InSnapshots, NEW e \in deployed', TimestampOf[e] < sync.last
        PROVE  Accounted(e)'
    <3>1. e \in deployed
      BY <1>1, <1>2, <2>3, SyncParts
    <3>2. QED
      BY <2>3, <3>1, SyncParts DEF SyncInv, SnapshotsInv, AccountedKept
  <2>4. ASSUME InSnapshots, NEW e \in deployed', sync.last <= TimestampOf[e],
               NEW s \in sync.todo, TimestampOf[e] < EndOf[s]
        PROVE  \/ Accounted(e)'
               \/ \E t \in sync.todo : InitOf[t] <= TimestampOf[e] /\ TimestampOf[e] < EndOf[t]
    <3>1. e \in deployed
      BY <1>1, <1>2, <2>2, <2>4
    <3>2. QED
      BY <2>4, <3>1, SyncParts DEF SyncInv, SnapshotsInv, AccountedKept
  <2>5. ASSUME sync.pc \in {"missing", "flush"}, NEW s \in sync.todo,
               \A t \in sync.todo : InitOf[s] <= InitOf[t],
               NEW e \in Streamed(s, sync.last)'
        PROVE  Accounted(e)' \/ e \in sync.missing \cup sync.found
    <3>1. e \in Streamed(s, sync.last) /\ e \in Profile
      BY <1>1, <1>4, <2>2, <2>5, SyncParts DEF Streamed
    <3>2. Accounted(e) \/ e \in sync.missing \cup sync.found
      BY <2>5, <3>1 DEF SyncInv, SnapshotsInv
    <3>3. QED
      BY <3>1, <3>2 DEF AccountedKept
  <2>6. InSnapshots' = InSnapshots
    BY DEF InSnapshots
  <2>7. QED
    BY <2>1, <2>2, <2>3, <2>4, <2>5, <2>6 DEF SnapshotsInv
<1>7. QED
  BY <1>3, <1>5, <1>6

\* Deploying, evicting and forgetting.
LEMMA WorldStep ==
  ASSUME SyncInv, World
  PROVE  GoodStep
<1>1. UNCHANGED syncVars /\ (Deploy \/ Evict \/ DedupExpires)
  BY DEF World
<1>2. /\ deployed \subseteq deployed' /\ deployed' \subseteq Profile
      /\ \A e \in deployed' \ deployed : \A d \in deployed : TimestampOf[d] <= TimestampOf[e]
  BY <1>1, SyncParts DEF Deploy, Evict, DedupExpires
<1>3. StoreInv' /\ Keeps /\ CacheAdvances /\ queue' = queue
  <2>1. CASE Deploy
    BY <1>2, <2>1, SyncParts, NothingWritten DEF Deploy
  <2>2. CASE Evict \/ DedupExpires
    BY <2>2, SyncParts, ForgettingKeeps
  <2>3. QED
    BY <1>1, <2>1, <2>2
<1>4. AccountedKept
  BY <1>1, <1>3, SyncParts, AccountedStays DEF syncVars
<1>5. StreamInv' /\ ProcessedInv' /\ SnapshotsInv'
  BY <1>1, <1>2, <1>4, LoopUntouched DEF syncVars
<1>6. SyncTypeOK'
  BY <1>1, <1>3 DEF SyncInv, SyncTypeOK, StoreInv, syncVars
<1>7. SyncKnown'
  BY <1>1, <1>2 DEF SyncInv, SyncKnown, syncVars
<1>8. RetrierInv'
  BY <1>1, <1>3, BackedKept
  DEF SyncInv, RetrierInv, SyncTypeOK, RetrierState, StoreInv, syncVars
<1>9. QED
  BY <1>2, <1>3, <1>5, <1>6, <1>7, <1>8 DEF SyncInv, GoodStep

\* A step of whoever writes profiles and is none of the loops.
LEMMA StoreOnlyStep ==
  ASSUME SyncInv, StoreInv', Keeps, UNCHANGED <<deployed, syncVars>>
  PROVE  SyncInv'
<1>1. AccountedKept
  BY SyncParts, AccountedStays DEF syncVars
<1>2. StreamInv' /\ ProcessedInv' /\ SnapshotsInv'
  BY <1>1, SyncParts, LoopUntouched DEF syncVars
<1>3. SyncTypeOK'
  BY DEF SyncInv, SyncTypeOK, StoreInv, syncVars
<1>4. SyncKnown'
  BY DEF SyncInv, SyncKnown, syncVars
<1>5. RetrierInv'
  BY BackedKept DEF SyncInv, RetrierInv, SyncTypeOK, RetrierState, StoreInv, syncVars
<1>6. QED
  BY <1>2, <1>3, <1>4, <1>5 DEF SyncInv

LEMMA DrainStep ==
  ASSUME SyncInv, NEW w \in Persister, Drain(w)
  PROVE  GoodStep
<1>1. PICK q \in queue : Upsert(q)
  BY DEF Drain, Waiting
<1>2. UNCHANGED <<deployed, syncVars>> /\ queue' \subseteq queue
  BY <1>1 DEF Drain, Upsert
<1>3. StoreInv' /\ Keeps /\ CacheAdvances
  BY <1>1, SyncParts, UpsertKeeps
<1>4. QED
  BY <1>2, <1>3, StoreOnlyStep DEF GoodStep

-----------------------------------------------------------------------------
(* The failed profiles retrier                                               *)

LEMMA RetryAssembly ==
  ASSUME SyncInv, StoreInv', Keeps, CacheAdvances,
         UNCHANGED <<deployed, processed, sync>>,
         RowsOK', Range(failed)' \subseteq deployed,
         \A e \in Range(failed) : e \in Range(failed)' \/ Backed(e)',
         retrier' \in RetrierState,
         Range(retrier'.batch) \cup retrier'.found \cup retrier'.missing \subseteq deployed,
         \A e \in retrier'.doing : Backed(e)',
         \A q \in queue' \ queue : q.by # "validator"
  PROVE  GoodStep
<1>1. AccountedKept
  BY SyncParts, AccountedStays
<1>2. StreamInv' /\ ProcessedInv' /\ SnapshotsInv'
  BY <1>1, SyncParts, LoopUntouched
<1>3. SyncTypeOK'
  BY DEF SyncInv, StoreInv, SyncTypeOK, RowsOK, Distinct
<1>4. SyncKnown' /\ RetrierInv'
  BY DEF SyncInv, SyncKnown, RetrierInv
<1>5. QED
  BY <1>2, <1>3, <1>4 DEF SyncInv, GoodStep

\* A step of the retrier that leaves the table and the memory alone.
LEMMA RetryQuiet ==
  ASSUME SyncInv, UNCHANGED <<deployed, stored, cache, dedup, bloom, queue, lost>>,
         Failure \/ UNCHANGED faults
  PROVE  StoreInv' /\ Keeps /\ CacheAdvances
  BY SyncParts, FailureType, NothingWritten

LEMMA RetrierParts ==
  ASSUME SyncInv
  PROVE  /\ retrier \in RetrierState
         /\ retrier.batch \in Seq(Profile) /\ retrier.at \in Nat \ {0}
         /\ Range(retrier.batch) \subseteq deployed
         /\ retrier.found \subseteq deployed /\ retrier.missing \subseteq deployed
         /\ \A e \in retrier.doing : Backed(e) /\ e \in Profile
  BY DEF SyncInv, SyncTypeOK, RetrierState, SyncKnown, RetrierInv

LEMMA RestingType ==
  /\ Resting \in RetrierState
  /\ Range(Resting.batch) = {}
  /\ Resting.found = {} /\ Resting.missing = {} /\ Resting.doing = {}
<1>1. <<>> \in Seq(Profile) /\ DOMAIN <<>> = {}
  OBVIOUS
<1>2. QED
  BY <1>1 DEF Resting, RetrierState, Range

LEMMA RetryRestStep ==
  ASSUME SyncInv, RetryNothing \/ RetryDone \/ RetryFails
  PROVE  GoodStep
<1>1. /\ UNCHANGED <<deployed, stored, cache, dedup, bloom, queue, lost, failed, processed, sync>>
      /\ Failure \/ UNCHANGED faults
      /\ retrier' = Resting
  BY DEF RetryNothing, RetryDone, RetryFails, storeVars
<1>2. StoreInv' /\ Keeps /\ CacheAdvances
  BY <1>1, RetryQuiet
<1>3. RowsOK' /\ Range(failed)' = Range(failed)
  BY <1>1, SyncParts DEF RowsOK, Distinct
<1>4. QED
  BY <1>1, <1>2, <1>3, SyncParts, RestingType, RetryAssembly

LEMMA RetryReadStep ==
  ASSUME SyncInv, RetryRead
  PROVE  GoodStep
<1>1. PICK n \in 0 .. Len(failed) :
        retrier' = [Resting EXCEPT !.pc = "check", !.batch = SubSeq(failed, 1, n)]
  <2> DEFINE n == IF Len(failed) < RetryLimit THEN Len(failed) ELSE RetryLimit
  <2>1. Len(failed) \in Nat /\ RetryLimit \in Nat
    BY SyncParts, LenProperties, SyncAssumption DEF RowsOK
  <2>2. n \in 0 .. Len(failed)
    BY <2>1
  <2>3. retrier' = [Resting EXCEPT !.pc = "check", !.batch = SubSeq(failed, 1, n)]
    BY DEF RetryRead
  <2> HIDE DEF n
  <2>4. QED
    BY <2>2, <2>3
<1>2. SubSeq(failed, 1, n) \in Seq(Profile) /\ Range(SubSeq(failed, 1, n)) \subseteq Range(failed)
  <2> DEFINE b == SubSeq(failed, 1, n)
  <2>1. /\ failed \in Seq(Profile) /\ Len(failed) \in Nat /\ DOMAIN failed = 1 .. Len(failed)
        /\ \A i \in 1 .. Len(failed) : failed[i] \in Profile
    BY SyncParts, LenProperties, ElementOfSeq DEF RowsOK
  <2>2. b \in Seq(Profile) /\ Len(b) = n /\ \A i \in 1 .. n : b[i] = failed[i]
    BY <2>1, SubSeqProperties
  <2>3. DOMAIN b = 1 .. n
    BY <2>2, LenProperties
  <2> HIDE DEF b
  <2>4. Range(b) \subseteq Range(failed)
    BY <2>1, <2>2, <2>3 DEF Range
  <2>5. QED
    BY <2>2, <2>4 DEF b
<1>3. /\ retrier' \in RetrierState /\ retrier'.batch = SubSeq(failed, 1, n)
      /\ retrier'.found = {} /\ retrier'.missing = {} /\ retrier'.doing = {}
  BY <1>1, <1>2, RestingType DEF Resting, RetrierState
<1>4. UNCHANGED <<storeVars, failed, processed, sync>>
  BY DEF RetryRead
<1>5. StoreInv' /\ Keeps /\ CacheAdvances
  BY <1>4, RetryQuiet DEF storeVars
<1>6. RowsOK' /\ Range(failed)' = Range(failed)
  BY <1>4, SyncParts DEF RowsOK, Distinct
<1>7. QED
  BY <1>2, <1>3, <1>4, <1>5, <1>6, SyncParts, RetryAssembly DEF storeVars

\* A row is dropped because its pointer has something newer.
LEMMA RetryCheckStep ==
  ASSUME SyncInv, RetryCheck
  PROVE  GoodStep
<1>1. PICK e \in Profile : e = retrier.batch[retrier.at] /\ e \in Range(retrier.batch)
  <2>1. retrier.at \in 1 .. Len(retrier.batch) /\ DOMAIN retrier.batch = 1 .. Len(retrier.batch)
    BY RetrierParts, LenProperties DEF RetryCheck
  <2>2. QED
    BY <2>1, RetrierParts, ElementOfSeq DEF Range
<1>2. /\ retrier' \in RetrierState /\ retrier'.batch = retrier.batch
      /\ retrier'.found = retrier.found /\ retrier'.missing = retrier.missing
      /\ retrier'.doing = retrier.doing
  <2>1. \/ retrier' = [retrier EXCEPT !.at = @ + 1]
        \/ retrier' = [retrier EXCEPT !.at = @ + 1, !.kept = @ \cup {e}]
    BY <1>1 DEF RetryCheck
  <2>2. CASE retrier' = [retrier EXCEPT !.at = @ + 1]
    BY <2>2, RetrierParts DEF RetrierState
  <2>3. CASE retrier' = [retrier EXCEPT !.at = @ + 1, !.kept = @ \cup {e}]
    <3>1. retrier.kept \cup {e} \in SUBSET Profile /\ retrier.at + 1 \in Nat \ {0}
      BY RetrierParts DEF RetrierState
    <3>2. QED
      BY <2>3, <3>1, RetrierParts DEF RetrierState
  <2>4. QED
    BY <2>1, <2>2, <2>3
<1>3. UNCHANGED <<storeVars, processed, sync>>
  BY DEF RetryCheck
<1>4. StoreInv' /\ Keeps /\ CacheAdvances
  BY <1>3, RetryQuiet DEF storeVars
<1>5. /\ RowsOK' /\ Range(failed)' \subseteq Range(failed)
      /\ \A f \in Range(failed) : f \in Range(failed)' \/ Backed(f)'
  <2>1. CASE Superseded(e)
    <3>1. Deleting(e)
      BY <1>1, <2>1 DEF RetryCheck
    <3>2. Backed(e)
      <4>1. stored[PointerOf[e]] \in Version
        BY <1>1, <2>1, SyncParts, ProfileAssumption DEF Superseded, StoreTypeOK
      <4>2. QED
        BY <1>1, <2>1, <4>1, VersionProfile, ProfileAssumption DEF Superseded, Backed, AsNew
    <3>3. Backed(e)'
      BY <1>1, <1>4, <3>2, SyncParts, BackedKept DEF StoreInv
    <3>4. QED
      BY <1>1, <3>1, <3>3, SyncParts, DeletingRows
  <2>2. CASE ~Superseded(e)
    <3>1. UNCHANGED failed
      BY <1>1, <2>2 DEF RetryCheck
    <3>2. QED
      BY <3>1, SyncParts DEF RowsOK, Distinct
  <2>3. QED
    BY <2>1, <2>2
<1>6. \A f \in retrier'.doing : Backed(f)'
  BY <1>2, <1>4, SyncParts, RetrierParts, BackedKept DEF StoreInv
<1>7. QED
  BY <1>2, <1>3, <1>4, <1>5, <1>6, SyncParts, RetrierParts, RetryAssembly DEF storeVars

LEMMA RetryFetchStep ==
  ASSUME SyncInv, RetryFetch
  PROVE  GoodStep
<1>1. PICK M \in NotAnswered(Asked) :
        /\ MissesOnly(Asked, M)
        /\ retrier' = [retrier EXCEPT !.pc = "persist", !.kept = {}, !.missing = M,
                                      !.found = Asked \ (M \cup Rejected)]
  BY DEF RetryFetch
<1>2. M \subseteq Asked /\ Asked \subseteq deployed /\ Asked \subseteq Profile
  BY SyncParts, RetrierParts DEF NotAnswered, Asked
<1>3. /\ retrier' \in RetrierState /\ retrier'.batch = retrier.batch
      /\ retrier'.found \subseteq deployed /\ retrier'.missing \subseteq deployed
      /\ retrier'.doing = retrier.doing
  BY <1>1, <1>2, RetrierParts DEF RetrierState
<1>4. /\ UNCHANGED <<deployed, stored, cache, dedup, bloom, queue, lost, failed, processed, sync>>
      /\ Failure \/ UNCHANGED faults
  BY <1>1 DEF RetryFetch, MissesOnly
<1>5. StoreInv' /\ Keeps /\ CacheAdvances
  BY <1>4, RetryQuiet
<1>6. RowsOK' /\ Range(failed)' = Range(failed)
  BY <1>4, SyncParts DEF RowsOK, Distinct
<1>7. \A f \in retrier'.doing : Backed(f)'
  BY <1>3, <1>5, SyncParts, RetrierParts, BackedKept DEF StoreInv
<1>8. QED
  BY <1>3, <1>4, <1>5, <1>6, <1>7, SyncParts, RetrierParts, RetryAssembly

LEMMA RetryMissingStep ==
  ASSUME SyncInv, NEW e \in Profile, RetryMissing(e)
  PROVE  GoodStep
<1>1. /\ retrier' \in RetrierState /\ retrier'.batch = retrier.batch
      /\ retrier'.found = retrier.found /\ retrier'.missing \subseteq retrier.missing
      /\ retrier'.doing = retrier.doing
  BY RetrierParts DEF RetryMissing, RetrierState
<1>2. UNCHANGED <<storeVars, processed, sync>> /\ e \in retrier.missing
  BY DEF RetryMissing
<1>3. StoreInv' /\ Keeps /\ CacheAdvances
  BY <1>2, RetryQuiet DEF storeVars
<1>4. RowsOK' /\ Range(failed)' = Range(failed) \cup {e}
  BY SyncParts, RefailingRows DEF RetryMissing
<1>5. \A f \in retrier'.doing : Backed(f)'
  BY <1>1, <1>3, SyncParts, RetrierParts, BackedKept DEF StoreInv
<1>6. QED
  BY <1>1, <1>2, <1>3, <1>4, <1>5, SyncParts, RetrierParts, RetryAssembly DEF storeVars

LEMMA RetryPersistStep ==
  ASSUME SyncInv, NEW e \in Profile, RetryPersist(e)
  PROVE  GoodStep
<1>1. e \in retrier.found /\ e \in deployed
  BY RetrierParts DEF RetryPersist
<1>2. /\ retrier' \in RetrierState /\ retrier'.batch = retrier.batch
      /\ retrier'.found \subseteq retrier.found /\ retrier'.missing = retrier.missing
      /\ retrier'.doing = {e}
  BY RetrierParts DEF RetryPersist, RetrierState
<1>3. UNCHANGED <<deployed, stored, lost, faults, failed, processed, sync>>
  BY DEF RetryPersist
<1>4. AsDeployed(e) \in Version /\ AsDeployed(e).profile = e /\ "retrier" \in Persister
  BY SyncAssumption DEF AsDeployed, Version
<1>5. /\ StoreInv' /\ Keeps /\ CacheAdvances /\ Backed(e)'
      /\ \A q \in queue' \ queue : q.by = "retrier"
  BY <1>1, <1>3, <1>4, SyncParts, PersistKeeps DEF RetryPersist
<1>6. RowsOK' /\ Range(failed)' = Range(failed)
  BY <1>3, SyncParts DEF RowsOK, Distinct
<1>7. QED
  BY <1>1, <1>2, <1>3, <1>5, <1>6, SyncParts, RetrierParts, RetryAssembly

\* The row goes: the profile has been persisted.
LEMMA RetryDeleteStep ==
  ASSUME SyncInv, NEW e \in Profile, RetryDelete(e)
  PROVE  GoodStep
<1>1. /\ retrier' \in RetrierState /\ retrier'.batch = retrier.batch
      /\ retrier'.found = retrier.found /\ retrier'.missing = retrier.missing
      /\ retrier'.doing = {}
  BY RetrierParts DEF RetryDelete, RetrierState
<1>2. UNCHANGED <<storeVars, processed, sync>> /\ e \in retrier.doing
  BY DEF RetryDelete
<1>3. StoreInv' /\ Keeps /\ CacheAdvances
  BY <1>2, RetryQuiet DEF storeVars
<1>4. Backed(e)'
  BY <1>2, <1>3, SyncParts, RetrierParts, BackedKept DEF StoreInv
<1>5. /\ RowsOK' /\ Range(failed)' \subseteq Range(failed)
      /\ \A f \in Range(failed) : f \in Range(failed)' \/ Backed(f)'
  BY <1>4, SyncParts, DeletingRows DEF RetryDelete
<1>6. QED
  BY <1>1, <1>2, <1>3, <1>5, SyncParts, RetrierParts, RetryAssembly DEF storeVars

LEMMA RetryStep ==
  ASSUME SyncInv, Retry
  PROVE  GoodStep
  BY RetryRestStep, RetryReadStep, RetryCheckStep, RetryFetchStep, RetryMissingStep,
     RetryPersistStep, RetryDeleteStep DEF Retry

-----------------------------------------------------------------------------
(* The start of the synchronizer                                             *)

LEMMA StartAssembly ==
  ASSUME SyncInv, StoreInv', Keeps, CacheAdvances,
         UNCHANGED <<deployed, retrier>>,
         RowsOK', Range(failed)' \subseteq deployed,
         processed' \subseteq Snapshot, sync' \in SyncState,
         sync'.seen \cup sync'.found \cup sync'.missing \subseteq deployed,
         StreamInv', ProcessedInv', SnapshotsInv',
         \A q \in queue' \ queue : q.by # "validator"
  PROVE  GoodStep
<1>1. SyncTypeOK'
  BY DEF SyncInv, StoreInv, SyncTypeOK, RowsOK, Distinct
<1>2. SyncKnown'
  BY DEF SyncInv, SyncKnown
<1>3. RetrierInv'
  BY BackedKept DEF SyncInv, RetrierInv, SyncTypeOK, RetrierState, StoreInv
<1>4. QED
  BY <1>1, <1>2, <1>3 DEF SyncInv, GoodStep

LEMMA LatestCursor ==
  ASSUME SyncInv, NEW c \in {Genesis} \cup Latest
  PROVE  c \in Nat /\ Closed(c)
<1>1. CASE c = 0
  BY <1>1, ClosedStart
<1>2. CASE c # 0
  <2>1. PICK p \in Pointer : stored[p] # NoVersion /\ c = TimestampOf[stored[p].profile]
    BY <1>2 DEF Latest, Genesis
  <2>2. stored[p].profile \in deployed
    BY <2>1 DEF SyncInv, StoreInv, StoreKnown
  <2>3. QED
    BY <2>1, <2>2, SyncParts, ClosedAt, ProfileAssumption
<1>3. QED
  BY <1>1, <1>2

\* What the cursor passes when it is loaded is accounted for or lost.
LEMMA LoadStep ==
  ASSUME SyncInv, LoadLastCursor
  PROVE  GoodStep
<1>1. PICK c \in {Genesis} \cup Latest, pc \in {"start", "wait"} :
        /\ sync' = [sync EXCEPT !.pc = pc, !.cursor = c]
        /\ lost' = lost \cup {e \in deployed : TimestampOf[e] < c /\ ~Accounted(e)}
        /\ UNCHANGED faults \/ Failure
  BY DEF LoadLastCursor
<1>2. c \in Nat /\ Closed(c)
  BY LatestCursor
<1>3. /\ ~InSnapshots /\ sync' \in SyncState /\ ~InSnapshots'
      /\ sync'.todo = {} /\ sync'.missing = {} /\ sync'.found = {}
      /\ sync'.seen = sync.seen /\ sync'.cursor = c /\ sync'.last = sync.last
  BY <1>1, <1>2, SyncParts DEF LoadLastCursor, SyncState, InSnapshots
<1>4. UNCHANGED <<deployed, stored, cache, dedup, bloom, queue, failed, processed, retrier>>
  BY DEF LoadLastCursor
<1>5. RowsOK' /\ Range(failed)' = Range(failed)
  BY <1>4, SyncParts DEF RowsOK, Distinct
<1>6. lost \subseteq lost' /\ lost' \subseteq Profile /\ faults' \in 0..MaxFaults
  BY <1>1, SyncParts, FailureType
<1>7. StoreInv' /\ Keeps /\ CacheAdvances /\ AccountedKept
  BY <1>4, <1>5, <1>6, FollowQuiet
<1>8. StreamInv'
  <2>1. NothingSkipped'
    <3>1. SUFFICES ASSUME NEW e \in deployed, TimestampOf[e] < c PROVE Accounted(e)'
      BY <1>3, <1>4 DEF NothingSkipped
    <3>2. CASE Accounted(e)
      BY <1>7, <3>2, SyncParts DEF AccountedKept
    <3>3. CASE ~Accounted(e)
      <4>1. e \in lost' /\ e \in Profile
        BY <1>1, <3>1, <3>3, SyncParts
      <4>2. QED
        BY <4>1, ProfileAssumption DEF Accounted, Backed, Covers
    <3>4. QED
      BY <3>2, <3>3
  <2>2. Closed(sync.cursor)' /\ Closed(sync.last)'
    BY <1>2, <1>3, <1>4, SyncParts DEF Closed
  <2>3. \A e \in sync'.seen : Accounted(e)'
    BY <1>3, <1>7, SyncParts DEF AccountedKept
  <2>4. QED
    BY <2>1, <2>2, <2>3 DEF StreamInv
<1>9. ProcessedInv' /\ SnapshotsInv'
  BY <1>3, <1>4, <1>7, SyncParts, ProcessedStays, OutsideSnapshots DEF SyncInv
<1>10. QED
  BY <1>3, <1>4, <1>5, <1>7, <1>8, <1>9, SyncParts, StartAssembly DEF SyncInv, SyncTypeOK

\* What lies in none of the snapshots, and before the end of one, is passed over.
LEMMA FetchSnapshotsStep ==
  ASSUME SyncInv, FetchSnapshotsToProcess
  PROVE  GoodStep
<1> DEFINE S == Offered(sync.cursor)
<1>1. /\ sync' = [sync EXCEPT !.pc = IF S = {} THEN "wait" ELSE "snapshots",
                              !.todo = S, !.last = 0]
      /\ lost' = lost \cup {e \in PassedOver(sync.cursor, S) : ~Accounted(e)}
      /\ UNCHANGED <<deployed, stored, cache, dedup, bloom, queue, faults, failed, processed, retrier>>
      /\ sync.pc = "start"
  BY DEF FetchSnapshotsToProcess
<1>2. S \subseteq Snapshot /\ PassedOver(sync.cursor, S) \subseteq Profile
  BY SyncParts DEF Offered, PassedOver
<1>3. /\ ~InSnapshots /\ sync' \in SyncState
      /\ sync'.pc = (IF S = {} THEN "wait" ELSE "snapshots")
      /\ sync'.todo = S /\ sync'.missing = {} /\ sync'.found = {}
      /\ sync'.seen = sync.seen /\ sync'.cursor = sync.cursor /\ sync'.last = 0
  BY <1>1, <1>2, SyncParts DEF SyncState, InSnapshots
<1>4. RowsOK' /\ Range(failed)' = Range(failed)
  BY <1>1, SyncParts DEF RowsOK, Distinct
<1>5. lost \subseteq lost' /\ lost' \subseteq Profile /\ faults' \in 0..MaxFaults
  BY <1>1, <1>2, SyncParts
<1>6. StoreInv' /\ Keeps /\ CacheAdvances /\ AccountedKept
  BY <1>1, <1>4, <1>5, FollowQuiet
<1>7. StreamInv'
  BY <1>1, <1>3, <1>6, SyncParts, StreamStays, ClosedStart DEF AccountedKept
<1>8. ProcessedInv'
  BY <1>1, <1>6, SyncParts, ProcessedStays DEF SyncInv
<1> HIDE DEF S
<1>9. SnapshotsInv'
  <2>1. ASSUME NEW s \in S PROVE Closed(EndOf[s])'
    BY <1>1, <2>1, SyncAssumption, ProfileAssumption DEF S, Offered, Closed
  <2>2. ASSUME NEW e \in deployed, NEW s \in S, TimestampOf[e] < EndOf[s]
        PROVE  \/ Accounted(e)'
               \/ \E t \in S : InitOf[t] <= TimestampOf[e] /\ TimestampOf[e] < EndOf[t]
    <3>1. TimestampOf[e] \in Nat /\ sync.cursor \in Nat /\ e \in Profile
      BY SyncParts, ProfileAssumption DEF SyncState
    <3>2. CASE TimestampOf[e] < sync.cursor
      BY <3>1, <3>2, <1>6 DEF SyncInv, StreamInv, NothingSkipped, AccountedKept
    <3>3. CASE e \in PassedOver(sync.cursor, S)
      <4>1. Accounted(e) \/ e \in lost'
        BY <1>1, <3>3
      <4>2. QED
        BY <3>1, <4>1, <1>6, ProfileAssumption DEF AccountedKept, Accounted, Backed, Covers
    <3>4. CASE sync.cursor <= TimestampOf[e] /\ e \notin PassedOver(sync.cursor, S)
      BY <2>2, <3>1, <3>4 DEF PassedOver, Streamed
    <3>5. QED
      BY <3>1, <3>2, <3>3, <3>4
  <2>3. \A e \in deployed : ~(TimestampOf[e] < 0)
    BY SyncParts, ProfileAssumption
  <2>4. InSnapshots' <=> S # {}
    BY <1>3 DEF InSnapshots
  <2>5. QED
    BY <1>1, <1>3, <2>1, <2>2, <2>3, <2>4 DEF SnapshotsInv
<1>10. QED
  BY <1>1, <1>3, <1>4, <1>6, <1>7, <1>8, <1>9, SyncParts, StartAssembly DEF SyncInv, SyncTypeOK

\* Once what is streamed from the first snapshot is accounted for, the next follows.
LEMMA SnapshotSettled ==
  ASSUME SyncInv, InSnapshots, AccountedKept, UNCHANGED deployed,
         NEW s \in sync.todo, \A t \in sync.todo : InitOf[s] <= InitOf[t],
         \A e \in Streamed(s, sync.last) : Accounted(e),
         sync'.pc = "snapshots", sync'.todo = sync.todo \ {s},
         sync'.last = Later(sync.last, EndOf[s]), sync'.missing = {}, sync'.found = {}
  PROVE  SnapshotsInv' /\ Closed(sync'.last)
<1>1. /\ sync.todo \subseteq Snapshot /\ sync.last \in Nat
      /\ \A t \in Snapshot : InitOf[t] \in Nat /\ EndOf[t] \in Nat
      /\ \A e \in deployed : TimestampOf[e] \in Nat /\ e \in Profile
  BY SyncParts, SyncAssumption, ProfileAssumption DEF SyncState
<1>2. \A t \in sync.todo : Closed(EndOf[t]) /\ Closed(EndOf[t])'
  BY ClosedStays DEF SyncInv, SnapshotsInv
<1>3. ASSUME NEW e \in deployed, TimestampOf[e] < sync.last
      PROVE  Accounted(e)
  BY <1>3 DEF SyncInv, SnapshotsInv
<1>4. ASSUME NEW e \in deployed, sync.last <= TimestampOf[e],
             NEW t \in sync.todo, TimestampOf[e] < EndOf[t]
      PROVE  \/ Accounted(e)
             \/ \E u \in sync.todo : InitOf[u] <= TimestampOf[e] /\ TimestampOf[e] < EndOf[u]
  BY <1>4 DEF SyncInv, SnapshotsInv
<1>5. ASSUME NEW e \in deployed, TimestampOf[e] < EndOf[s], sync.last <= TimestampOf[e]
      PROVE  Accounted(e)
  <2>1. CASE Accounted(e)
    BY <2>1
  <2>2. ASSUME NEW u \in sync.todo, InitOf[u] <= TimestampOf[e] PROVE Accounted(e)
    <3>1. InitOf[s] <= TimestampOf[e]
      BY <1>1, <2>2
    <3>2. QED
      BY <1>5, <3>1 DEF Streamed
  <2>3. QED
    BY <1>4, <1>5, <2>1, <2>2
<1>6. ASSUME NEW e \in deployed, TimestampOf[e] < Later(sync.last, EndOf[s])
      PROVE  Accounted(e)'
  <2>1. TimestampOf[e] < sync.last \/ (sync.last <= TimestampOf[e] /\ TimestampOf[e] < EndOf[s])
    BY <1>1, <1>6 DEF Later
  <2>2. QED
    BY <1>1, <1>3, <1>5, <2>1 DEF AccountedKept
<1>7. ASSUME NEW e \in deployed, Later(sync.last, EndOf[s]) <= TimestampOf[e],
             NEW t \in sync.todo \ {s}, TimestampOf[e] < EndOf[t]
      PROVE  \/ Accounted(e)'
             \/ \E u \in sync.todo \ {s} : InitOf[u] <= TimestampOf[e] /\ TimestampOf[e] < EndOf[u]
  <2>1. sync.last <= TimestampOf[e] /\ ~(TimestampOf[e] < EndOf[s])
    BY <1>1, <1>7 DEF Later
  <2>2. QED
    BY <1>1, <1>4, <1>7, <2>1 DEF AccountedKept
<1>8. Closed(sync'.last)
  BY <1>2, SyncParts DEF Later
<1>9. SnapshotsInv'
  BY <1>2, <1>6, <1>7 DEF SnapshotsInv, InSnapshots
<1>10. QED
  BY <1>8, <1>9

\* A snapshot that was processed before.
LEMMA SkipSnapshotStep ==
  ASSUME SyncInv, NEW s \in Snapshot, SkipSnapshot(s)
  PROVE  GoodStep
<1>1. /\ InSnapshots /\ s \in sync.todo /\ s \in processed
      /\ \A t \in sync.todo : InitOf[s] <= InitOf[t]
      /\ UNCHANGED <<storeVars, failed, processed, retrier>>
      /\ sync.missing = {} /\ sync.found = {}
  BY DEF SkipSnapshot, NextSnapshot, InSnapshots, SyncInv, SnapshotsInv
<1>2. EndOf[s] \in Nat
  BY SyncAssumption
<1>3. /\ sync' \in SyncState /\ sync'.pc = "snapshots" /\ sync'.todo = sync.todo \ {s}
      /\ sync'.last = Later(sync.last, EndOf[s])
      /\ sync'.missing = {} /\ sync'.found = {}
      /\ sync'.seen = sync.seen /\ sync'.cursor = sync.cursor
  BY <1>1, <1>2, SyncParts DEF SkipSnapshot, NextSnapshot, SyncState, Later
<1>4. RowsOK' /\ Range(failed)' = Range(failed)
  BY <1>1, SyncParts DEF RowsOK, Distinct
<1>5. StoreInv' /\ Keeps /\ CacheAdvances /\ AccountedKept
  BY <1>1, <1>4, SyncParts, FollowQuiet DEF storeVars
<1>6. \A e \in Streamed(s, sync.last) : Accounted(e)
  BY <1>1, SyncParts, ProfileAssumption DEF SyncInv, ProcessedInv, Streamed
<1>7. SnapshotsInv' /\ Closed(sync'.last)
  BY <1>1, <1>3, <1>5, <1>6, SnapshotSettled DEF storeVars
<1>8. StreamInv' /\ ProcessedInv'
  BY <1>1, <1>3, <1>5, <1>7, SyncParts, StreamStays, ProcessedStays
  DEF AccountedKept, storeVars, SyncInv
<1>9. QED
  BY <1>1, <1>3, <1>4, <1>5, <1>7, <1>8, SyncParts, StartAssembly
  DEF SyncInv, SyncTypeOK, storeVars

LEMMA FetchSnapshotStep ==
  ASSUME SyncInv, NEW s \in Snapshot, FetchSnapshot(s)
  PROVE  GoodStep
<1> DEFINE asked == Streamed(s, sync.last)
<1>1. PICK M \in NotAnswered(asked) :
        /\ MissesOnly(asked, M)
        /\ sync' = [sync EXCEPT !.pc = "missing", !.missing = M,
                                !.found = asked \ (M \cup Rejected)]
  BY DEF FetchSnapshot
<1>2. /\ InSnapshots /\ s \in sync.todo /\ sync.pc = "snapshots"
      /\ \A t \in sync.todo : InitOf[s] <= InitOf[t]
      /\ UNCHANGED <<deployed, stored, cache, dedup, bloom, queue, lost, failed, processed, retrier>>
      /\ faults' \in 0..MaxFaults
  BY <1>1, SyncParts, FailureType DEF FetchSnapshot, NextSnapshot, InSnapshots, MissesOnly
<1>3. asked \subseteq deployed /\ M \subseteq asked /\ asked \subseteq Profile
  BY SyncParts DEF Streamed, NotAnswered
<1> HIDE DEF asked
<1>4. /\ sync' \in SyncState /\ sync'.pc = "missing" /\ sync'.todo = sync.todo
      /\ sync'.last = sync.last
      /\ sync'.missing = M /\ sync'.found = asked \ (M \cup Rejected)
      /\ sync'.seen = sync.seen /\ sync'.cursor = sync.cursor
  BY <1>1, <1>3, SyncParts DEF SyncState
<1>5. RowsOK' /\ Range(failed)' = Range(failed)
  BY <1>2, SyncParts DEF RowsOK, Distinct
<1>6. StoreInv' /\ Keeps /\ CacheAdvances /\ AccountedKept
  BY <1>2, <1>5, SyncParts, FollowQuiet
<1>7. SnapshotsInv'
  <2>1. ASSUME NEW t \in sync.todo, \A u \in sync.todo : InitOf[t] <= InitOf[u]
        PROVE  t = s
    <3>1. InitOf[t] = InitOf[s] /\ t \in Snapshot
      BY <1>2, <2>1, SyncParts, SyncAssumption DEF SyncState
    <3>2. QED
      BY <3>1, SyncAssumption
  <2>2. ASSUME NEW e \in Streamed(s, sync.last)'
        PROVE  Accounted(e)' \/ e \in M \/ e \in asked \ (M \cup Rejected)
    <3>1. e \in asked /\ e \in Profile
      BY <1>2, <1>3, <1>4 DEF Streamed, asked
    <3>2. QED
      BY <3>1 DEF Accounted
  <2>3. \A t \in sync.todo : Closed(EndOf[t])'
    BY <1>2, ClosedStays DEF SyncInv, SnapshotsInv
  <2>4. /\ \A e \in deployed : TimestampOf[e] < sync.last => Accounted(e)'
        /\ \A e \in deployed :
             sync.last <= TimestampOf[e] =>
               \A t \in sync.todo : TimestampOf[e] < EndOf[t] =>
                 \/ Accounted(e)'
                 \/ \E u \in sync.todo : InitOf[u] <= TimestampOf[e] /\ TimestampOf[e] < EndOf[u]
    BY <1>2, <1>6, SyncParts DEF SyncInv, SnapshotsInv, AccountedKept
  <2>5. QED
    BY <1>2, <1>4, <2>1, <2>2, <2>3, <2>4 DEF SnapshotsInv, InSnapshots
<1>8. StreamInv' /\ ProcessedInv'
  BY <1>2, <1>4, <1>6, SyncParts, StreamStays, ProcessedStays DEF AccountedKept, SyncInv
<1>9. QED
  BY <1>2, <1>3, <1>4, <1>5, <1>6, <1>7, <1>8, SyncParts, StartAssembly DEF SyncInv, SyncTypeOK

\* What the snapshot in hand has left gets smaller, and what leaves is accounted for.
LEMMA SnapshotShrinks ==
  ASSUME SyncInv, AccountedKept, UNCHANGED deployed,
         sync.pc = "missing", sync'.pc \in {"missing", "flush"},
         sync'.todo = sync.todo, sync'.last = sync.last,
         sync'.pc = "flush" => sync'.missing = {} /\ sync'.found = {},
         \A e \in sync.missing \cup sync.found :
           e \in sync'.missing \cup sync'.found \/ Accounted(e)'
  PROVE  SnapshotsInv'
<1>1. \A s \in sync.todo : Closed(EndOf[s])'
  BY ClosedStays DEF SyncInv, SnapshotsInv
<1>2. /\ \A e \in deployed : TimestampOf[e] < sync.last => Accounted(e)'
      /\ \A e \in deployed :
           sync.last <= TimestampOf[e] =>
             \A t \in sync.todo : TimestampOf[e] < EndOf[t] =>
               \/ Accounted(e)'
               \/ \E u \in sync.todo : InitOf[u] <= TimestampOf[e] /\ TimestampOf[e] < EndOf[u]
  BY SyncParts DEF SyncInv, SnapshotsInv, AccountedKept, InSnapshots
<1>3. ASSUME NEW s \in sync.todo, \A t \in sync.todo : InitOf[s] <= InitOf[t],
             NEW e \in Streamed(s, sync.last)'
      PROVE  Accounted(e)' \/ e \in sync'.missing \cup sync'.found
  <2>1. e \in Streamed(s, sync.last) /\ e \in Profile
    BY SyncParts DEF Streamed
  <2>2. Accounted(e) \/ e \in sync.missing \cup sync.found
    BY <1>3, <2>1 DEF SyncInv, SnapshotsInv
  <2>3. QED
    BY <2>1, <2>2 DEF AccountedKept
<1>4. QED
  BY <1>1, <1>2, <1>3 DEF SnapshotsInv, InSnapshots

LEMMA RecordMissingStep ==
  ASSUME SyncInv, NEW e \in Profile, RecordMissing(e)
  PROVE  GoodStep
<1>1. /\ sync.pc = "missing" /\ e \in sync.missing /\ e \in deployed
      /\ UNCHANGED <<storeVars, processed, retrier>>
  BY DEF RecordMissing, SyncInv, SyncKnown
<1>2. /\ sync' \in SyncState /\ sync'.pc = "missing" /\ sync'.todo = sync.todo
      /\ sync'.last = sync.last
      /\ sync'.missing = sync.missing \ {e} /\ sync'.found = sync.found
      /\ sync'.seen = sync.seen /\ sync'.cursor = sync.cursor
  BY <1>1, SyncParts DEF RecordMissing, SyncState
<1>3. RowsOK' /\ Range(failed)' = Range(failed) \cup {e}
  BY SyncParts, FailingRows DEF RecordMissing
<1>4. StoreInv' /\ Keeps /\ CacheAdvances /\ AccountedKept
  BY <1>1, <1>3, SyncParts, FollowQuiet DEF storeVars
<1>5. SnapshotsInv'
  <2>1. Accounted(e)'
    BY <1>3 DEF Accounted
  <2>2. QED
    BY <1>1, <1>2, <1>4, <2>1, SnapshotShrinks DEF storeVars
<1>6. StreamInv' /\ ProcessedInv'
  BY <1>1, <1>2, <1>4, SyncParts, StreamStays, ProcessedStays
  DEF AccountedKept, storeVars, SyncInv
<1>7. QED
  BY <1>1, <1>2, <1>3, <1>4, <1>5, <1>6, SyncParts, StartAssembly
  DEF SyncInv, SyncTypeOK, SyncKnown, storeVars

\* Persisting everything at once backs everything.
LEMMA PersistFoundKeeps ==
  ASSUME SyncInv, PersistFound
  PROVE  /\ StoreInv' /\ Keeps /\ CacheAdvances
         /\ \A e \in sync.found : Backed(e)'
         /\ \A q \in queue' \ queue : q.by = "sync"
<1> DEFINE new == {e \in sync.found : Caches(AsDeployed(e))}
<1>1. PICK W \in SUBSET new, N \in SUBSET new :
        /\ N \subseteq W
        /\ \A e \in new : \E f \in N : Covers(f, e)
        /\ cache' = [p \in Pointer |->
                       IF \E e \in N : PointerOf[e] = p
                       THEN AsDeployed(CHOOSE e \in N : PointerOf[e] = p)
                       ELSE cache[p]]
        /\ bloom' = bloom \cup W
        /\ queue' = queue \cup {[by |-> "sync", version |-> AsDeployed(e)] : e \in W}
  BY DEF PersistFound
<1>2. /\ dedup' = dedup \cup sync.found
      /\ UNCHANGED <<deployed, stored, lost, faults>>
  BY DEF PersistFound
<1>3. /\ sync.found \subseteq deployed /\ sync.found \subseteq Profile
      /\ W \subseteq sync.found /\ N \subseteq W
      /\ "sync" \in Persister
  BY <1>1, SyncParts, SyncAssumption DEF SyncInv, SyncKnown
<1>4. \A e \in Profile :
        AsDeployed(e) \in Version /\ AsDeployed(e).profile = e /\ AsDeployed(e) # NoVersion
  <2>1. \A e \in Profile : AsDeployed(e) \in Version /\ AsDeployed(e).profile = e
    BY DEF AsDeployed, Version
  <2>2. QED
    BY <2>1, NoVersionAssumption
<1>5. ASSUME NEW p \in Pointer
      PROVE  \/ cache'[p] = cache[p]
             \/ \E e \in N : PointerOf[e] = p /\ cache'[p] = AsDeployed(e)
  <2>1. CASE \E e \in N : PointerOf[e] = p
    <3> DEFINE c == CHOOSE e \in N : PointerOf[e] = p
    <3>1. c \in N /\ PointerOf[c] = p
      BY <2>1
    <3>2. cache'[p] = AsDeployed(c)
      BY <1>1, <2>1
    <3>3. QED
      BY <3>1, <3>2
  <2>2. CASE ~\E e \in N : PointerOf[e] = p
    BY <1>1, <2>2
  <2>3. QED
    BY <2>1, <2>2
<1>6. StoreTypeOK'
  <2>1. cache' \in [Pointer -> Version \cup {NoVersion}]
    <3>1. \A p \in Pointer : cache'[p] \in Version \cup {NoVersion}
      BY <1>3, <1>4, <1>5, SyncParts DEF StoreTypeOK
    <3>2. QED
      BY <1>1, <3>1
  <2>2. \A p \in Pointer : cache'[p] # NoVersion => PointerOf[cache'[p].profile] = p
    BY <1>3, <1>4, <1>5, SyncParts DEF StoreTypeOK
  <2>3. queue' \subseteq [by : Persister, version : Version]
    BY <1>1, <1>3, <1>4, SyncParts DEF StoreTypeOK
  <2>4. dedup' \subseteq Profile /\ bloom' \subseteq Profile
    BY <1>1, <1>2, <1>3, SyncParts DEF StoreTypeOK
  <2>5. QED
    BY <1>2, <2>1, <2>2, <2>3, <2>4, SyncParts DEF StoreTypeOK
<1>7. Keeps
  <2>1. queue \subseteq queue'
    BY <1>1
  <2>2. QED
    BY <1>2, <2>1, SyncParts, VersionProfile DEF StoreTypeOK, Keeps, TableAdvances, AsNew
<1>8. CacheAdvances
  <2>1. SUFFICES ASSUME NEW p \in Pointer, cache[p] # NoVersion, cache'[p] # NoVersion
                 PROVE  AsNew(cache', cache[p].profile)
    BY DEF CacheAdvances
  <2>2. cache[p] \in Version /\ TimestampOf[cache[p].profile] \in Nat /\ PointerOf[cache[p].profile] = p
    BY <2>1, SyncParts, VersionProfile DEF StoreTypeOK
  <2>3. CASE cache'[p] = cache[p]
    BY <2>1, <2>2, <2>3 DEF AsNew
  <2>4. ASSUME NEW e \in N, PointerOf[e] = p, cache'[p] = AsDeployed(e)
        PROVE  AsNew(cache', cache[p].profile)
    <3>1. ~AsNew(cache, e) /\ e \in Profile /\ TimestampOf[e] \in Nat
      BY <1>3, <1>4, ProfileAssumption DEF Caches
    <3>2. TimestampOf[cache[p].profile] < TimestampOf[e]
      BY <2>1, <2>2, <2>4, <3>1 DEF AsNew
    <3>3. QED
      BY <1>4, <2>1, <2>2, <2>4, <3>1, <3>2 DEF AsNew
  <2>5. QED
    BY <1>5, <2>3, <2>4
<1>9. ASSUME NEW e \in sync.found PROVE Backed(e)'
  <2>1. CASE e \in new
    <3>1. PICK f \in N : Covers(f, e)
      BY <1>1, <2>1
    <3> DEFINE q == [by |-> "sync", version |-> AsDeployed(f)]
    <3>2. q \in queue' /\ q.version.profile = f
      BY <1>1, <1>3, <1>4
    <3> HIDE DEF q
    <3>3. QED
      BY <3>1, <3>2 DEF Backed
  <2>2. CASE e \notin new
    <3>1. e \in dedup \/ AsNew(cache, e)
      BY <1>3, <1>4, <2>2 DEF Caches
    <3>2. Backed(e)
      BY <1>3, <3>1, SyncParts, CachedCovers DEF StoreInv, TrackedBacked
    <3>3. QED
      BY <1>3, <1>6, <1>7, <3>2, SyncParts, BackedKept
  <2>3. QED
    BY <2>1, <2>2
<1>10. StoreKnown'
  <2>1. \A q \in queue' : q.version.profile \in deployed
    BY <1>1, <1>3, <1>4, SyncParts DEF StoreInv, StoreKnown
  <2>2. QED
    BY <1>2, <2>1, SyncParts DEF StoreInv, StoreKnown
<1>11. CacheBacked'
  <2>1. ASSUME NEW p \in Pointer, cache'[p] # NoVersion PROVE Backed(cache[p].profile)'
    <3>1. CASE cache'[p] = cache[p]
      <4>1. cache[p].profile \in Profile /\ Backed(cache[p].profile)
        BY <2>1, <3>1, SyncParts, VersionProfile DEF StoreTypeOK, StoreInv, CacheBacked
      <4>2. QED
        BY <1>6, <1>7, <3>1, <4>1, SyncParts, BackedKept
    <3>2. ASSUME NEW e \in N, cache'[p] = AsDeployed(e) PROVE Backed(cache[p].profile)'
      BY <1>3, <1>4, <1>9, <3>2
    <3>3. QED
      BY <1>5, <3>1, <3>2
  <2>2. QED
    BY <2>1 DEF CacheBacked
<1>12. TrackedBacked'
  <2>1. ASSUME NEW e \in dedup' \cup bloom' PROVE Backed(e)'
    <3>1. e \in dedup \cup bloom \/ e \in sync.found
      BY <1>1, <1>2, <1>3
    <3>2. QED
      BY <1>6, <1>7, <1>9, <3>1, SyncParts, BackedKept
      DEF StoreInv, StoreTypeOK, TrackedBacked
  <2>2. QED
    BY <2>1 DEF TrackedBacked
<1>13. \A q \in queue' \ queue : q.by = "sync"
  BY <1>1
<1>14. QED
  BY <1>6, <1>7, <1>8, <1>9, <1>10, <1>11, <1>12, <1>13 DEF StoreInv

LEMMA PersistFoundStep ==
  ASSUME SyncInv, PersistFound
  PROVE  GoodStep
<1>1. /\ sync.pc = "missing" /\ sync.missing = {}
      /\ UNCHANGED <<deployed, failed, processed, retrier>>
  BY DEF PersistFound
<1>2. /\ sync' \in SyncState /\ sync'.pc = "flush" /\ sync'.todo = sync.todo
      /\ sync'.last = sync.last /\ sync'.missing = {} /\ sync'.found = {}
      /\ sync'.seen = sync.seen /\ sync'.cursor = sync.cursor
  BY <1>1, SyncParts DEF PersistFound, SyncState
<1>3. RowsOK' /\ Range(failed)' = Range(failed)
  BY <1>1, SyncParts DEF RowsOK, Distinct
<1>4. /\ StoreInv' /\ Keeps /\ CacheAdvances
      /\ \A e \in sync.found : Backed(e)'
      /\ \A q \in queue' \ queue : q.by # "validator"
  BY PersistFoundKeeps
<1>5. AccountedKept
  BY <1>3, <1>4, SyncParts, AccountedStays
<1>6. SnapshotsInv'
  BY <1>1, <1>2, <1>4, <1>5, SnapshotShrinks DEF Accounted
<1>7. StreamInv' /\ ProcessedInv'
  BY <1>1, <1>2, <1>5, SyncParts, StreamStays, ProcessedStays DEF AccountedKept, SyncInv
<1>8. QED
  BY <1>1, <1>2, <1>3, <1>4, <1>6, <1>7, SyncParts, StartAssembly DEF SyncInv, SyncTypeOK

\* A snapshot is marked once everything in it is accounted for.
LEMMA MarkSnapshotStep ==
  ASSUME SyncInv, NEW s \in Snapshot, MarkSnapshotProcessed(s)
  PROVE  GoodStep
<1>1. /\ InSnapshots /\ sync.pc = "flush" /\ s \in sync.todo
      /\ \A t \in sync.todo : InitOf[s] <= InitOf[t]
      /\ UNCHANGED <<storeVars, failed, retrier>>
      /\ processed' = processed \cup {s}
      /\ sync.missing = {} /\ sync.found = {}
  BY DEF MarkSnapshotProcessed, InSnapshots, SyncInv, SnapshotsInv
<1>2. EndOf[s] \in Nat
  BY SyncAssumption
<1>3. /\ sync' \in SyncState /\ sync'.pc = "snapshots" /\ sync'.todo = sync.todo \ {s}
      /\ sync'.last = Later(sync.last, EndOf[s])
      /\ sync'.missing = {} /\ sync'.found = {}
      /\ sync'.seen = sync.seen /\ sync'.cursor = sync.cursor
  BY <1>1, <1>2, SyncParts DEF MarkSnapshotProcessed, SyncState, Later
<1>4. RowsOK' /\ Range(failed)' = Range(failed)
  BY <1>1, SyncParts DEF RowsOK, Distinct
<1>5. StoreInv' /\ Keeps /\ CacheAdvances /\ AccountedKept
  BY <1>1, <1>4, SyncParts, FollowQuiet DEF storeVars
<1>6. \A e \in Streamed(s, sync.last) : Accounted(e)
  BY <1>1 DEF SyncInv, SnapshotsInv
<1>7. SnapshotsInv' /\ Closed(sync'.last)
  BY <1>1, <1>3, <1>5, <1>6, SnapshotSettled DEF storeVars
<1>8. StreamInv'
  BY <1>1, <1>3, <1>5, <1>7, SyncParts, StreamStays DEF AccountedKept, storeVars
<1>9. ProcessedInv'
  <2>1. UNCHANGED deployed /\ Closed(EndOf[s])
    BY <1>1 DEF storeVars, SyncInv, SnapshotsInv
  <2>2. ASSUME NEW t \in processed', NEW e \in Streamed(t, 0) PROVE Accounted(e)'
    <3>1. e \in deployed /\ e \in Profile /\ TimestampOf[e] \in Nat
      BY SyncParts, ProfileAssumption DEF Streamed
    <3>2. CASE t \in processed
      BY <1>5, <2>2, <3>1, <3>2 DEF SyncInv, ProcessedInv, AccountedKept
    <3>3. CASE t = s /\ TimestampOf[e] < sync.last
      BY <1>1, <1>5, <3>1, <3>3 DEF SyncInv, SnapshotsInv, AccountedKept
    <3>4. CASE t = s /\ sync.last <= TimestampOf[e]
      BY <1>5, <1>6, <2>2, <3>1, <3>4 DEF Streamed, AccountedKept
    <3>5. sync.last \in Nat
      BY SyncParts DEF SyncState
    <3>6. QED
      BY <1>1, <2>2, <3>1, <3>2, <3>3, <3>4, <3>5
  <2>3. \A t \in processed' : Closed(EndOf[t])' /\ Streamed(t, 0)' = Streamed(t, 0)
    BY <1>1, <2>1 DEF SyncInv, ProcessedInv, Closed, Streamed
  <2>4. QED
    BY <2>2, <2>3 DEF ProcessedInv
<1>10. QED
  BY <1>1, <1>3, <1>4, <1>5, <1>7, <1>8, <1>9, SyncParts, StartAssembly
  DEF SyncInv, SyncTypeOK, storeVars

\* The loops start from where the snapshots end.
LEMMA SnapshotsDoneStep ==
  ASSUME SyncInv, SnapshotsDone
  PROVE  GoodStep
<1>1. /\ InSnapshots /\ sync.pc = "snapshots" /\ sync.todo = {}
      /\ UNCHANGED <<storeVars, failed, processed, retrier>>
      /\ sync.missing = {} /\ sync.found = {}
  BY DEF SnapshotsDone, InSnapshots, SyncInv, SnapshotsInv
<1>2. /\ sync' \in SyncState /\ ~InSnapshots'
      /\ sync'.todo = {} /\ sync'.missing = {} /\ sync'.found = {}
      /\ sync'.seen = sync.seen /\ sync'.cursor = sync.last /\ sync'.last = 0
  BY <1>1, SyncParts DEF SnapshotsDone, SyncState, InSnapshots
<1>3. RowsOK' /\ Range(failed)' = Range(failed)
  BY <1>1, SyncParts DEF RowsOK, Distinct
<1>4. StoreInv' /\ Keeps /\ CacheAdvances /\ AccountedKept
  BY <1>1, <1>3, SyncParts, FollowQuiet DEF storeVars
<1>5. StreamInv'
  <2>1. NothingSkipped'
    BY <1>1, <1>2, <1>4, SyncParts
    DEF NothingSkipped, SyncInv, SnapshotsInv, AccountedKept, storeVars
  <2>2. Closed(sync.cursor)' /\ Closed(sync.last)'
    BY <1>1, <1>2, SyncParts, ClosedStart DEF Closed, storeVars
  <2>3. \A e \in sync'.seen : Accounted(e)'
    BY <1>2, <1>4, SyncParts DEF AccountedKept
  <2>4. QED
    BY <2>1, <2>2, <2>3 DEF StreamInv
<1>6. ProcessedInv' /\ SnapshotsInv'
  BY <1>1, <1>2, <1>4, SyncParts, ProcessedStays, OutsideSnapshots DEF SyncInv, storeVars
<1>7. QED
  BY <1>1, <1>2, <1>3, <1>4, <1>5, <1>6, SyncParts, StartAssembly
  DEF SyncInv, SyncTypeOK, storeVars

LEMMA SnapshotsFailStep ==
  ASSUME SyncInv, SnapshotsFail
  PROVE  GoodStep
<1>1. /\ UNCHANGED <<deployed, stored, cache, dedup, bloom, queue, lost, failed, processed, retrier>>
      /\ faults' \in 0..MaxFaults
  BY SyncParts, FailureType DEF SnapshotsFail
<1>2. /\ sync' \in SyncState /\ ~InSnapshots'
      /\ sync'.todo = {} /\ sync'.missing = {} /\ sync'.found = {}
      /\ sync'.seen = {} /\ sync'.cursor = sync.cursor /\ sync'.last = 0
  BY SyncParts DEF SnapshotsFail, Loading, SyncState, InSnapshots
<1>3. RowsOK' /\ Range(failed)' = Range(failed)
  BY <1>1, SyncParts DEF RowsOK, Distinct
<1>4. StoreInv' /\ Keeps /\ CacheAdvances /\ AccountedKept
  BY <1>1, <1>3, SyncParts, FollowQuiet
<1>5. StreamInv'
  BY <1>1, <1>2, <1>4, SyncParts, StreamStays, ClosedStart
<1>6. ProcessedInv' /\ SnapshotsInv'
  BY <1>1, <1>2, <1>4, SyncParts, ProcessedStays, OutsideSnapshots DEF SyncInv
<1>7. QED
  BY <1>1, <1>2, <1>3, <1>4, <1>5, <1>6, SyncParts, StartAssembly DEF SyncInv, SyncTypeOK

LEMMA SynchronizeStep ==
  ASSUME SyncInv, Synchronize
  PROVE  GoodStep
  BY LoadStep, FetchSnapshotsStep, SkipSnapshotStep, FetchSnapshotStep, MarkSnapshotStep,
     RecordMissingStep, PersistFoundStep, SnapshotsDoneStep, SnapshotsFailStep
  DEF Synchronize

-----------------------------------------------------------------------------
(* Restarts                                                                  *)

LEMMA RestartStep ==
  ASSUME SyncInv, Restart
  PROVE  GoodStep
<1>1. /\ UNCHANGED <<deployed, stored, failed, processed>>
      /\ faults' \in 0..MaxFaults
      /\ cache' = [p \in Pointer |-> NoVersion]
      /\ dedup' = {} /\ bloom' = {} /\ queue' = {}
      /\ lost' = lost \cup {q.version.profile : q \in queue}
      /\ sync' = Loading /\ retrier' = Resting
  BY SyncParts, FailureType DEF Restart
<1>2. StoreTypeOK'
  <2>1. lost' \subseteq Profile
    BY <1>1, SyncParts, VersionProfile DEF StoreTypeOK
  <2>2. QED
    BY <1>1, <2>1, SyncParts DEF StoreTypeOK
<1>3. Keeps
  <2>1. TableAdvances
    BY <1>1, SyncParts, VersionProfile DEF StoreTypeOK, TableAdvances, AsNew
  <2>2. QED
    BY <1>1, <2>1 DEF Keeps
<1>4. CacheAdvances
  BY <1>1 DEF CacheAdvances
<1>5. StoreInv'
  BY <1>1, <1>2, SyncParts DEF StoreInv, StoreKnown, CacheBacked, TrackedBacked
<1>6. RowsOK' /\ Range(failed)' = Range(failed)
  BY <1>1, SyncParts DEF RowsOK, Distinct
<1>7. AccountedKept
  BY <1>3, <1>5, <1>6, SyncParts, AccountedStays
<1>8. /\ sync' \in SyncState /\ ~InSnapshots'
      /\ sync'.todo = {} /\ sync'.missing = {} /\ sync'.found = {}
      /\ sync'.seen = {} /\ sync'.cursor = 0 /\ sync'.last = 0
  BY <1>1 DEF Loading, SyncState, InSnapshots, Genesis
<1>9. StreamInv'
  BY <1>1, <1>8, SyncParts, ClosedStart, ProfileAssumption
  DEF StreamInv, NothingSkipped, Closed
<1>10. ProcessedInv' /\ SnapshotsInv'
  BY <1>1, <1>7, <1>8, SyncParts, ProcessedStays, OutsideSnapshots DEF SyncInv
<1>11. SyncTypeOK' /\ SyncKnown' /\ RetrierInv'
  BY <1>1, <1>2, <1>6, <1>8, SyncParts, RestingType
  DEF SyncInv, SyncTypeOK, RowsOK, Distinct, SyncKnown, RetrierInv
<1>12. QED
  BY <1>1, <1>3, <1>4, <1>5, <1>9, <1>10, <1>11 DEF SyncInv, GoodStep

-----------------------------------------------------------------------------
(* Safety                                                                    *)

LEMMA SyncInitially == SyncInit => SyncInv
<1>1. SUFFICES ASSUME SyncInit PROVE SyncInv
  OBVIOUS
<1>2. StoreInv
  BY <1>1, ProfileAssumption
  DEF SyncInit, StoreInit, StoreInv, StoreTypeOK, StoreKnown, CacheBacked, TrackedBacked
<1>3. failed \in Seq(Profile) /\ DOMAIN failed = {} /\ Range(failed) = {}
  BY <1>1 DEF SyncInit, Range
<1>4. sync \in SyncState
  BY <1>1 DEF SyncInit, Loading, SyncState, Genesis
<1>5. SyncTypeOK
  BY <1>1, <1>2, <1>3, <1>4, RestingType DEF SyncInit, SyncTypeOK, StoreInv
<1>6. SyncKnown /\ RetrierInv
  BY <1>1, <1>3, RestingType DEF SyncInit, Loading, SyncKnown, RetrierInv
<1>7. deployed = {}
  BY <1>1 DEF SyncInit, StoreInit
<1>8. StreamInv /\ ProcessedInv /\ SnapshotsInv
  BY <1>1, <1>7, ClosedStart
  DEF SyncInit, Loading, Genesis, StreamInv, NothingSkipped, ProcessedInv, SnapshotsInv,
      InSnapshots
<1>9. QED
  BY <1>2, <1>5, <1>6, <1>8 DEF SyncInv

LEMMA SyncNextStep ==
  ASSUME SyncInv, SyncNext
  PROVE  GoodStep
  BY SynchronizeStep, FollowStep, RetryStep, WorldStep, RestartStep, DrainStep DEF SyncNext

LEMMA SyncStutters ==
  ASSUME SyncInv, UNCHANGED allSyncVars
  PROVE  SyncInv'
<1>1. UNCHANGED <<deployed, stored, cache, dedup, bloom, queue, lost, faults, syncVars>>
  BY DEF allSyncVars, storeVars
<1>2. StoreInv' /\ Keeps
  BY <1>1, RetryQuiet
<1>3. QED
  BY <1>1, <1>2, StoreOnlyStep

(* The inductive invariant: what the stream has given, what the snapshots     *)
(* have covered and what the retrier is about to delete is accounted for.    *)
THEOREM SyncInvariant == SyncSpec => []SyncInv
<1>1. SyncInv /\ [SyncNext]_allSyncVars => SyncInv'
  BY SyncNextStep, SyncStutters DEF GoodStep
<1>2. QED
  BY <1>1, SyncInitially, PTL DEF SyncSpec

(* The variables keep their types.                                           *)
THEOREM SyncTypesHold == SyncSpec => []SyncTypeOK
<1>1. SyncInv => SyncTypeOK
  BY DEF SyncInv
<1>2. QED
  BY <1>1, SyncInvariant, PTL

(* Whatever is cached, or remembered by the tracker as processed, is stored, *)
(* on its way to the table, superseded or lost by a failure: the stream and  *)
(* the requests may pass over it.                                            *)
THEOREM SyncedIsBacked == SyncSpec => [](CacheBacked /\ TrackedBacked)
<1>1. SyncInv => CacheBacked /\ TrackedBacked
  BY DEF SyncInv, StoreInv
<1>2. QED
  BY <1>1, SyncInvariant, PTL

(* The cursor of the synchronizer passes nothing that is not accounted for.  *)
THEOREM SyncSkipsNothing == SyncSpec => []NothingSkipped
<1>1. SyncInv => NothingSkipped
  BY DEF SyncInv, StreamInv
<1>2. QED
  BY <1>1, SyncInvariant, PTL

-----------------------------------------------------------------------------
(* Nothing is lost without a fault                                           *)

(* Before the first fault nothing is lost: the service has started only     *)
(* once, with nothing stored, and so from the beginning of time.            *)
LossInv ==
  faults = 0 =>
    /\ lost = {}
    /\ sync.pc = "load" => /\ \A p \in Pointer : stored[p] = NoVersion
                          /\ queue = {} /\ retrier.pc = "wait"
    /\ sync.pc = "start" => sync.cursor = Genesis

\* A failure is a fault.
LEMMA FailureCounts ==
  ASSUME faults \in 0..MaxFaults, Failure
  PROVE  faults' # 0
  BY ProfileAssumption DEF Failure

\* A step that loses nothing and neither starts the service nor disturbs its start.
LEMMA LossQuiet ==
  ASSUME LossInv, lost' = lost, faults' = 0 => faults = 0,
         sync'.pc \notin {"load", "start"}
  PROVE  LossInv'
  BY DEF LossInv

LEMMA LossLoadStep ==
  ASSUME SyncInv, LossInv, LoadLastCursor
  PROVE  LossInv'
<1>1. SUFFICES ASSUME faults' = 0 PROVE LossInv'
  BY DEF LossInv
<1>2. PICK c \in {Genesis} \cup Latest :
        /\ IF c \in Latest THEN UNCHANGED faults ELSE Failure
        /\ \E pc \in {"start", "wait"} : sync' = [sync EXCEPT !.pc = pc, !.cursor = c]
        /\ lost' = lost \cup {e \in deployed : TimestampOf[e] < c /\ ~Accounted(e)}
  BY DEF LoadLastCursor
<1>3. faults = 0
  BY <1>1, <1>2, SyncParts, FailureCounts
<1>4. \A p \in Pointer : stored[p] = NoVersion
  BY <1>3 DEF LossInv, LoadLastCursor
<1>5. Latest = {Genesis}
  BY <1>4 DEF Latest
<1>6. c = 0 /\ lost = {}
  BY <1>2, <1>3, <1>5 DEF Genesis, LossInv
<1>7. \A e \in deployed : ~(TimestampOf[e] < c)
  BY <1>6, SyncParts, ProfileAssumption
<1>8. sync'.pc \in {"start", "wait"} /\ sync'.cursor = Genesis
  BY <1>2, <1>6, SyncParts DEF SyncState, Genesis
<1>9. QED
  BY <1>2, <1>6, <1>7, <1>8 DEF LossInv

LEMMA LossFetchSnapshotsStep ==
  ASSUME SnapshotsGapless, SyncInv, LossInv, FetchSnapshotsToProcess
  PROVE  LossInv'
<1>1. SUFFICES ASSUME faults' = 0 PROVE LossInv'
  BY DEF LossInv
<1>2. faults = 0 /\ sync.cursor = 0 /\ lost = {}
  BY <1>1 DEF FetchSnapshotsToProcess, LossInv, Genesis
<1> DEFINE S == Offered(sync.cursor)
<1>3. PassedOver(sync.cursor, S) = {}
  <2>1. SUFFICES ASSUME NEW e \in PassedOver(sync.cursor, S) PROVE FALSE
    OBVIOUS
  <2>2. e \in deployed /\ e \in Profile /\ TimestampOf[e] \in Nat
    BY <2>1, SyncParts, ProfileAssumption DEF PassedOver
  <2>3. PICK s \in S : TimestampOf[e] < EndOf[s]
    BY <2>1 DEF PassedOver
  <2>4. s \in Snapshot /\ \A f \in Profile : TimestampOf[f] < EndOf[s] => f \in deployed
    BY DEF Offered
  <2>5. PICK t \in Snapshot : /\ InitOf[t] <= TimestampOf[e] /\ TimestampOf[e] < EndOf[t]
                             /\ EndOf[t] <= EndOf[s]
    BY <2>2, <2>3, <2>4 DEF SnapshotsGapless
  <2>6. InitOf[t] \in Nat /\ EndOf[t] \in Nat /\ EndOf[s] \in Nat
    BY <2>4, <2>5, SyncAssumption
  <2>7. \A f \in Profile : TimestampOf[f] < EndOf[t] => f \in deployed
    BY <2>4, <2>5, <2>6, ProfileAssumption
  <2>8. t \in S
    BY <1>2, <2>6, <2>7 DEF Offered
  <2>9. e \in Streamed(t, 0)
    BY <2>2, <2>5 DEF Streamed
  <2>10. QED
    BY <2>1, <2>8, <2>9 DEF PassedOver
<1>4. lost' = {}
  BY <1>2, <1>3 DEF FetchSnapshotsToProcess
<1>5. sync'.pc \in {"wait", "snapshots"}
  BY SyncParts DEF FetchSnapshotsToProcess, SyncState
<1>6. QED
  BY <1>4, <1>5 DEF LossInv

\* The other steps of the loops lose nothing unless something fails.
LEMMA LossSyncStep ==
  ASSUME SnapshotsGapless, SyncInv, LossInv, Synchronize
  PROVE  LossInv'
<1>1. faults \in 0..MaxFaults /\ sync \in SyncState
  BY SyncParts
<1>2. CASE LoadLastCursor
  BY <1>2, LossLoadStep
<1>3. CASE FetchSnapshotsToProcess
  BY <1>3, LossFetchSnapshotsStep
<1>4. CASE \E s \in Snapshot : SkipSnapshot(s) \/ MarkSnapshotProcessed(s)
  <2>1. lost' = lost /\ faults' = faults
    BY <1>4 DEF SkipSnapshot, MarkSnapshotProcessed, storeVars
  <2>2. sync'.pc = "snapshots"
    BY <1>1, <1>4 DEF SkipSnapshot, NextSnapshot, MarkSnapshotProcessed, SyncState
  <2>3. QED
    BY <2>1, <2>2, LossQuiet
<1>5. CASE \E s \in Snapshot : FetchSnapshot(s)
  <2>1. lost' = lost /\ (faults' = faults \/ Failure)
    BY <1>5 DEF FetchSnapshot, MissesOnly
  <2>2. sync'.pc = "missing"
    BY <1>1, <1>5 DEF FetchSnapshot, SyncState
  <2>3. QED
    BY <1>1, <2>1, <2>2, LossQuiet, FailureCounts
<1>6. CASE \/ \E e \in Profile : RecordMissing(e)
           \/ PersistFound \/ SnapshotsDone
  <2>1. lost' = lost /\ faults' = faults
    BY <1>6 DEF RecordMissing, PersistFound, SnapshotsDone, storeVars
  <2>2. sync'.pc \in {"missing", "flush", "wait"}
    BY <1>1, <1>6 DEF RecordMissing, PersistFound, SnapshotsDone, SyncState
  <2>3. QED
    BY <2>1, <2>2, LossQuiet
<1>7. CASE SnapshotsFail
  BY <1>1, <1>7, FailureCounts DEF SnapshotsFail, LossInv
<1>8. QED
  BY <1>2, <1>3, <1>4, <1>5, <1>6, <1>7 DEF Synchronize

LEMMA LossFollowStep ==
  ASSUME SyncInv, LossInv, FollowChanges
  PROVE  LossInv'
<1>1. faults \in 0..MaxFaults /\ sync \in SyncState
  BY SyncParts
<1>2. CASE Poll \/ StreamStored \/ StreamEnds
  <2>1. lost' = lost /\ faults' = faults
    BY <1>2 DEF Poll, StreamStored, StreamEnds, storeVars
  <2>2. sync'.pc \in {"stream", "wait"}
    BY <1>1, <1>2 DEF Poll, StreamStored, StreamEnds, SyncState
  <2>3. QED
    BY <2>1, <2>2, LossQuiet
<1>3. CASE StreamFails
  BY <1>1, <1>3, FailureCounts DEF StreamFails, LossInv
<1>4. CASE \E e \in Profile : \/ SkipMalicious(e) \/ StreamMissing(e)
                              \/ StreamRejected(e) \/ StreamFound(e)
  <2>1. PICK e \in Profile : \/ SkipMalicious(e) \/ StreamMissing(e)
                            \/ StreamRejected(e) \/ StreamFound(e)
    BY <1>4
  <2>2. lost' = lost /\ (faults' = faults \/ Failure)
    BY <2>1 DEF SkipMalicious, StreamMissing, StreamRejected, StreamFound, MissesOnly, storeVars
  <2>3. sync'.pc \in {"stream", "store"}
    BY <1>1, <2>1 DEF SkipMalicious, StreamMissing, StreamRejected, StreamFound,
                      Fetched, NextStreamed, Seen, SyncState
  <2>4. QED
    BY <1>1, <2>2, <2>3, LossQuiet, FailureCounts
<1>5. CASE \E e \in Profile : SkipProcessed(e)
  <2>1. PICK e \in Profile : SkipProcessed(e)
    BY <1>5
  <2>2. CASE e \in dedup \cup bloom
    <3>1. lost' = lost /\ faults' = faults
      BY <2>1, <2>2 DEF SkipProcessed
    <3>2. sync'.pc = "stream"
      BY <1>1, <2>1 DEF SkipProcessed, NextStreamed, Seen, SyncState
    <3>3. QED
      BY <3>1, <3>2, LossQuiet
  <2>3. CASE e \notin dedup \cup bloom
    BY <1>1, <2>1, <2>3, FailureCounts DEF SkipProcessed, LossInv
  <2>4. QED
    BY <2>2, <2>3
<1>6. QED
  BY <1>2, <1>3, <1>4, <1>5 DEF FollowChanges

LEMMA LossRetryStep ==
  ASSUME SyncInv, LossInv, Retry
  PROVE  LossInv'
<1>1. SUFFICES ASSUME faults' = 0 PROVE LossInv'
  BY DEF LossInv
<1>2. faults \in 0..MaxFaults
  BY SyncParts
<1>3. ~RetryFails /\ lost' = lost /\ sync' = sync /\ faults = 0
  BY <1>1, <1>2, FailureCounts
  DEF Retry, RetryRead, RetryCheck, RetryNothing, RetryFetch, RetryDone, RetryFails,
      RetryMissing, RetryPersist, RetryDelete, RetryChecked, MissesOnly, storeVars
<1>4. retrier.pc = "wait" => sync.pc \in {"wait", "stream", "store"}
  BY <1>3
  DEF Retry, RetryRead, RetryCheck, RetryNothing, RetryFetch, RetryDone,
      RetryMissing, RetryPersist, RetryDelete, RetryChecked
<1>5. sync.pc # "load"
  BY <1>3, <1>4 DEF LossInv
<1>6. QED
  BY <1>3, <1>5 DEF LossInv

LEMMA LossStep ==
  ASSUME SnapshotsGapless, SyncInv, LossInv, [SyncNext]_allSyncVars
  PROVE  LossInv'
<1>1. faults \in 0..MaxFaults
  BY SyncParts
<1>2. CASE Synchronize
  BY <1>2, LossSyncStep
<1>3. CASE FollowChanges
  BY <1>3, LossFollowStep
<1>4. CASE Retry
  BY <1>4, LossRetryStep
<1>5. CASE World
  BY <1>5 DEF World, Deploy, Evict, DedupExpires, syncVars, LossInv
<1>6. CASE Restart
  BY <1>1, <1>6, FailureCounts DEF Restart, LossInv
<1>7. CASE \E w \in Persister : Drain(w)
  <2>1. PICK q \in queue : Upsert(q) /\ UNCHANGED syncVars
    BY <1>7 DEF Drain, Waiting
  <2>2. CASE Failure
    BY <1>1, <2>2, FailureCounts DEF LossInv
  <2>3. CASE ~Failure
    <3>1. lost' = lost /\ faults' = faults /\ sync' = sync
      BY <2>1, <2>3 DEF Upsert, syncVars
    <3>2. queue # {}
      BY <2>1
    <3>3. QED
      BY <3>1, <3>2 DEF LossInv
  <2>4. QED
    BY <2>2, <2>3
<1>8. CASE UNCHANGED allSyncVars
  BY <1>8 DEF allSyncVars, storeVars, syncVars, LossInv
<1>9. QED
  BY <1>2, <1>3, <1>4, <1>5, <1>6, <1>7, <1>8 DEF SyncNext

(* The service loses track of a profile only after a failure or a restart:   *)
(* what the snapshots leave to the pointer changes, these give.              *)
THEOREM LossOnlyByFaults == ASSUME SnapshotsGapless PROVE SyncSpec => []LossIsAFault
<1>1. SyncInit => LossInv
  BY DEF SyncInit, StoreInit, Loading, Resting, LossInv
<1>2. SyncInv /\ LossInv /\ [SyncNext]_allSyncVars => LossInv'
  BY LossStep
<1>3. LossInv => LossIsAFault
  BY DEF LossInv, LossIsAFault
<1>4. QED
  BY <1>1, <1>2, <1>3, SyncInvariant, PTL DEF SyncSpec

=============================================================================
