------------------------ MODULE ProfileServingProofs ------------------------
(***************************************************************************)
(* Theorems about the whole profile half of the service: what holds of the *)
(* synchronization still does when requests and the ownership validator    *)
(* write to the same cache and table, and nobody takes back what another   *)
(* one wrote.                                                              *)
(***************************************************************************)
EXTENDS ProfileServing, ProfileSyncProofs

-----------------------------------------------------------------------------
(* The inductive invariant                                                   *)

\* What a request has read was deployed, and a row it holds is not newer than the table.
ReaderInv ==
  \A r \in Reader :
    /\ reader[r].version # NoVersion => reader[r].version.profile \in deployed
    /\ reader[r].pc = "row" => AsNew(stored, reader[r].version.profile)

\* What the catalysts served is for the pointer; one update of it is on its way at most.
ValidatorInv ==
  /\ \A p \in Pointer : validator.served[p] # NoVersion =>
       /\ validator.served[p].profile \in deployed
       /\ PointerOf[validator.served[p].profile] = p
  /\ validator.pc # "update" => Waiting("validator") = {}
  /\ \A q, r \in Waiting("validator") :
       PointerOf[q.version.profile] = PointerOf[r.version.profile] => q = r

ProfileInv == SyncInv /\ ProfileTypeOK /\ ReaderInv /\ ValidatorInv

\* Every step keeps the invariant and moves the table and the cache forward.
Forward == ProfileInv' /\ TableAdvances /\ CacheAdvances

-----------------------------------------------------------------------------
(* The synchronization leaves the requests and the validator alone           *)

LEMMA RowsStayOld ==
  ASSUME StoreTypeOK, StoreTypeOK', TableAdvances, NEW e \in Profile, AsNew(stored, e)
  PROVE  AsNew(stored', e)
<1> DEFINE p == PointerOf[e]
           f == stored[p].profile
<1>1. p \in Pointer /\ stored[p] # NoVersion /\ f \in Profile /\ Covers(f, e)
  BY ProfileAssumption, VersionProfile DEF StoreTypeOK, AsNew, Covers
<1>2. AsNew(stored', f)
  BY <1>1 DEF TableAdvances
<1>3. QED
  BY <1>1, <1>2, AsNewCovers DEF StoreTypeOK

LEMMA ProfileParts ==
  ASSUME ProfileInv
  PROVE  /\ SyncInv /\ StoreInv /\ StoreTypeOK
         /\ reader \in [Reader -> ReaderState] /\ validator \in ValidatorState
         /\ deployed \subseteq Profile
  BY DEF ProfileInv, ProfileTypeOK, SyncInv, StoreInv, StoreTypeOK

\* Requests are not disturbed while the table moves forward.
LEMMA ReadersUntouched ==
  ASSUME ProfileInv, StoreTypeOK', TableAdvances, deployed \subseteq deployed',
         UNCHANGED reader
  PROVE  ReaderInv'
<1>1. SUFFICES ASSUME NEW r \in Reader
               PROVE  /\ reader[r].version # NoVersion => reader[r].version.profile \in deployed'
                      /\ reader[r].pc = "row" => AsNew(stored', reader[r].version.profile)
  BY DEF ReaderInv
<1>2. /\ reader[r].version # NoVersion => reader[r].version.profile \in deployed
      /\ reader[r].pc = "row" => AsNew(stored, reader[r].version.profile)
      /\ reader[r].pc = "row" => reader[r].version # NoVersion
  BY <1>1 DEF ProfileInv, ReaderInv, ProfileTypeOK
<1>3. QED
  BY <1>2, ProfileParts, RowsStayOld

LEMMA ValidatorUntouched ==
  ASSUME ProfileInv, deployed \subseteq deployed', UNCHANGED validator,
         \A q \in queue' \ queue : q.by # "validator"
  PROVE  ValidatorInv'
<1>1. Waiting("validator")' \subseteq Waiting("validator")
  BY DEF Waiting
<1>2. QED
  BY <1>1 DEF ProfileInv, ValidatorInv

LEMMA SynchronizationStep ==
  ASSUME ProfileInv, Synchronization
  PROVE  Forward
<1>1. SyncNext /\ UNCHANGED <<reader, validator>>
  BY DEF Synchronization, SyncNext, servingVars
<1>2. GoodStep
  BY <1>1, ProfileParts, SyncNextStep
<1>3. SyncInv' /\ StoreTypeOK' /\ TableAdvances /\ CacheAdvances /\ deployed \subseteq deployed'
      /\ \A q \in queue' \ queue : q.by # "validator"
  BY <1>2 DEF GoodStep, Keeps, SyncInv, StoreInv
<1>4. ProfileTypeOK'
  BY <1>1, <1>3 DEF ProfileInv, ProfileTypeOK, SyncInv
<1>5. QED
  BY <1>1, <1>3, <1>4, ReadersUntouched, ValidatorUntouched DEF ProfileInv, Forward

LEMMA NoRequestType == NoRequest \in ReaderState
  BY DEF NoRequest, ReaderState

LEMMA NotValidatingType ==
  /\ NotValidating \in ValidatorState
  /\ NotValidating.pc = "wait"
  /\ \A p \in Pointer : NotValidating.served[p] = NoVersion
  BY DEF NotValidating, ValidatorState

LEMMA RestartAllStep ==
  ASSUME ProfileInv, RestartAll
  PROVE  Forward
<1>1. GoodStep
  BY ProfileParts, RestartStep DEF RestartAll
<1>2. SyncInv' /\ TableAdvances /\ CacheAdvances
  BY <1>1 DEF GoodStep, Keeps
<1>3. reader' = [r \in Reader |-> NoRequest] /\ validator' = NotValidating /\ queue' = {}
  BY DEF RestartAll, Restart
<1>4. ProfileTypeOK' /\ ReaderInv'
  BY <1>2, <1>3, NoRequestType, NotValidatingType
  DEF ProfileTypeOK, SyncInv, ReaderInv, NoRequest
<1>5. ValidatorInv'
  BY <1>3, NotValidatingType DEF ValidatorInv, Waiting
<1>6. QED
  BY <1>2, <1>4, <1>5 DEF ProfileInv, Forward

-----------------------------------------------------------------------------
(* Requests                                                                  *)

\* A request that writes nothing.
LEMMA ReadingStep ==
  ASSUME ProfileInv,
         UNCHANGED <<deployed, stored, cache, dedup, bloom, queue, lost, syncVars, validator>>,
         Failure \/ UNCHANGED faults,
         NEW r \in Reader, NEW s \in ReaderState, reader' = [reader EXCEPT ![r] = s],
         s.pc \in {"row", "answer"} => s.version # NoVersion,
         s.version # NoVersion => s.version.profile \in deployed,
         s.pc = "row" => AsNew(stored, s.version.profile)
  PROVE  Forward
<1>1. StoreInv' /\ Keeps /\ CacheAdvances
  BY ProfileParts, RetryQuiet
<1>2. SyncInv'
  BY <1>1, ProfileParts, StoreOnlyStep
<1>3. ProfileTypeOK'
  BY <1>2, ProfileParts DEF ProfileInv, ProfileTypeOK, SyncInv
<1>4. ReaderInv'
  BY ProfileParts DEF ProfileInv, ReaderInv
<1>5. ValidatorInv'
  BY ValidatorUntouched
<1>6. QED
  BY <1>1, <1>2, <1>3, <1>4, <1>5 DEF ProfileInv, Forward, Keeps

LEMMA CacheMissStep ==
  ASSUME ProfileInv, NEW r \in Reader, NEW p \in Pointer, CacheMiss(r, p)
  PROVE  Forward
<1> DEFINE s == [NoRequest EXCEPT !.pc = "table", !.pointer = {p}]
<1>1. s \in ReaderState /\ s.pc = "table" /\ s.version = NoVersion
  BY DEF NoRequest, ReaderState
<1>2. /\ reader' = [reader EXCEPT ![r] = s]
      /\ UNCHANGED <<deployed, stored, cache, dedup, bloom, queue, lost, faults, syncVars, validator>>
  BY DEF CacheMiss, storeVars
<1> HIDE DEF s
<1>3. QED
  BY <1>1, <1>2, ReadingStep

LEMMA ReadTableStep ==
  ASSUME ProfileInv, NEW r \in Reader, ReadTable(r)
  PROVE  Forward
<1>1. PICK p \in reader[r].pointer :
        \/ /\ reader' = [reader EXCEPT
                           ![r].pc = IF stored[p] = NoVersion THEN "lambdas" ELSE "row",
                           ![r].version = stored[p]]
           /\ UNCHANGED faults
        \/ /\ Failure
           /\ reader' = [reader EXCEPT ![r].pc = "lambdas"]
  BY DEF ReadTable
<1>2. /\ UNCHANGED <<deployed, stored, cache, dedup, bloom, queue, lost, syncVars, validator>>
      /\ Failure \/ UNCHANGED faults
      /\ p \in Pointer /\ reader[r] \in ReaderState
  BY <1>1, ProfileParts DEF ReadTable, ReaderState
<1>3. CASE reader' = [reader EXCEPT
                           ![r].pc = IF stored[p] = NoVersion THEN "lambdas" ELSE "row",
                           ![r].version = stored[p]]
  <2> DEFINE s == [reader[r] EXCEPT !.pc = IF stored[p] = NoVersion THEN "lambdas" ELSE "row",
                                    !.version = stored[p]]
  <2>1. /\ s \in ReaderState /\ s.version = stored[p]
        /\ s.pc = IF stored[p] = NoVersion THEN "lambdas" ELSE "row"
    BY <1>2, ProfileParts DEF ReaderState, StoreTypeOK
  <2>2. reader' = [reader EXCEPT ![r] = s]
    BY <1>2, <1>3, ProfileParts DEF ReaderState
  <2>3. stored[p] # NoVersion =>
          stored[p].profile \in deployed /\ AsNew(stored, stored[p].profile)
    BY <1>2, ProfileParts, VersionProfile DEF StoreTypeOK, StoreInv, StoreKnown, AsNew
  <2> HIDE DEF s
  <2>4. QED
    BY <1>2, <2>1, <2>2, <2>3, ReadingStep
<1>4. CASE reader' = [reader EXCEPT ![r].pc = "lambdas"]
  <2> DEFINE s == [reader[r] EXCEPT !.pc = "lambdas"]
  <2>1. s \in ReaderState /\ s.version = reader[r].version /\ s.pc = "lambdas"
    BY <1>2 DEF ReaderState
  <2>2. reader' = [reader EXCEPT ![r] = s]
    BY <1>2, <1>4, ProfileParts DEF ReaderState
  <2>3. s.version # NoVersion => s.version.profile \in deployed
    BY <2>1 DEF ProfileInv, ReaderInv
  <2> HIDE DEF s
  <2>4. QED
    BY <1>2, <2>1, <2>2, <2>3, ReadingStep
<1>5. QED
  BY <1>1, <1>3, <1>4

LEMMA ServedVersion ==
  ASSUME ProfileInv, NEW p \in Pointer, NEW v \in Served(p)
  PROVE  v \in Version /\ v # NoVersion /\ v.profile \in deployed /\ PointerOf[v.profile] = p
<1>1. PICK e \in Newest(p) : v = AsServed(e)
  BY DEF Served
<1>2. e \in deployed /\ e \in Profile /\ PointerOf[e] = p
  BY ProfileParts DEF Newest
<1>3. v \in Version /\ v.profile = e
  BY <1>1, <1>2 DEF AsServed, Version
<1>4. QED
  BY <1>2, <1>3, NoVersionAssumption

LEMMA AskLambdasStep ==
  ASSUME ProfileInv, NEW r \in Reader, AskLambdas(r)
  PROVE  Forward
<1>1. PICK p \in reader[r].pointer :
        \/ /\ \E v \in Served(p) :
                reader' = [reader EXCEPT ![r].pc = "answer", ![r].version = v]
           /\ UNCHANGED faults
        \/ /\ IF Served(p) = {} THEN UNCHANGED faults ELSE Failure
           /\ reader' = [reader EXCEPT ![r] = NoRequest]
  BY DEF AskLambdas
<1>2. /\ UNCHANGED <<deployed, stored, cache, dedup, bloom, queue, lost, syncVars, validator>>
      /\ Failure \/ UNCHANGED faults
      /\ p \in Pointer /\ reader[r] \in ReaderState
  BY <1>1, ProfileParts DEF AskLambdas, ReaderState
<1>3. ASSUME NEW v \in Served(p),
             reader' = [reader EXCEPT ![r].pc = "answer", ![r].version = v]
      PROVE  Forward
  <2> DEFINE s == [reader[r] EXCEPT !.pc = "answer", !.version = v]
  <2>1. v \in Version /\ v # NoVersion /\ v.profile \in deployed
    BY <1>2, ServedVersion
  <2>2. s \in ReaderState /\ s.version = v /\ s.pc = "answer"
    BY <1>2, <2>1 DEF ReaderState
  <2>3. reader' = [reader EXCEPT ![r] = s]
    BY <1>2, <1>3, ProfileParts DEF ReaderState
  <2> HIDE DEF s
  <2>4. QED
    BY <1>2, <2>1, <2>2, <2>3, ReadingStep
<1>4. CASE reader' = [reader EXCEPT ![r] = NoRequest]
  BY <1>2, <1>4, NoRequestType, ReadingStep DEF NoRequest
<1>5. QED
  BY <1>1, <1>3, <1>4

LEMMA AnsweredStep ==
  ASSUME ProfileInv, NEW r \in Reader, Answered(r)
  PROVE  Forward
<1>1. /\ reader' = [reader EXCEPT ![r] = NoRequest]
      /\ UNCHANGED <<deployed, stored, cache, dedup, bloom, queue, lost, faults, syncVars, validator>>
  BY DEF Answered, storeVars
<1>2. QED
  BY <1>1, NoRequestType, ReadingStep DEF NoRequest

\* The row that a request caches is no newer than the table, if older than it was.
LEMMA AnswerRowStep ==
  ASSUME ProfileInv, NEW r \in Reader, AnswerRow(r)
  PROVE  Forward
<1> DEFINE v == reader[r].version
<1>1. /\ v \in Version /\ v.profile \in deployed /\ v.profile \in Profile
      /\ AsNew(stored, v.profile)
  BY ProfileParts DEF AnswerRow, ProfileInv, ProfileTypeOK, ReaderState, ReaderInv
<1> HIDE DEF v
<1>2. /\ cache' = IfNewer(cache, v)
      /\ reader' = [reader EXCEPT ![r] = NoRequest]
      /\ UNCHANGED <<deployed, stored, dedup, bloom, queue, lost, faults, syncVars, validator>>
  BY DEF AnswerRow, v
<1>3. StoreTypeOK'
  BY <1>1, <1>2, ProfileParts, VersionProfile, IfNewerType DEF StoreTypeOK
<1>4. Keeps
  BY <1>2, ProfileParts, VersionProfile DEF StoreTypeOK, Keeps, TableAdvances, AsNew
<1>5. CacheAdvances
  <2>1. ASSUME NEW p \in Pointer, cache[p] # NoVersion
        PROVE  AsNew(IfNewer(cache, v), cache[p].profile)
    BY <1>1, <2>1, ProfileParts, IfNewerType DEF StoreTypeOK
  <2>2. QED
    BY <1>2, <2>1 DEF CacheAdvances
<1>6. CacheBacked'
  <2>1. ASSUME NEW p \in Pointer, cache'[p] # NoVersion PROVE Backed(cache[p].profile)'
    <3>1. cache'[p] = cache[p] \/ cache'[p] = v
      BY <1>1, <1>2, ProfileParts, IfNewerType DEF StoreTypeOK
    <3>2. CASE cache'[p] = cache[p]
      <4>1. cache[p].profile \in Profile /\ Backed(cache[p].profile)
        BY <2>1, <3>2, ProfileParts, VersionProfile DEF StoreTypeOK, StoreInv, CacheBacked
      <4>2. QED
        BY <1>3, <1>4, <3>2, <4>1, ProfileParts, BackedKept
    <3>3. CASE cache'[p] = v
      BY <1>1, <1>2, <3>3 DEF Backed
    <3>4. QED
      BY <3>1, <3>2, <3>3
  <2>2. QED
    BY <2>1 DEF CacheBacked
<1>7. StoreKnown' /\ TrackedBacked'
  BY <1>2, <1>3, <1>4, ProfileParts, BackedKept
  DEF StoreInv, StoreTypeOK, StoreKnown, TrackedBacked
<1>8. SyncInv'
  BY <1>2, <1>3, <1>4, <1>6, <1>7, ProfileParts, StoreOnlyStep DEF StoreInv
<1>9. ProfileTypeOK'
  BY <1>2, <1>8, ProfileParts, NoRequestType
  DEF ProfileInv, ProfileTypeOK, SyncInv, NoRequest
<1>10. ReaderInv'
  BY <1>2, ProfileParts DEF ProfileInv, ReaderInv, NoRequest
<1>11. QED
  BY <1>2, <1>4, <1>5, <1>8, <1>9, <1>10, ValidatorUntouched DEF ProfileInv, Forward, Keeps

LEMMA AnswerServedStep ==
  ASSUME ProfileInv, NEW r \in Reader, AnswerServed(r)
  PROVE  Forward
<1> DEFINE v == reader[r].version
           s == [reader[r] EXCEPT !.pc = "store", !.version = NoVersion]
<1>1. v \in Version /\ v.profile \in deployed /\ r \in Persister /\ r # "validator"
  BY ProfileParts, ServingAssumption
  DEF AnswerServed, ProfileInv, ProfileTypeOK, ReaderState, ReaderInv
<1>2. /\ Persist(r, v)
      /\ UNCHANGED <<deployed, stored, lost, faults, syncVars, validator>>
  BY DEF AnswerServed
<1> HIDE DEF v
<1>3. /\ StoreInv' /\ Keeps /\ CacheAdvances
      /\ \A q \in queue' \ queue : q.by = r
  BY <1>1, <1>2, ProfileParts, PersistKeeps
<1>4. SyncInv'
  BY <1>2, <1>3, ProfileParts, StoreOnlyStep
<1>5. /\ reader' = [reader EXCEPT ![r] = s] /\ s \in ReaderState
      /\ s.pc = "store" /\ s.version = NoVersion
  BY ProfileParts DEF AnswerServed, ReaderState
<1> HIDE DEF s
<1>6. ProfileTypeOK'
  BY <1>2, <1>4, <1>5, ProfileParts DEF ProfileInv, ProfileTypeOK, SyncInv
<1>7. ReaderInv'
  BY <1>2, <1>5, ProfileParts DEF ProfileInv, ReaderInv
<1>8. ValidatorInv'
  BY <1>1, <1>2, <1>3, ValidatorUntouched
<1>9. QED
  BY <1>3, <1>4, <1>6, <1>7, <1>8 DEF ProfileInv, Forward, Keeps

LEMMA RequestStep ==
  ASSUME ProfileInv, Request
  PROVE  Forward
  BY CacheMissStep, ReadTableStep, AnswerRowStep, AskLambdasStep, AnswerServedStep, AnsweredStep
  DEF Request

-----------------------------------------------------------------------------
(* The validator                                                             *)

LEMMA FetchServedStep ==
  ASSUME ProfileInv, FetchServed
  PROVE  Forward
<1>1. PICK served \in [Pointer -> Version \cup {NoVersion}] :
        /\ \A p \in Pointer :
             served[p] \in (IF cache[p] = NoVersion THEN {} ELSE Served(p)) \cup {NoVersion}
        /\ validator' = [pc |-> "compare", served |-> served]
        /\ Failure \/ UNCHANGED faults
  BY DEF FetchServed
<1>2. UNCHANGED <<deployed, stored, cache, dedup, bloom, queue, lost, syncVars, reader>>
  BY DEF FetchServed
<1>3. StoreInv' /\ Keeps /\ CacheAdvances
  BY <1>1, <1>2, ProfileParts, RetryQuiet
<1>4. SyncInv'
  BY <1>2, <1>3, ProfileParts, StoreOnlyStep
<1>5. validator' \in ValidatorState
  BY <1>1 DEF ValidatorState
<1>6. ProfileTypeOK'
  BY <1>2, <1>4, <1>5 DEF ProfileInv, ProfileTypeOK, SyncInv
<1>7. ReaderInv'
  BY <1>2, <1>3, ReadersUntouched DEF StoreInv, Keeps
<1>8. ValidatorInv'
  <2>1. ASSUME NEW p \in Pointer, served[p] # NoVersion
        PROVE  served[p].profile \in deployed /\ PointerOf[served[p].profile] = p
    <3>1. served[p] \in Served(p)
      BY <1>1, <2>1
    <3>2. QED
      BY <3>1, ServedVersion
  <2>2. Waiting("validator") = {}
    BY DEF FetchServed, ProfileInv, ValidatorInv
  <2>3. QED
    BY <1>1, <1>2, <2>1, <2>2 DEF ValidatorInv, Waiting
<1>9. QED
  BY <1>3, <1>4, <1>6, <1>7, <1>8 DEF ProfileInv, Forward, Keeps

\* What has to be updated was served, and was deployed for the pointer.
LEMMA UpdateVersion ==
  ASSUME ProfileInv, NEW p \in Updates
  PROVE  /\ p \in Pointer
         /\ validator.served[p] \in Version
         /\ validator.served[p].profile \in deployed
         /\ PointerOf[validator.served[p].profile] = p
  BY ProfileParts DEF Updates, ProfileInv, ValidatorInv, ValidatorState

LEMMA CompareStep ==
  ASSUME ProfileInv, Compare
  PROVE  Forward
<1> DEFINE order(p) == [by |-> "validator", version |-> validator.served[p]]
<1>1. /\ cache' = [p \in Pointer |->
                     IF p \in Updates THEN IfNewer(cache, validator.served[p])[p]
                     ELSE cache[p]]
      /\ queue' = queue \cup {order(p) : p \in Updates}
      /\ UNCHANGED <<deployed, stored, dedup, bloom, lost, faults, syncVars, reader>>
  BY DEF Compare
<1>2. cache \in [Pointer -> Version \cup {NoVersion}]
  BY ProfileParts DEF StoreTypeOK
<1>3. ASSUME NEW p \in Pointer
      PROVE  cache'[p] = cache[p] \/ (p \in Updates /\ cache'[p] = validator.served[p])
  <2>1. CASE p \in Updates
    BY <1>1, <1>2, <2>1, UpdateVersion, IfNewerType
  <2>2. CASE p \notin Updates
    BY <1>1, <2>2
  <2>3. QED
    BY <2>1, <2>2
<1>4. \A p \in Updates : order(p) \in [by : Persister, version : Version]
  BY UpdateVersion, SyncAssumption, ServingAssumption
<1> HIDE DEF order
<1>5. StoreTypeOK'
  <2>1. cache' \in [Pointer -> Version \cup {NoVersion}]
    BY <1>1, <1>2, <1>3, UpdateVersion
  <2>2. \A p \in Pointer : cache'[p] # NoVersion => PointerOf[cache'[p].profile] = p
    BY <1>3, UpdateVersion, ProfileParts DEF StoreTypeOK
  <2>3. queue' \subseteq [by : Persister, version : Version]
    BY <1>1, <1>4, ProfileParts DEF StoreTypeOK
  <2>4. QED
    BY <1>1, <2>1, <2>2, <2>3, ProfileParts DEF StoreTypeOK
<1>6. Keeps
  BY <1>1, ProfileParts, VersionProfile DEF StoreTypeOK, Keeps, TableAdvances, AsNew
<1>7. CacheAdvances
  <2>1. SUFFICES ASSUME NEW p \in Pointer, cache[p] # NoVersion
                 PROVE  AsNew(cache', cache[p].profile)
    BY DEF CacheAdvances
  <2>2. /\ PointerOf[cache[p].profile] = p
        /\ TimestampOf[cache[p].profile] \in Nat
    BY <1>2, <2>1, ProfileParts, VersionProfile DEF StoreTypeOK
  <2>3. CASE p \in Updates
    <3>1. AsNew(IfNewer(cache, validator.served[p]), cache[p].profile)
      BY <1>2, <2>1, <2>2, <2>3, UpdateVersion, IfNewerType
    <3>2. cache'[p] = IfNewer(cache, validator.served[p])[p]
      BY <1>1, <2>3
    <3>3. QED
      BY <2>2, <3>1, <3>2 DEF AsNew
  <2>4. CASE p \notin Updates
    BY <1>1, <2>1, <2>2, <2>4 DEF AsNew
  <2>5. QED
    BY <2>3, <2>4
<1>8. CacheBacked'
  <2>1. ASSUME NEW p \in Pointer, cache'[p] # NoVersion PROVE Backed(cache[p].profile)'
    <3>1. CASE cache'[p] = cache[p]
      <4>1. cache[p].profile \in Profile /\ Backed(cache[p].profile)
        BY <1>2, <2>1, <3>1, ProfileParts, VersionProfile DEF StoreInv, CacheBacked
      <4>2. QED
        BY <1>5, <1>6, <3>1, <4>1, ProfileParts, BackedKept
    <3>2. CASE p \in Updates /\ cache'[p] = validator.served[p]
      <4>1. order(p) \in queue'
        BY <1>1, <3>2
      <4>2. Covers(order(p).version.profile, cache'[p].profile)
        BY <3>2, UpdateVersion, VersionProfile DEF Covers, order
      <4>3. QED
        BY <4>1, <4>2 DEF Backed
    <3>3. QED
      BY <1>3, <3>1, <3>2
  <2>2. QED
    BY <2>1 DEF CacheBacked
<1>9. StoreKnown'
  BY <1>1, UpdateVersion, ProfileParts DEF StoreInv, StoreKnown, order
<1>10. TrackedBacked'
  BY <1>1, <1>5, <1>6, ProfileParts, BackedKept DEF StoreInv, StoreTypeOK, TrackedBacked
<1>11. SyncInv'
  BY <1>1, <1>5, <1>6, <1>8, <1>9, <1>10, ProfileParts, StoreOnlyStep DEF StoreInv
<1>12. /\ validator' \in ValidatorState
       /\ validator'.pc = IF Updates = {} THEN "wait" ELSE "update"
       /\ \A p \in Pointer : validator'.served[p] = NoVersion
  BY NotValidatingType DEF Compare, NotValidating, ValidatorState
<1>13. ProfileTypeOK'
  BY <1>1, <1>11, <1>12 DEF ProfileInv, ProfileTypeOK, SyncInv
<1>14. ReaderInv'
  BY <1>1, <1>5, <1>6, ReadersUntouched DEF Keeps
<1>15. ValidatorInv'
  <2>1. Waiting("validator") = {}
    BY DEF Compare, ProfileInv, ValidatorInv
  <2>2. Waiting("validator")' \subseteq {order(p) : p \in Updates}
    BY <1>1, <2>1 DEF Waiting
  <2>3. ASSUME NEW q \in Waiting("validator")', NEW r \in Waiting("validator")',
               PointerOf[q.version.profile] = PointerOf[r.version.profile]
        PROVE  q = r
    <3>1. PICK p \in Updates, m \in Updates : q = order(p) /\ r = order(m)
      BY <2>2
    <3>2. p = m
      BY <2>3, <3>1, UpdateVersion DEF order
    <3>3. QED
      BY <3>1, <3>2
  <2>4. validator'.pc # "update" => Waiting("validator")' = {}
    BY <1>12, <2>2
  <2>5. QED
    BY <1>12, <2>3, <2>4 DEF ValidatorInv
<1>16. QED
  BY <1>6, <1>7, <1>11, <1>13, <1>14, <1>15 DEF ProfileInv, Forward, Keeps

\* The statement upserts every version it is given as an upsert of its own would.
LEMMA BulkUpsertKeeps ==
  ASSUME ProfileInv, BulkUpsert
  PROVE  StoreInv' /\ Keeps /\ CacheAdvances
<1> DEFINE W == Waiting("validator")
           U == {q.version : q \in W}
           ours(p) == {q \in W : PointerOf[q.version.profile] = p}
<1>0. /\ W \subseteq queue /\ queue' = queue \ W
      /\ UNCHANGED <<deployed, cache, dedup, bloom>>
  BY DEF BulkUpsert, Waiting
<1>1. /\ \A q \in queue : q.version \in Version /\ q.version.profile \in Profile
      /\ \A q, r \in W : PointerOf[q.version.profile] = PointerOf[r.version.profile] => q = r
      /\ stored \in [Pointer -> Version \cup {NoVersion}]
  BY ProfileParts, VersionProfile DEF StoreTypeOK, ProfileInv, ValidatorInv
<1>2. CASE /\ stored' = [p \in Pointer |->
                           IF \E v \in U : PointerOf[v.profile] = p
                           THEN IfNewer(stored, CHOOSE v \in U : PointerOf[v.profile] = p)[p]
                           ELSE stored[p]]
           /\ UNCHANGED <<lost, faults>>
  <2>1. ASSUME NEW p \in Pointer, NEW q \in W, PointerOf[q.version.profile] = p
        PROVE  stored'[p] = IfNewer(stored, q.version)[p]
    <3>1. q.version \in U /\ \A v \in U : PointerOf[v.profile] = p => v = q.version
      BY <1>1, <2>1
    <3> HIDE DEF U
    <3>2. (CHOOSE v \in U : PointerOf[v.profile] = p) = q.version
      BY <2>1, <3>1
    <3>3. \E v \in U : PointerOf[v.profile] = p
      BY <2>1, <3>1
    <3>4. QED
      BY <1>2, <3>2, <3>3
  <2>2. ASSUME NEW p \in Pointer, ~\E q \in W : PointerOf[q.version.profile] = p
        PROVE  stored'[p] = stored[p]
    BY <1>2, <2>2
  <2> HIDE DEF W, U
  <2>3. ASSUME NEW p \in Pointer
        PROVE  stored'[p] \in {stored[p]} \cup {q.version : q \in W}
    BY <1>0, <1>1, <2>1, <2>2, IfNewerType
  <2>4. ASSUME NEW p \in Pointer, stored[p] # NoVersion
        PROVE  AsNew(stored', stored[p].profile)
    <3>1. /\ PointerOf[stored[p].profile] = p
          /\ TimestampOf[stored[p].profile] \in Nat
      BY <1>1, <2>4, ProfileParts, VersionProfile DEF StoreTypeOK
    <3>2. ASSUME NEW q \in W, PointerOf[q.version.profile] = p
          PROVE  AsNew(stored', stored[p].profile)
      <4>1. AsNew(IfNewer(stored, q.version), stored[p].profile)
        BY <1>0, <1>1, <2>4, <3>1, IfNewerType
      <4>2. stored'[p] = IfNewer(stored, q.version)[p]
        BY <2>1, <3>2
      <4>3. QED
        BY <3>1, <4>1, <4>2 DEF AsNew
    <3>3. CASE stored'[p] = stored[p]
      BY <2>4, <3>1, <3>3 DEF AsNew
    <3>4. QED
      BY <2>2, <3>2, <3>3
  <2>5. ASSUME NEW q \in W PROVE AsNew(stored', q.version.profile)
    <3> DEFINE p == PointerOf[q.version.profile]
    <3>1. q.version \in Version /\ p \in Pointer
      BY <1>0, <1>1, VersionProfile
    <3>2. AsNew(IfNewer(stored, q.version), q.version.profile)
      BY <1>1, <3>1, IfNewerType
    <3>3. stored'[p] = IfNewer(stored, q.version)[p]
      BY <2>1, <3>1
    <3>4. QED
      BY <3>2, <3>3 DEF AsNew
  <2>6. Keeps
    BY <1>0, <1>2, <2>4, <2>5 DEF Keeps, TableAdvances
  <2>7. ASSUME NEW p \in Pointer, stored'[p] # NoVersion
        PROVE  PointerOf[stored'[p].profile] = p /\ stored'[p].profile \in deployed
    <3>1. ASSUME NEW q \in W, PointerOf[q.version.profile] = p
          PROVE  stored'[p] = stored[p] \/ stored'[p] = q.version
      BY <1>0, <1>1, <2>1, <3>1, IfNewerType
    <3>2. stored'[p] = stored[p] =>
            PointerOf[stored'[p].profile] = p /\ stored'[p].profile \in deployed
      BY <2>7, ProfileParts DEF StoreTypeOK, StoreInv, StoreKnown
    <3>3. \A q \in W : q.version.profile \in deployed
      BY <1>0, ProfileParts DEF StoreInv, StoreKnown
    <3>4. QED
      BY <2>2, <3>1, <3>2, <3>3
  <2>8. stored' \in [Pointer -> Version \cup {NoVersion}]
    <3>1. stored' = [p \in Pointer |-> stored'[p]]
      BY <1>2
    <3>2. \A p \in Pointer : stored'[p] \in Version \cup {NoVersion}
      BY <1>0, <1>1, <2>3
    <3>3. QED
      BY <3>1, <3>2
  <2>9. StoreTypeOK'
    BY <1>0, <1>2, <2>7, <2>8, ProfileParts DEF StoreTypeOK
  <2>10. QED
    BY <1>0, <2>6, <2>7, <2>9, ProfileParts, StoreWrittenKeeps
<1>3. CASE /\ Failure
           /\ lost' = lost \cup {v.profile : v \in U}
           /\ UNCHANGED stored
  <2>1. U \subseteq Version /\ {v.profile : v \in U} \subseteq Profile
    BY <1>0, <1>1
  <2>2. faults' \in 0 .. MaxFaults
    BY <1>3, ProfileParts, FailureType DEF SyncInv, SyncTypeOK, StoreTypeOK
  <2>3. \A q \in W : q.version.profile \in lost'
    BY <1>3
  <2> HIDE DEF W, U
  <2>4. StoreTypeOK'
    BY <1>0, <1>3, <2>1, <2>2, ProfileParts DEF StoreTypeOK
  <2>5. Keeps
    BY <1>0, <1>1, <1>3, <2>3, ProfileParts, VersionProfile
    DEF Keeps, TableAdvances, AsNew, StoreTypeOK
  <2>6. \A p \in Pointer : stored'[p] # NoVersion => stored'[p].profile \in deployed
    BY <1>3, ProfileParts DEF StoreInv, StoreKnown
  <2>7. QED
    BY <1>0, <2>4, <2>5, <2>6, ProfileParts, StoreWrittenKeeps
<1>4. QED
  BY <1>2, <1>3 DEF BulkUpsert

LEMMA BulkUpsertStep ==
  ASSUME ProfileInv, BulkUpsert
  PROVE  Forward
<1>1. StoreInv' /\ Keeps /\ CacheAdvances
  BY BulkUpsertKeeps
<1>2. /\ UNCHANGED <<deployed, syncVars, reader>> /\ validator' = NotValidating
      /\ queue' = queue \ Waiting("validator")
  BY DEF BulkUpsert
<1>3. SyncInv'
  BY <1>1, <1>2, ProfileParts, StoreOnlyStep
<1>4. ProfileTypeOK'
  BY <1>2, <1>3, NotValidatingType DEF ProfileInv, ProfileTypeOK, SyncInv
<1>5. ReaderInv'
  BY <1>1, <1>2, ReadersUntouched DEF StoreInv, Keeps
<1>6. ValidatorInv'
  BY <1>2, NotValidatingType DEF ValidatorInv, Waiting
<1>7. QED
  BY <1>1, <1>3, <1>4, <1>5, <1>6 DEF ProfileInv, Forward, Keeps

LEMMA ValidateStep ==
  ASSUME ProfileInv, Validate
  PROVE  Forward
  BY FetchServedStep, CompareStep, BulkUpsertStep DEF Validate

-----------------------------------------------------------------------------
(* The specification                                                         *)

LEMMA ProfileInitially == ProfileInit => ProfileInv
<1>1. SUFFICES ASSUME ProfileInit PROVE ProfileInv
  OBVIOUS
<1>2. SyncInv
  BY <1>1, SyncInitially DEF ProfileInit
<1>3. /\ reader = [r \in Reader |-> NoRequest] /\ validator = NotValidating
      /\ queue = {}
  BY <1>1 DEF ProfileInit, SyncInit, StoreInit
<1>4. ProfileTypeOK /\ ReaderInv
  BY <1>2, <1>3, NoRequestType, NotValidatingType
  DEF ProfileTypeOK, SyncInv, ReaderInv, NoRequest
<1>5. ValidatorInv
  BY <1>3, NotValidatingType DEF ValidatorInv, Waiting
<1>6. QED
  BY <1>2, <1>4, <1>5 DEF ProfileInv

LEMMA ProfileStutters ==
  ASSUME ProfileInv, UNCHANGED profileVars
  PROVE  Forward
<1>1. UNCHANGED <<deployed, stored, cache, dedup, bloom, queue, lost, faults, syncVars,
                  reader, validator>>
  BY DEF profileVars, storeVars, servingVars
<1>2. StoreInv' /\ Keeps /\ CacheAdvances
  BY <1>1, ProfileParts, RetryQuiet
<1>3. SyncInv'
  BY <1>1, <1>2, ProfileParts, StoreOnlyStep
<1>4. ProfileTypeOK'
  BY <1>1, <1>3 DEF ProfileInv, ProfileTypeOK, SyncInv
<1>5. ReaderInv' /\ ValidatorInv'
  BY <1>1, <1>2, ReadersUntouched, ValidatorUntouched DEF StoreInv, Keeps
<1>6. QED
  BY <1>2, <1>3, <1>4, <1>5 DEF ProfileInv, Forward, Keeps

LEMMA ProfileNextStep ==
  ASSUME ProfileInv, [ProfileNext]_profileVars
  PROVE  Forward
  BY SynchronizationStep, RequestStep, ValidateStep, RestartAllStep, ProfileStutters
  DEF ProfileNext

(* The inductive invariant of the profile half: that of the synchronization, *)
(* a row a request holds is no newer than the table, and the validator has   *)
(* one update per pointer on its way.                                        *)
THEOREM ProfileInvariant == ProfileSpec => []ProfileInv
<1>1. ProfileInv /\ [ProfileNext]_profileVars => ProfileInv'
  BY ProfileNextStep DEF Forward
<1>2. QED
  BY <1>1, ProfileInitially, PTL DEF ProfileSpec

(* The variables keep their types.                                           *)
THEOREM ProfileTypesHold == ProfileSpec => []ProfileTypeOK
<1>1. ProfileInv => ProfileTypeOK
  BY DEF ProfileInv
<1>2. QED
  BY <1>1, ProfileInvariant, PTL

(* Whatever is cached, by whom it may be, or remembered by the tracker as    *)
(* processed, is stored, on its way to the table, superseded or lost by a    *)
(* failure.                                                                  *)
THEOREM ServedIsBacked == ProfileSpec => [](CacheBacked /\ TrackedBacked)
<1>1. ProfileInv => CacheBacked /\ TrackedBacked
  BY DEF ProfileInv, SyncInv, StoreInv
<1>2. QED
  BY <1>1, ProfileInvariant, PTL

(* Requests and the validator do not make the synchronizer skip anything     *)
(* either: the cursor passes nothing that is not accounted for.              *)
THEOREM ServingSkipsNothing == ProfileSpec => []NothingSkipped
<1>1. ProfileInv => NothingSkipped
  BY DEF ProfileInv, SyncInv, StreamInv
<1>2. QED
  BY <1>1, ProfileInvariant, PTL

(* Neither the table nor the cache goes back to an older deployment, whoever *)
(* writes and however long ago it has read what it writes.                   *)
THEOREM VersionsAdvance == ProfileSpec => VersionsOnlyAdvance
<1>1. ProfileInv /\ [ProfileNext]_profileVars =>
        \A p \in Pointer :
          /\ stored[p] # NoVersion => AsNew(stored', stored[p].profile)
          /\ cache[p] # NoVersion /\ cache'[p] # NoVersion => AsNew(cache', cache[p].profile)
  BY ProfileNextStep DEF Forward, TableAdvances, CacheAdvances
<1>2. QED
  BY <1>1, ProfileInvariant, PTL DEF ProfileSpec, VersionsOnlyAdvance

=============================================================================
