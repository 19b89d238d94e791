----------------------- MODULE RegistryHandlersProofs -----------------------
(***************************************************************************)
(* Theorems about the registry operations as interleaved statements, for   *)
(* any number of workers, with failures, deadlocks and the purger: no      *)
(* entity is forgotten.  Where every registry is known, the lock of the    *)
(* transaction keeps a COMPLETE registry from going back to PENDING, and   *)
(* concurrent conversions leave two registries served at one coordinate    *)
(* only by reviving an OBSOLETE one.  What a request for the status of     *)
(* entities looks for in vain in the registries has been purged, and what  *)
(* was purged when it came it finds in the historical table.               *)
(***************************************************************************)
EXTENDS RegistryConversions, EntityStatus, RegistryServiceProofs

-----------------------------------------------------------------------------
(* What a job is, and what the purger has copied                             *)

\* Conversion results, and nobody else, look for history and store bundles.
JobOK(j) ==
  \/ j = Idle
  \/ /\ j \in Job
     /\ j.pc \in {"readHistorical", "storeBundle", "begin"} => j.op = "conversion"
     /\ j.op = "conversion" => j.result # <<>>

HandlersInv ==
  /\ TypeOK
  /\ job \in [Worker -> Job \cup {Idle}]
  /\ \A w \in Worker : JobOK(job[w])
  /\ purge \in [batch : SUBSET Entity, copied : SUBSET Entity]
  /\ purge.copied \subseteq historical

\* Every entity the tables know of is known after the step.
RowsKept ==
  \A e \in Entity :
    /\ status[e] # NoRow \/ e \in historical => status'[e] # NoRow \/ e \in historical'
    /\ UNCHANGED purge /\ status[e] # NoRow => status'[e] # NoRow

LEMMA JobParts ==
  ASSUME HandlersInv, NEW w \in Worker, ~At(w, "idle")
  PROVE  /\ job[w] \in Job /\ JobOK(job[w]) /\ job[w] # Idle
         /\ job[w].entity \in Entity
         /\ job[w].bundles \in Bundles
         /\ job[w].next \in Status
         /\ job[w].rows \in SUBSET Entity
         /\ job[w].held \in SUBSET Entity
<1>1. job[w] \in Job /\ job[w] # Idle
  BY DEF HandlersInv, At, Idle
<1>2. QED
  BY <1>1 DEF HandlersInv, Job

LEMMA NewJobType ==
  ASSUME NEW op \in {"deployment", "conversion", "backfill", "undeployment"},
         NEW pc \in {"readHistorical", "readRelated", "storeBundle", "begin", "undeploy"},
         Entity # {}
  PROVE  NewJob(op, pc) \in Job
<1>1. (CHOOSE e \in Entity : TRUE) \in Entity
  OBVIOUS
<1>2. QED
  BY <1>1, PendingBundlesType DEF NewJob, Job, SimplifiedStatus, Status

\* A worker goes on, and the purger does not.
LEMMA WorkerStep ==
  ASSUME HandlersInv, TypeOK', NEW w \in Worker, NEW j, JobOK(j),
         job' = [job EXCEPT ![w] = j], UNCHANGED purge, UNCHANGED historical,
         \A e \in Entity : status[e] # NoRow => status'[e] # NoRow
  PROVE  HandlersInv' /\ RowsKept
<1>1. j \in Job \cup {Idle}
  BY DEF JobOK
<1>2. job' \in [Worker -> Job \cup {Idle}] /\ \A v \in Worker : JobOK(job'[v])
  BY <1>1 DEF HandlersInv
<1>3. QED
  BY <1>2 DEF HandlersInv, RowsKept

\* ... and writes nothing.
LEMMA ReadingStep ==
  ASSUME HandlersInv, NEW w \in Worker, NEW j, JobOK(j),
         job' = [job EXCEPT ![w] = j], UNCHANGED <<status, bundles, historical, purge>>
  PROVE  HandlersInv' /\ RowsKept
<1>1. TypeOK'
  BY DEF HandlersInv, TypeOK
<1>2. QED
  BY <1>1, WorkerStep

LEMMA IdleOK == JobOK(Idle)
  BY DEF JobOK

-----------------------------------------------------------------------------
(* Steps of the workers                                                      *)

LEMMA TakeStep ==
  ASSUME HandlersInv, NEW w \in Worker, Take(w)
  PROVE  HandlersInv' /\ RowsKept
<1>1. ASSUME NEW e \in Entity, TakeDeployment(w, e) PROVE HandlersInv' /\ RowsKept
  <2> DEFINE j == [NewJob("deployment", "readRelated") EXCEPT !.entity = e]
  <2>1. NewJob("deployment", "readRelated") \in Job
    BY NewJobType
  <2>2. j \in Job /\ j.pc = "readRelated" /\ j.op = "deployment"
    BY <2>1 DEF NewJob, Job
  <2>3. JobOK(j)
    BY <2>2 DEF JobOK
  <2>4. QED
    BY <1>1, <2>3, ReadingStep DEF TakeDeployment, Goto, Tables
<1>2. ASSUME NEW e \in Entity, NEW b \in EventBundle, NEW ok \in BOOLEAN,
             TakeConversion(w, e, b[1], b[2], ok)
      PROVE  HandlersInv' /\ RowsKept
  <2> DEFINE pc == CASE status[e] = NoRow      -> "readHistorical"
                     [] status[e] = "obsolete" -> "storeBundle"
                     [] OTHER                  -> "begin"
             j == [NewJob("conversion", pc) EXCEPT
                     !.entity = e, !.result = <<b[1], b[2], ok>>,
                     !.previous = bundles[e][b[1]][b[2]]]
  <2>1. b[1] \in BundleType /\ b[2] \in Platform
    BY EventAssumption
  <2>2. bundles[e][b[1]][b[2]] \in SimplifiedStatus
    BY <2>1 DEF HandlersInv, TypeOK, Bundles
  <2>3. pc \in {"readHistorical", "storeBundle", "begin"}
    BY DEF NoRow
  <2>4. NewJob("conversion", pc) \in Job
    BY <2>3, NewJobType
  <2>5. j \in Job /\ j.op = "conversion" /\ j.result # <<>>
    BY <2>1, <2>2, <2>4 DEF NewJob, Job
  <2>6. job' = [job EXCEPT ![w] = j]
    BY <1>2 DEF TakeConversion, Goto
  <2> HIDE DEF j
  <2>7. JobOK(j)
    BY <2>5 DEF JobOK
  <2>8. QED
    BY <1>2, <2>6, <2>7, ReadingStep DEF TakeConversion, Tables
<1>3. ASSUME NEW e \in Entity, NEW b \in BackfillBundles, TakeBackfill(w, e, b)
      PROVE  HandlersInv' /\ RowsKept
  <2> DEFINE j == [NewJob("backfill", "readRelated") EXCEPT !.entity = e, !.bundles = b]
  <2>1. b \in Bundles
    BY DEF BackfillBundles, Bundles, SimplifiedStatus
  <2>2. NewJob("backfill", "readRelated") \in Job
    BY NewJobType
  <2>3. j \in Job /\ j.pc = "readRelated" /\ j.op = "backfill"
    BY <2>1, <2>2 DEF NewJob, Job
  <2>4. JobOK(j)
    BY <2>3 DEF JobOK
  <2>5. QED
    BY <1>3, <2>4, ReadingStep DEF TakeBackfill, Goto, Tables
<1>4. ASSUME NEW c \in World, NEW t \in EventTime, TakeWorldUndeployment(w, c, t)
      PROVE  HandlersInv' /\ RowsKept
  <2>1. PICK ids \in SUBSET Entity :
          /\ ids # {}
          /\ job' = [job EXCEPT ![w] = [NewJob("undeployment", "undeploy") EXCEPT
                                          !.world = c, !.time = t, !.rows = ids]]
    BY <1>4 DEF TakeWorldUndeployment, Goto
  <2> DEFINE j == [NewJob("undeployment", "undeploy") EXCEPT
                     !.world = c, !.time = t, !.rows = ids]
  <2>2. t \in Nat
    BY EventAssumption
  <2>3. NewJob("undeployment", "undeploy") \in Job
    BY <2>1, NewJobType
  <2>4. j \in Job /\ j.pc = "undeploy" /\ j.op = "undeployment"
    BY <2>1, <2>2, <2>3 DEF NewJob, Job
  <2>5. JobOK(j)
    BY <2>4 DEF JobOK
  <2>6. QED
    BY <1>4, <2>1, <2>5, ReadingStep DEF TakeWorldUndeployment, Tables
<1>5. ASSUME NEW c \in World, NEW t \in EventTime, NEW ids \in SUBSET Entity,
             UndeployScenesRows(w, ids, c, t)
      PROVE  HandlersInv' /\ RowsKept
  <2>1. status \in StatusColumn /\ status' = Undeployed(status, ids, c, t)
    BY <1>5 DEF HandlersInv, TypeOK, StatusColumn, UndeployScenesRows, UndeployRows
  <2>2. status' \in StatusColumn /\ \A x \in Entity : status[x] # NoRow => status'[x] # NoRow
    BY <2>1, UndeployedEffect DEF NoRow
  <2>3. QED
    BY <1>5, <2>2
    DEF UndeployScenesRows, UndeployRows, HandlersInv, TypeOK, StatusColumn, RowsKept
<1>6. QED
  BY <1>1, <1>2, <1>3, <1>4, <1>5 DEF Take

LEMMA ReadHistoricalStep ==
  ASSUME HandlersInv, NEW w \in Worker, ReadHistorical(w)
  PROVE  HandlersInv' /\ RowsKept
<1> DEFINE j == [job[w] EXCEPT !.pc = "readRelated"]
<1>1. JobOK(j)
  BY JobParts DEF ReadHistorical, At, JobOK, Job
<1>2. job' = [job EXCEPT ![w] = j] \/ job' = [job EXCEPT ![w] = Idle]
  BY DEF ReadHistorical, Goto, Finish
<1> HIDE DEF j
<1>3. QED
  BY <1>1, <1>2, IdleOK, ReadingStep DEF ReadHistorical, Tables

LEMMA ReadRelatedStep ==
  ASSUME HandlersInv, NEW w \in Worker, ReadRelated(w)
  PROVE  HandlersInv' /\ RowsKept
<1>1. PICK fb \in FallbackChoices(status, job[w].entity) :
        job' = [job EXCEPT ![w] =
                  [job[w] EXCEPT
                     !.pc = "insert", !.rows = fb,
                     !.next = DetermineStatus(status, job[w].entity, job[w].bundles)]]
  BY DEF ReadRelated, Goto
<1> DEFINE s == DetermineStatus(status, job[w].entity, job[w].bundles)
           j == [job[w] EXCEPT !.pc = "insert", !.rows = fb, !.next = s]
<1>2. s \in Status /\ fb \in SUBSET Entity
  BY DetermineStatusType, FallbackChoicesServed DEF FallbackCandidates, Related
<1> HIDE DEF s
<1>3. JobOK(j)
  BY <1>2, JobParts DEF ReadRelated, At, JobOK, Job
<1>4. job' = [job EXCEPT ![w] = j]
  BY <1>1 DEF s
<1> HIDE DEF j
<1>5. QED
  BY <1>3, <1>4, ReadingStep DEF ReadRelated, Tables

\* Where persistAndRotateStates ends, the caller goes on or is done.
LEMMA PersistedJob ==
  ASSUME HandlersInv, NEW w \in Worker, ~At(w, "idle"), Persisted(w)
  PROVE  \E j : JobOK(j) /\ job' = [job EXCEPT ![w] = j]
<1> DEFINE j == [job[w] EXCEPT !.pc = "begin", !.rows = {}]
<1>1. CASE job[w].op = "conversion"
  <2>1. JobOK(j)
    BY <1>1, JobParts DEF JobOK, Job
  <2>2. QED
    BY <1>1, <2>1 DEF Persisted, Goto
<1>2. CASE job[w].op # "conversion"
  BY <1>2, IdleOK DEF Persisted, Goto, Finish
<1>3. QED
  BY <1>1, <1>2

LEMMA InsertStep ==
  ASSUME HandlersInv, NEW w \in Worker, Insert(w)
  PROVE  HandlersInv' /\ RowsKept
<1>1. ~At(w, "idle")
  BY DEF Insert, At
<1>2. /\ status' = [status EXCEPT ![job[w].entity] = job[w].next]
      /\ bundles' = [bundles EXCEPT ![job[w].entity] = job[w].bundles]
      /\ UNCHANGED <<historical, purge>>
  BY DEF Insert, Inserted
<1>3. TypeOK' /\ \A e \in Entity : status[e] # NoRow => status'[e] # NoRow
  BY <1>1, <1>2, JobParts DEF HandlersInv, TypeOK, Status, NoRow
<1>4. PICK j : JobOK(j) /\ job' = [job EXCEPT ![w] = j]
  <2> DEFINE k == [job[w] EXCEPT !.pc = "updateFallback"]
  <2>1. JobOK(k)
    BY <1>1, JobParts DEF JobOK, Job
  <2>2. QED
    BY <1>1, <2>1, PersistedJob DEF Insert, Goto
<1>5. QED
  BY <1>2, <1>3, <1>4, WorkerStep

LEMMA UpdateFallbackStep ==
  ASSUME HandlersInv, NEW w \in Worker, UpdateFallback(w)
  PROVE  HandlersInv' /\ RowsKept
<1>1. ~At(w, "idle")
  BY DEF UpdateFallback, At
<1>2. /\ status' = FallbackUpdated(status, {x \in job[w].rows : Exists(x)}, job[w].next)
      /\ UNCHANGED <<bundles, historical, purge>>
  BY DEF UpdateFallback
<1>3. TypeOK' /\ \A e \in Entity : status[e] # NoRow => status'[e] # NoRow
  BY <1>2 DEF HandlersInv, TypeOK, FallbackUpdated, Status, NoRow
<1>4. PICK j : JobOK(j) /\ job' = [job EXCEPT ![w] = j]
  BY <1>1, PersistedJob DEF UpdateFallback
<1>5. QED
  BY <1>2, <1>3, <1>4, WorkerStep

LEMMA ResultBundlesType ==
  ASSUME HandlersInv, NEW w \in Worker, At(w, "storeBundle") \/ At(w, "begin")
  PROVE  /\ ResultBundles(w) \in Bundles
         /\ \E t \in BundleType, p \in Platform, s \in {"complete", "failed"} :
              ResultBundles(w) = WithBundle(bundles[job[w].entity], t, p, s)
<1>1. /\ job[w] \in Job /\ job[w].result # <<>> /\ job[w].entity \in Entity
      /\ bundles[job[w].entity] \in Bundles
  BY JobParts DEF At, JobOK, HandlersInv, TypeOK
<1> DEFINE r == job[w].result
           s == ConversionStatus(r[3], job[w].previous)
<1>2. r[1] \in BundleType /\ r[2] \in Platform
  BY <1>1 DEF Job
<1>3. s \in {"complete", "failed"}
  BY ConversionStatusType
<1>4. ResultBundles(w) = WithBundle(bundles[job[w].entity], r[1], r[2], s)
  BY DEF ResultBundles
<1> HIDE DEF r, s
<1>5. QED
  BY <1>1, <1>2, <1>3, <1>4, WithBundleType DEF SimplifiedStatus

LEMMA StoreBundleStep ==
  ASSUME HandlersInv, NEW w \in Worker, StoreBundle(w)
  PROVE  HandlersInv' /\ RowsKept
<1>1. /\ job[w].entity \in Entity /\ ResultBundles(w) \in Bundles
      /\ bundles' = [bundles EXCEPT ![job[w].entity] =
                       IF Exists(job[w].entity) THEN ResultBundles(w) ELSE @]
      /\ UNCHANGED <<status, historical, purge>>
      /\ job' = [job EXCEPT ![w] = Idle]
  BY JobParts, ResultBundlesType DEF StoreBundle, At, Finish, Goto
<1>2. TypeOK'
  BY <1>1 DEF HandlersInv, TypeOK
<1>3. QED
  BY <1>1, <1>2, IdleOK, WorkerStep

LEMMA BeginStep ==
  ASSUME HandlersInv, NEW w \in Worker, Begin(w)
  PROVE  HandlersInv' /\ RowsKept
<1> DEFINE j == [job[w] EXCEPT !.pc = "readRelatedInTx", !.held = {job[w].entity},
                               !.bundles = ResultBundles(w)]
<1>1. JobOK(j)
  <2>1. ~At(w, "idle") /\ ResultBundles(w) \in Bundles
    BY ResultBundlesType DEF Begin, At
  <2>2. /\ job[w] \in Job /\ job[w].entity \in Entity
        /\ job[w].op = "conversion" /\ job[w].result # <<>>
    BY <2>1, JobParts DEF Begin, At, JobOK
  <2> DEFINE b == ResultBundles(w)
  <2> HIDE DEF b
  <2>3. j \in Job /\ j.op = "conversion" /\ j.result # <<>>
    BY <2>1, <2>2 DEF Job, b
  <2>4. QED
    BY <2>3 DEF JobOK
<1>2. job' = [job EXCEPT ![w] = j] \/ job' = [job EXCEPT ![w] = Idle]
  BY DEF Begin, Goto, Finish
<1> HIDE DEF j
<1>3. QED
  BY <1>1, <1>2, IdleOK, ReadingStep DEF Begin, Tables

LEMMA ReadRelatedInTxStep ==
  ASSUME HandlersInv, NEW w \in Worker, ReadRelatedInTx(w)
  PROVE  HandlersInv' /\ RowsKept
<1> DEFINE e == job[w].entity
           s == DetermineStatus(status, e, job[w].bundles)
           rows == IF s \in {"complete", "obsolete"} THEN NotNewer(status, e) ELSE {}
           j == [job[w] EXCEPT !.pc = "rotate", !.next = s, !.rows = rows]
<1>1. s \in Status /\ rows \in SUBSET Entity
  BY DetermineStatusType DEF NotNewer, Related
<1>2. job' = [job EXCEPT ![w] = j]
  BY DEF ReadRelatedInTx, Goto
<1> HIDE DEF s, rows
<1>3. JobOK(j)
  BY <1>1, JobParts DEF ReadRelatedInTx, At, JobOK, Job
<1> HIDE DEF j
<1>4. QED
  BY <1>2, <1>3, ReadingStep DEF ReadRelatedInTx, Tables

LEMMA RotateRowStep ==
  ASSUME HandlersInv, NEW w \in Worker, NEW x \in Entity, RotateRow(w, x)
  PROVE  HandlersInv' /\ RowsKept
<1> DEFINE j == [job[w] EXCEPT !.rows = @ \ {x}, !.held = IF Exists(x) THEN @ \cup {x} ELSE @]
<1>1. JobOK(j)
  BY JobParts DEF RotateRow, At, JobOK, Job
<1>2. job' = [job EXCEPT ![w] = j]
  BY DEF RotateRow, Goto
<1> HIDE DEF j
<1>3. QED
  BY <1>1, <1>2, ReadingStep DEF RotateRow, Tables

LEMMA CommitStep ==
  ASSUME HandlersInv, NEW w \in Worker, Commit(w)
  PROVE  HandlersInv' /\ RowsKept
<1>1. /\ status' = [x \in Entity |-> IF x = job[w].entity THEN job[w].next
                                     ELSE IF x \in job[w].held THEN "obsolete"
                                     ELSE status[x]]
      /\ bundles' = [bundles EXCEPT ![job[w].entity] = job[w].bundles]
      /\ job' = [job EXCEPT ![w] = Idle]
      /\ UNCHANGED <<historical, purge>>
  BY DEF Commit, Finish, Goto
<1>2. job[w].next \in Status /\ job[w].bundles \in Bundles
  BY JobParts DEF Commit, At
<1>3. TypeOK' /\ \A e \in Entity : status[e] # NoRow => status'[e] # NoRow
  BY <1>1, <1>2 DEF HandlersInv, TypeOK, Status, NoRow
<1>4. QED
  BY <1>1, <1>3, IdleOK, WorkerStep

LEMMA UndeployWorldRowsStep ==
  ASSUME HandlersInv, NEW w \in Worker, UndeployWorldRows(w)
  PROVE  HandlersInv' /\ RowsKept
<1>1. /\ \E ids, c, t : status' = Undeployed(status, ids, c, t)
      /\ UNCHANGED <<bundles, historical, purge>>
      /\ job' = [job EXCEPT ![w] = Idle]
  BY DEF UndeployWorldRows, UndeployRows, Finish, Goto
<1>2. status \in StatusColumn
  BY DEF HandlersInv, TypeOK, StatusColumn
<1>3. status' \in StatusColumn /\ \A x \in Entity : status[x] # NoRow => status'[x] # NoRow
  BY <1>1, <1>2, UndeployedEffect DEF NoRow
<1>4. TypeOK'
  BY <1>1, <1>3 DEF HandlersInv, TypeOK, StatusColumn
<1>5. QED
  BY <1>1, <1>3, <1>4, IdleOK, WorkerStep

LEMMA StatementStep ==
  ASSUME HandlersInv, NEW w \in Worker, Statement(w)
  PROVE  HandlersInv' /\ RowsKept
<1>1. ASSUME Fail(w) PROVE HandlersInv' /\ RowsKept
  BY <1>1, IdleOK, ReadingStep DEF Fail, Finish, Goto, Tables
<1>2. QED
  BY <1>1, ReadHistoricalStep, ReadRelatedStep, InsertStep, UpdateFallbackStep,
     StoreBundleStep, BeginStep, ReadRelatedInTxStep, CommitStep, RotateRowStep,
     UndeployWorldRowsStep
  DEF Statement, OtherStatement

-----------------------------------------------------------------------------
(* The purger: what it deletes it has copied, whatever it is by now          *)

LEMMA PurgerStep ==
  ASSUME HandlersInv, Purger
  PROVE  HandlersInv' /\ RowsKept
<1>1. ASSUME NEW ids \in SUBSET Entity, PurgeSelect(ids) PROVE HandlersInv' /\ RowsKept
  BY <1>1 DEF PurgeSelect, Tables, HandlersInv, TypeOK, RowsKept
<1>2. ASSUME NEW e \in Entity, PurgeCopyRow(e) PROVE HandlersInv' /\ RowsKept
  BY <1>2 DEF PurgeCopyRow, HandlersInv, TypeOK, RowsKept
<1>3. ASSUME PurgeDeleteRows PROVE HandlersInv' /\ RowsKept
  <2>1. /\ purge' \in [batch : SUBSET Entity, copied : SUBSET Entity]
        /\ purge'.copied = {} /\ purge.copied # {}
        /\ UNCHANGED <<historical, job>>
    BY <1>3 DEF PurgeDeleteRows, HandlersInv
  <2>2. TypeOK' /\ \A e \in Entity : status'[e] = NoRow => status[e] = NoRow \/ e \in historical
    BY <1>3, PendingBundlesType DEF PurgeDeleteRows, HandlersInv, TypeOK
  <2>3. QED
    BY <2>1, <2>2 DEF HandlersInv, RowsKept
<1>4. QED
  BY <1>1, <1>2, <1>3 DEF Purger

LEMMA HandlersStep ==
  ASSUME HandlersInv, [HandlersNext]_handlerVars
  PROVE  HandlersInv' /\ RowsKept
<1>1. CASE UNCHANGED handlerVars
  BY <1>1 DEF handlerVars, HandlersInv, TypeOK, RowsKept
<1>2. QED
  BY <1>1, TakeStep, StatementStep, PurgerStep DEF HandlersNext

LEMMA HandlersInitially == HandlersInit => HandlersInv
<1>1. SUFFICES ASSUME HandlersInit PROVE HandlersInv
  OBVIOUS
<1>2. TypeOK
  BY <1>1, PendingBundlesType DEF HandlersInit, TypeOK, Status
<1>3. QED
  BY <1>1, <1>2, IdleOK DEF HandlersInit, HandlersInv

(* The tables and the local variables of every handler keep their types, and *)
(* the purger deletes nothing it has not copied.                             *)
THEOREM HandlersInvariant == HandlersSpec => []HandlersInv
<1>1. HandlersInv /\ [HandlersNext]_<<handlerVars, request>> => HandlersInv'
  BY HandlersStep
<1>2. QED
  BY <1>1, HandlersInitially, PTL DEF HandlersSpec

(* The tables and the local variables of every handler keep their types.     *)
THEOREM HandlersTypesHold == HandlersSpec => []HandlersTypeOK
<1>1. HandlersInv => HandlersTypeOK
  BY DEF HandlersInv, HandlersTypeOK
<1>2. QED
  BY <1>1, HandlersInvariant, PTL

(* However statements interleave, fail or deadlock, with backfills and the   *)
(* purger at any moment: an entity the registry has heard of stays in one of *)
(* its two tables.                                                           *)
THEOREM HandlersKeepEntities == HandlersSpec => KnownEntitiesKept
<1>1. HandlersInv /\ [HandlersNext]_<<handlerVars, request>> =>
        [\A e \in Entity :
           status[e] # NoRow \/ e \in historical =>
             status'[e] # NoRow \/ e \in historical']_vars
  BY HandlersStep DEF RowsKept
<1>2. QED
  BY <1>1, HandlersInvariant, PTL DEF HandlersSpec, KnownEntitiesKept

-----------------------------------------------------------------------------
(* Conversions of known registries                                           *)

\* No deployment or backfill inserts a row; those there are were deployed before.
AllKnown == Deployed = Entity /\ Operation \cap {"deployment", "backfill"} = {}

\* No asset bundle is waited for.
Converted(b) == \A p \in Platform : b["assets"][p] # "pending"

InTx(j) == j.pc \in {"readRelatedInTx", "rotate"}

\* What a job knows of the entity it is about, by its lock or from the purger.
JobKnown(j, bs, hist) ==
  /\ j.pc \notin {"readRelated", "insert", "updateFallback"}
  /\ j.pc = "readHistorical" => j.entity \in hist
  /\ InTx(j) => /\ j.entity \in j.held
                /\ Converted(bs[j.entity]) => Converted(j.bundles)
  /\ j.pc = "rotate" => /\ j.next = "pending" => ~Converted(j.bundles)
                        /\ j.next = "complete" => Converted(j.bundles)

KnownInv ==
  /\ HandlersInv
  /\ \A e \in Entity : status[e] = NoRow => e \in historical
  /\ \A e \in Entity : status[e] = "complete" => Converted(bundles[e])
  /\ \A w \in Worker : JobKnown(job[w], bundles, historical)
  /\ \A v, w \in Worker :
       v # w /\ InTx(job[v]) /\ InTx(job[w]) => job[v].held \cap job[w].held = {}

\* No COMPLETE registry goes back to PENDING in the step.
NoRegress == \A e \in Entity : status[e] = "complete" => status'[e] # "pending"

LEMMA VerdictConverted ==
  ASSUME NEW b \in Bundles
  PROVE  /\ BundlesVerdict(b) = "pending" => ~Converted(b)
         /\ BundlesVerdict(b) = "complete" => Converted(b)
<1>1. \A p \in Platform : b["assets"][p] \in SimplifiedStatus
  BY DEF Bundles, BundleType
<1>2. QED
  BY <1>1 DEF BundlesVerdict, Converted, SimplifiedStatus

LEMMA WithBundleConverted ==
  ASSUME NEW b \in Bundles, NEW t \in BundleType, NEW p \in Platform,
         NEW s \in {"complete", "failed"}, Converted(b)
  PROVE  Converted(WithBundle(b, t, p, s))
  BY DEF Converted, WithBundle, Bundles, BundleType

LEMMA LockedInTx ==
  ASSUME NEW w \in Worker, NEW v \in Worker, v # w, InTx(job[v]), NEW e \in job[v].held
  PROVE  e \in LockedFor(w)
  BY DEF LockedFor, HeldBy, InTx, At

LEMMA IdleKnown == ASSUME NEW bs, NEW hist PROVE JobKnown(Idle, bs, hist) /\ ~InTx(Idle)
  BY DEF JobKnown, InTx, Idle

(* A worker goes on, leaving the bundles of what others have locked alone.   *)
LEMMA KnownWorkerStep ==
  ASSUME KnownInv, HandlersInv', RowsKept, historical \subseteq historical',
         NEW w \in Worker, NEW j, job' = [job EXCEPT ![w] = j],
         JobKnown(j, bundles', historical'),
         InTx(j) => j.held \cap LockedFor(w) = {},
         \A e \in LockedFor(w) : bundles'[e] = bundles[e],
         \A e \in Entity : status'[e] = "complete" => Converted(bundles'[e])
  PROVE  KnownInv'
<1>1. \A v \in Worker : job'[v] = IF v = w THEN j ELSE job[v]
  BY DEF KnownInv, HandlersInv
<1>2. \A e \in Entity : status'[e] = NoRow => e \in historical'
  BY DEF KnownInv, RowsKept
<1>3. ASSUME NEW v \in Worker, v # w PROVE JobKnown(job[v], bundles', historical')
  <2>1. JobKnown(job[v], bundles, historical)
    BY DEF KnownInv
  <2>2. InTx(job[v]) => job[v].entity \in LockedFor(w)
    BY <1>3, <2>1, LockedInTx DEF JobKnown
  <2>3. QED
    BY <2>1, <2>2 DEF JobKnown
<1>4. ASSUME NEW v \in Worker, v # w, InTx(j), InTx(job[v])
      PROVE  job[v].held \cap j.held = {}
  BY <1>4, LockedInTx
<1>5. \A v \in Worker : JobKnown(job'[v], bundles', historical')
  BY <1>1, <1>3
<1>6. \A u, v \in Worker :
        u # v /\ InTx(job'[u]) /\ InTx(job'[v]) => job'[u].held \cap job'[v].held = {}
  BY <1>1, <1>4 DEF KnownInv
<1>7. QED
  BY <1>2, <1>5, <1>6 DEF KnownInv

\* ... and writing nothing.
LEMMA KnownReadingStep ==
  ASSUME KnownInv, HandlersInv', RowsKept, NEW w \in Worker, NEW j,
         job' = [job EXCEPT ![w] = j], UNCHANGED <<status, bundles, historical>>,
         JobKnown(j, bundles, historical), InTx(j) => j.held \cap LockedFor(w) = {}
  PROVE  KnownInv' /\ NoRegress
<1>1. \A e \in Entity : status'[e] = "complete" => Converted(bundles'[e])
  BY DEF KnownInv
<1>2. KnownInv'
  BY <1>1, KnownWorkerStep
<1>3. QED
  BY <1>2 DEF NoRegress

LEMMA KnownTakeStep ==
  ASSUME AllKnown, KnownInv, NEW w \in Worker, Take(w)
  PROVE  KnownInv' /\ NoRegress
<1>0. HandlersInv' /\ RowsKept
  BY TakeStep DEF KnownInv
<1>1. ASSUME NEW e \in Entity, NEW b \in EventBundle, NEW ok \in BOOLEAN,
             TakeConversion(w, e, b[1], b[2], ok)
      PROVE  KnownInv' /\ NoRegress
  <2> DEFINE pc == CASE status[e] = NoRow      -> "readHistorical"
                     [] status[e] = "obsolete" -> "storeBundle"
                     [] OTHER                  -> "begin"
             j == [NewJob("conversion", pc) EXCEPT
                     !.entity = e, !.result = <<b[1], b[2], ok>>,
                     !.previous = bundles[e][b[1]][b[2]]]
  <2>1. job' = [job EXCEPT ![w] = j] /\ UNCHANGED <<status, bundles, historical>>
    BY <1>1 DEF TakeConversion, Goto, Tables
  <2>2. pc \in {"readHistorical", "storeBundle", "begin"}
        /\ (pc = "readHistorical" => status[e] = NoRow)
    BY DEF NoRow
  <2>3. j.pc = pc /\ j.entity = e
    BY DEF NewJob
  <2> HIDE DEF j, pc
  <2>4. JobKnown(j, bundles, historical) /\ ~InTx(j)
    BY <2>2, <2>3 DEF JobKnown, InTx, KnownInv
  <2>5. QED
    BY <1>0, <2>1, <2>4, KnownReadingStep
<1>2. ASSUME NEW c \in World, NEW t \in EventTime, TakeWorldUndeployment(w, c, t)
      PROVE  KnownInv' /\ NoRegress
  <2>1. PICK ids \in SUBSET Entity :
          job' = [job EXCEPT ![w] = [NewJob("undeployment", "undeploy") EXCEPT
                                       !.world = c, !.time = t, !.rows = ids]]
    BY <1>2 DEF TakeWorldUndeployment, Goto
  <2> DEFINE j == [NewJob("undeployment", "undeploy") EXCEPT
                     !.world = c, !.time = t, !.rows = ids]
  <2>2. j.pc = "undeploy"
    BY DEF NewJob
  <2>3. JobKnown(j, bundles, historical) /\ ~InTx(j)
    BY <2>2 DEF JobKnown, InTx
  <2> HIDE DEF j
  <2>4. job' = [job EXCEPT ![w] = j]
    BY <2>1 DEF j
  <2>5. QED
    BY <1>0, <1>2, <2>3, <2>4, KnownReadingStep DEF TakeWorldUndeployment, Tables
<1>3. ASSUME NEW c \in World, NEW t \in EventTime, NEW ids \in SUBSET Entity,
             UndeployScenesRows(w, ids, c, t)
      PROVE  KnownInv' /\ NoRegress
  <2>1. /\ status \in StatusColumn /\ status' = Undeployed(status, ids, c, t)
        /\ UNCHANGED <<bundles, historical, job>>
    BY <1>3
    DEF KnownInv, HandlersInv, TypeOK, StatusColumn, UndeployScenesRows, UndeployRows
  <2>2. \A x \in Entity : status'[x] \in {status[x], "obsolete"}
    BY <2>1, UndeployedEffect
  <2>3. QED
    BY <1>0, <2>1, <2>2 DEF KnownInv, RowsKept, NoRegress
<1>4. QED
  BY <1>1, <1>2, <1>3 DEF Take, AllKnown

LEMMA KnownReadHistoricalStep ==
  ASSUME KnownInv, NEW w \in Worker, ReadHistorical(w)
  PROVE  KnownInv' /\ NoRegress
<1>1. job[w].entity \in historical
  BY DEF KnownInv, JobKnown, ReadHistorical, At
<1>2. job' = [job EXCEPT ![w] = Idle] /\ UNCHANGED <<status, bundles, historical>>
  BY <1>1 DEF ReadHistorical, Finish, Goto, Tables
<1>3. HandlersInv' /\ RowsKept
  BY ReadHistoricalStep DEF KnownInv
<1>4. QED
  BY <1>2, <1>3, IdleKnown, KnownReadingStep

\* Nobody inserts.
LEMMA KnownInsertsNothing ==
  ASSUME KnownInv, NEW w \in Worker, ReadRelated(w) \/ Insert(w) \/ UpdateFallback(w)
  PROVE  FALSE
  BY DEF KnownInv, JobKnown, ReadRelated, Insert, UpdateFallback, At

LEMMA KnownStoreBundleStep ==
  ASSUME KnownInv, NEW w \in Worker, StoreBundle(w)
  PROVE  KnownInv' /\ NoRegress
<1> DEFINE e == job[w].entity
<1>1. HandlersInv /\ HandlersInv' /\ RowsKept
  BY StoreBundleStep DEF KnownInv
<1>2. /\ e \in Entity /\ e \notin LockedFor(w)
      /\ bundles' = [bundles EXCEPT ![e] = IF Exists(e) THEN ResultBundles(w) ELSE @]
      /\ UNCHANGED <<status, historical>>
      /\ job' = [job EXCEPT ![w] = Idle]
  BY <1>1, JobParts DEF StoreBundle, At, Finish, Goto
<1>3. bundles \in [Entity -> Bundles]
  BY <1>1 DEF HandlersInv, TypeOK
<1>4. Converted(bundles[e]) => Converted(bundles'[e])
  <2>1. PICK t \in BundleType, p \in Platform, s \in {"complete", "failed"} :
          ResultBundles(w) = WithBundle(bundles[e], t, p, s)
    BY <1>1, ResultBundlesType DEF StoreBundle
  <2>2. Converted(bundles[e]) => Converted(ResultBundles(w))
    BY <1>2, <1>3, <2>1, WithBundleConverted
  <2> HIDE DEF e
  <2>3. bundles'[e] \in {bundles[e], ResultBundles(w)}
    BY <1>2, <1>3
  <2>4. QED
    BY <2>2, <2>3
<1> HIDE DEF e
<1>5. /\ \A x \in Entity : status'[x] = "complete" => Converted(bundles'[x])
      /\ \A x \in LockedFor(w) : bundles'[x] = bundles[x]
  <2>1. \A x : x # e => bundles'[x] = bundles[x]
    BY <1>2, <1>3
  <2>2. QED
    BY <1>2, <1>4, <2>1 DEF KnownInv
<1>6. KnownInv'
  BY <1>1, <1>2, <1>5, IdleKnown, KnownWorkerStep
<1>7. QED
  BY <1>2, <1>6 DEF NoRegress

LEMMA KnownBeginStep ==
  ASSUME KnownInv, NEW w \in Worker, Begin(w)
  PROVE  KnownInv' /\ NoRegress
<1> DEFINE e == job[w].entity
           j == [job[w] EXCEPT !.pc = "readRelatedInTx", !.held = {e},
                               !.bundles = ResultBundles(w)]
<1>1. HandlersInv /\ HandlersInv' /\ RowsKept
  BY BeginStep DEF KnownInv
<1>2. /\ job[w] \in Job /\ e \in Entity /\ bundles[e] \in Bundles
      /\ e \notin LockedFor(w)
      /\ UNCHANGED <<status, bundles, historical>>
  BY <1>1, JobParts DEF Begin, At, Tables, HandlersInv, TypeOK
<1>3. CASE job' = [job EXCEPT ![w] = Idle]
  BY <1>1, <1>2, <1>3, IdleKnown, KnownReadingStep
<1>4. CASE job' = [job EXCEPT ![w] = j]
  <2>1. PICK t \in BundleType, p \in Platform, s \in {"complete", "failed"} :
          ResultBundles(w) = WithBundle(bundles[e], t, p, s)
    BY <1>1, ResultBundlesType DEF Begin
  <2>2. Converted(bundles[e]) => Converted(ResultBundles(w))
    BY <1>2, <2>1, WithBundleConverted
  <2>3. /\ j.pc = "readRelatedInTx" /\ j.held = {e} /\ j.entity = e
        /\ j.bundles = ResultBundles(w)
    BY <1>2 DEF Job
  <2> HIDE DEF j, e
  <2>4. JobKnown(j, bundles, historical)
    BY <2>2, <2>3 DEF JobKnown
  <2>5. j.held \cap LockedFor(w) = {}
    BY <1>2, <2>3
  <2>6. QED
    BY <1>1, <1>2, <1>4, <2>4, <2>5, KnownReadingStep
<1>5. QED
  BY <1>3, <1>4 DEF Begin, Goto, Finish

\* The locks of the transaction w is in are its own.
LEMMA OwnLocks ==
  ASSUME KnownInv, NEW w \in Worker, InTx(job[w])
  PROVE  job[w].held \cap LockedFor(w) = {}
  BY DEF KnownInv, LockedFor, HeldBy, InTx, At

LEMMA KnownReadRelatedInTxStep ==
  ASSUME KnownInv, NEW w \in Worker, ReadRelatedInTx(w)
  PROVE  KnownInv' /\ NoRegress
<1> DEFINE e == job[w].entity
           b == job[w].bundles
           s == DetermineStatus(status, e, b)
           rows == IF s \in {"complete", "obsolete"} THEN NotNewer(status, e) ELSE {}
           j == [job[w] EXCEPT !.pc = "rotate", !.next = s, !.rows = rows]
<1>1. HandlersInv /\ HandlersInv' /\ RowsKept
  BY ReadRelatedInTxStep DEF KnownInv
<1>2. job[w] \in Job /\ b \in Bundles /\ InTx(job[w])
  BY <1>1, JobParts DEF ReadRelatedInTx, At, InTx
<1>3. job' = [job EXCEPT ![w] = j] /\ UNCHANGED <<status, bundles, historical>>
  BY DEF ReadRelatedInTx, Goto, Tables
<1>4. /\ s = "pending" => ~Converted(b)
      /\ s = "complete" => Converted(b)
  BY <1>2, DetermineStatusType, VerdictConverted
<1>5. /\ j.pc = "rotate" /\ j.next = s /\ j.bundles = b /\ j.entity = e
      /\ j.held = job[w].held
  <2> HIDE DEF s, rows
  <2>1. QED
    BY <1>2 DEF Job
<1> HIDE DEF j
<1>6. JobKnown(j, bundles, historical)
  <2>1. e \in job[w].held /\ (Converted(bundles[e]) => Converted(b))
    BY <1>2 DEF KnownInv, JobKnown
  <2> HIDE DEF e, b, s
  <2>2. QED
    BY <1>4, <1>5, <2>1 DEF JobKnown
<1>7. j.held \cap LockedFor(w) = {}
  BY <1>2, <1>5, OwnLocks
<1>8. QED
  BY <1>1, <1>3, <1>6, <1>7, KnownReadingStep

LEMMA KnownRotateRowStep ==
  ASSUME KnownInv, NEW w \in Worker, NEW x \in Entity, RotateRow(w, x)
  PROVE  KnownInv' /\ NoRegress
<1> DEFINE held == IF Exists(x) THEN job[w].held \cup {x} ELSE job[w].held
           j == [job[w] EXCEPT !.rows = @ \ {x}, !.held = held]
<1>1. HandlersInv /\ HandlersInv' /\ RowsKept
  BY RotateRowStep DEF KnownInv
<1>2. job[w] \in Job /\ InTx(job[w]) /\ job[w].pc = "rotate" /\ x \notin LockedFor(w)
  BY <1>1, JobParts DEF RotateRow, At, InTx
<1>3. job' = [job EXCEPT ![w] = j] /\ UNCHANGED <<status, bundles, historical>>
  BY <1>2 DEF RotateRow, Goto, Tables, Job
<1>4. /\ j.pc = "rotate" /\ j.next = job[w].next /\ j.bundles = job[w].bundles
      /\ j.entity = job[w].entity /\ j.held = held
  <2> HIDE DEF held
  <2>1. QED
    BY <1>2 DEF Job
<1> HIDE DEF j
<1>5. JobKnown(j, bundles, historical)
  BY <1>2, <1>4 DEF KnownInv, JobKnown, InTx
<1>6. j.held \cap LockedFor(w) = {}
  BY <1>2, <1>4, OwnLocks
<1>7. QED
  BY <1>1, <1>3, <1>5, <1>6, KnownReadingStep

LEMMA KnownCommitStep ==
  ASSUME KnownInv, NEW w \in Worker, Commit(w)
  PROVE  KnownInv' /\ NoRegress
<1> DEFINE e == job[w].entity
           s == job[w].next
           b == job[w].bundles
<1>1. HandlersInv /\ HandlersInv' /\ RowsKept
  BY CommitStep DEF KnownInv
<1>2. /\ e \in Entity /\ e \in job[w].held /\ InTx(job[w])
      /\ Converted(bundles[e]) => Converted(b)
      /\ s = "pending" => ~Converted(b)
      /\ s = "complete" => Converted(b)
  BY <1>1, JobParts DEF Commit, At, KnownInv, JobKnown, InTx
<1>3. /\ status' = [x \in Entity |-> IF x = e THEN s
                                     ELSE IF x \in job[w].held THEN "obsolete"
                                     ELSE status[x]]
      /\ bundles' = [bundles EXCEPT ![e] = b]
      /\ UNCHANGED historical
      /\ job' = [job EXCEPT ![w] = Idle]
  BY DEF Commit, Finish, Goto
<1>4. e \notin LockedFor(w)
  BY <1>2, OwnLocks
<1> HIDE DEF e, s, b
<1>5. bundles'[e] = b /\ \A x : x # e => bundles'[x] = bundles[x]
  BY <1>1, <1>2, <1>3 DEF HandlersInv, TypeOK
<1>6. /\ \A x \in Entity : status'[x] = "complete" => Converted(bundles'[x])
      /\ \A x \in LockedFor(w) : bundles'[x] = bundles[x]
  BY <1>2, <1>3, <1>4, <1>5 DEF KnownInv
<1>7. KnownInv'
  BY <1>1, <1>3, <1>6, IdleKnown, KnownWorkerStep
<1>8. NoRegress
  BY <1>2, <1>3 DEF KnownInv, NoRegress
<1>9. QED
  BY <1>7, <1>8

LEMMA KnownUndeployStep ==
  ASSUME KnownInv, NEW w \in Worker, UndeployWorldRows(w)
  PROVE  KnownInv' /\ NoRegress
<1>1. HandlersInv /\ HandlersInv' /\ RowsKept
  BY UndeployWorldRowsStep DEF KnownInv
<1>2. /\ \E ids, c, t : status' = Undeployed(status, ids, c, t)
      /\ UNCHANGED <<bundles, historical>>
      /\ job' = [job EXCEPT ![w] = Idle]
  BY DEF UndeployWorldRows, UndeployRows, Finish, Goto
<1>3. status \in StatusColumn
  BY <1>1 DEF HandlersInv, TypeOK, StatusColumn
<1>4. \A x \in Entity : status'[x] \in {status[x], "obsolete"}
  BY <1>2, <1>3, UndeployedEffect
<1>5. \A x \in Entity : status'[x] = "complete" => Converted(bundles'[x])
  BY <1>2, <1>4 DEF KnownInv
<1>6. KnownInv'
  BY <1>1, <1>2, <1>5, IdleKnown, KnownWorkerStep
<1>7. QED
  BY <1>4, <1>6 DEF NoRegress

LEMMA KnownFailStep ==
  ASSUME KnownInv, NEW w \in Worker, Fail(w)
  PROVE  KnownInv' /\ NoRegress
<1>1. Statement(w)
  BY DEF Statement, OtherStatement
<1>2. HandlersInv' /\ RowsKept
  BY <1>1, StatementStep DEF KnownInv
<1>3. job' = [job EXCEPT ![w] = Idle] /\ UNCHANGED <<status, bundles, historical>>
  BY DEF Fail, Finish, Goto, Tables
<1>4. QED
  BY <1>2, <1>3, IdleKnown, KnownReadingStep

\* What the purger deletes nobody has locked.
LEMMA KnownPurgerStep ==
  ASSUME KnownInv, Purger
  PROVE  KnownInv' /\ NoRegress
<1>1. HandlersInv /\ HandlersInv' /\ RowsKept
  BY PurgerStep DEF KnownInv
<1>2. historical \subseteq historical' /\ UNCHANGED job
  BY DEF Purger, PurgeSelect, PurgeCopyRow, PurgeDeleteRows, Tables
<1>3. /\ \A e \in Entity : status'[e] \in {status[e], NoRow}
      /\ \A e \in Entity : status'[e] # NoRow => bundles'[e] = bundles[e]
      /\ \A e \in HeldBy(Worker) : bundles'[e] = bundles[e]
  <2>1. CASE UNCHANGED <<status, bundles>>
    BY <2>1
  <2>2. CASE /\ purge.copied \cap HeldBy(Worker) = {}
             /\ status' = [e \in Entity |-> IF e \in purge.copied THEN NoRow ELSE status[e]]
             /\ bundles' = [e \in Entity |->
                              IF e \in purge.copied THEN PendingBundles ELSE bundles[e]]
    <3>1. HeldBy(Worker) \subseteq Entity
      BY <1>1, JobParts DEF HeldBy, At
    <3>2. QED
      BY <2>2, <3>1
  <2>3. QED
    BY <2>1, <2>2 DEF Purger, PurgeSelect, PurgeCopyRow, PurgeDeleteRows, Tables
<1>4. ASSUME NEW v \in Worker PROVE JobKnown(job'[v], bundles', historical')
  <2>1. JobKnown(job[v], bundles, historical)
    BY DEF KnownInv
  <2>2. InTx(job[v]) => job[v].entity \in HeldBy(Worker)
    BY <2>1 DEF JobKnown, InTx, HeldBy, At
  <2>3. QED
    BY <1>2, <1>3, <2>1, <2>2 DEF JobKnown
<1>5. /\ \A e \in Entity : status'[e] = NoRow => e \in historical'
      /\ \A e \in Entity : status'[e] = "complete" => Converted(bundles'[e])
  BY <1>1, <1>3 DEF KnownInv, RowsKept, NoRow
<1>6. KnownInv'
  BY <1>1, <1>2, <1>4, <1>5 DEF KnownInv
<1>7. QED
  BY <1>3, <1>6 DEF NoRegress, NoRow

LEMMA KnownStep ==
  ASSUME AllKnown, KnownInv, [HandlersNext]_handlerVars
  PROVE  KnownInv' /\ NoRegress
<1>1. CASE UNCHANGED handlerVars
  <2>1. HandlersInv' /\ RowsKept
    BY HandlersStep DEF KnownInv
  <2>2. QED
    BY <1>1, <2>1 DEF handlerVars, KnownInv, NoRegress
<1>2. ASSUME NEW w \in Worker, Statement(w) PROVE KnownInv' /\ NoRegress
  BY <1>2, KnownReadHistoricalStep, KnownInsertsNothing, KnownStoreBundleStep,
     KnownBeginStep, KnownReadRelatedInTxStep, KnownRotateRowStep, KnownCommitStep,
     KnownUndeployStep, KnownFailStep
  DEF Statement, OtherStatement
<1>3. QED
  BY <1>1, <1>2, KnownTakeStep, KnownPurgerStep DEF HandlersNext

LEMMA KnownInitially ==
  ASSUME AllKnown, HandlersInit
  PROVE  KnownInv
<1>1. HandlersInv
  BY HandlersInitially
<1>2. \A e \in Entity : status[e] = "pending"
  BY DEF HandlersInit, AllKnown
<1>3. \A w \in Worker : job[w] = Idle
  BY DEF HandlersInit
<1>4. QED
  BY <1>1, <1>2, <1>3, IdleKnown DEF KnownInv, NoRow

(* What component.ts says of the atomic update, for every registry that is   *)
(* known: however many workers handle conversions of it, with failures,      *)
(* deadlocks, undeployments and the purger in between, a stale one does not  *)
(* overwrite COMPLETE with PENDING. The row lock is what the argument needs. *)
THEOREM CompleteStays == ASSUME AllKnown PROVE HandlersSpec => CompleteNeverPending
<1>1. HandlersInit => KnownInv
  BY KnownInitially
<1>2. KnownInv /\ [HandlersNext]_<<handlerVars, request>> => KnownInv'
  BY KnownStep
<1>3. KnownInv /\ [HandlersNext]_<<handlerVars, request>> =>
        [\A e \in Entity : status[e] = "complete" => status'[e] # "pending"]_handlerVars
  BY KnownStep DEF NoRegress
<1>4. QED
  BY <1>1, <1>2, <1>3, PTL DEF HandlersSpec, CompleteNeverPending

-----------------------------------------------------------------------------
(* What a transaction that completes its entity has seen                     *)

\* The rows the query of related registries passes over.
Gone(s) == s \in {NoRow, "obsolete"}

(* What the transaction of j will replace, and what may be served before it  *)
(* commits.  An older registry it does not lock was OBSOLETE when it looked, *)
(* and a newer one that completes since then did not lock its entity, which  *)
(* was therefore OBSOLETE.                                                   *)
JobSees(j, st, rev) ==
  /\ InTx(j) => st[j.entity] # NoRow
  /\ j.pc = "rotate" => j.next # "fallback"
  /\ j.pc = "rotate" /\ j.next = "complete" =>
       \A x \in Entity : Overlap(j.entity, x) =>
         /\ TimestampOf[x] <= TimestampOf[j.entity] =>
              Gone(st[x]) \/ x \in j.rows \/ x \in j.held \/ x \in rev
         /\ TimestampOf[x] > TimestampOf[j.entity] /\ st[x] \in ServedStatus =>
              j.entity \in rev \/ st[j.entity] = "obsolete"

ConversionsInv ==
  /\ KnownInv
  /\ \A w \in Worker : JobSees(job[w], status, revived)
  /\ DisjointUnlessRevived

LEMMA IdleSees == ASSUME NEW st, NEW rev PROVE JobSees(Idle, st, rev)
  BY DEF JobSees, InTx, Idle

\* A step that completes nothing: rows stay, become OBSOLETE or are deleted.
Quiet ==
  \A x \in Entity :
    status'[x] # status[x] => status[x] # NoRow /\ Gone(status'[x])

LEMMA QuietKeepsSight ==
  ASSUME NEW j, j = Idle \/ j.entity \in Entity, JobSees(j, status, revived),
         revived \subseteq revived',
         Quiet, InTx(j) => status'[j.entity] = status[j.entity]
  PROVE  JobSees(j, status', revived')
<1>1. CASE j = Idle
  BY <1>1, IdleSees
<1>2. CASE j.entity \in Entity
  BY <1>2 DEF JobSees, Quiet, Gone, InTx, ServedStatus, NoRow
<1>3. QED
  BY <1>1, <1>2

LEMMA QuietKeepsDisjoint ==
  ASSUME DisjointUnlessRevived, revived \subseteq revived', Quiet
  PROVE  DisjointUnlessRevived'
<1>1. \A x \in Entity : Served(x)' => Served(x)
  BY DEF Quiet, Served, ServedStatus, Gone, NoRow
<1>2. QED
  BY <1>1 DEF DisjointUnlessRevived

\* A step of worker w that leaves the status of what others have locked alone.
LEMMA QuietStep ==
  ASSUME ConversionsInv, KnownInv', Revive, Quiet,
         NEW w \in Worker, NEW j, job' = [job EXCEPT ![w] = j],
         JobSees(j, status', revived'),
         \A x \in LockedFor(w) : status'[x] = status[x]
  PROVE  ConversionsInv'
<1>1. revived \subseteq revived'
  BY DEF Revive
<1>2. ASSUME NEW v \in Worker, v # w PROVE JobSees(job[v], status', revived')
  <2>1. JobSees(job[v], status, revived) /\ JobKnown(job[v], bundles, historical)
    BY DEF ConversionsInv, KnownInv
  <2>2. job[v] = Idle \/ job[v].entity \in Entity
    BY JobParts DEF ConversionsInv, KnownInv, HandlersInv, Job
  <2>3. InTx(job[v]) => status'[job[v].entity] = status[job[v].entity]
    BY <1>2, <2>1, LockedInTx DEF JobKnown
  <2>4. QED
    BY <1>1, <2>1, <2>2, <2>3, QuietKeepsSight
<1>3. \A v \in Worker : job'[v] = IF v = w THEN j ELSE job[v]
  BY DEF ConversionsInv, KnownInv, HandlersInv
<1>4. \A v \in Worker : JobSees(job'[v], status', revived')
  BY <1>2, <1>3
<1>5. DisjointUnlessRevived'
  BY <1>1, QuietKeepsDisjoint DEF ConversionsInv
<1>6. QED
  BY <1>4, <1>5 DEF ConversionsInv

\* ... in particular one that changes no status.
LEMMA SeesReadingStep ==
  ASSUME ConversionsInv, KnownInv', Revive, NEW w \in Worker, NEW j,
         job' = [job EXCEPT ![w] = j], UNCHANGED status, JobSees(j, status, revived)
  PROVE  ConversionsInv'
<1>1. Quiet /\ revived \subseteq revived'
  BY DEF Quiet, Revive
<1>2. JobSees(j, status', revived')
  BY <1>1 DEF JobSees
<1>3. QED
  BY <1>1, <1>2, QuietStep

LEMMA SeesTakeStep ==
  ASSUME AllKnown, ConversionsInv, Revive, NEW w \in Worker, Take(w)
  PROVE  ConversionsInv'
<1>0. KnownInv' /\ KnownInv /\ status \in StatusColumn
  BY KnownTakeStep DEF ConversionsInv, KnownInv, HandlersInv, TypeOK, StatusColumn
<1>1. ASSUME NEW c \in World, NEW t \in EventTime, NEW ids \in SUBSET Entity,
             UndeployScenesRows(w, ids, c, t)
      PROVE  ConversionsInv'
  <2>1. /\ status' = Undeployed(status, ids, c, t) /\ job' = job
        /\ {x \in Entity : status'[x] # status[x]} \cap LockedFor(w) = {}
        /\ At(w, "idle")
    BY <1>1 DEF UndeployScenesRows, UndeployRows
  <2>2. Quiet
    BY <1>0, <2>1, UndeployedEffect DEF Quiet, Gone
  <2>3. \A x \in LockedFor(w) : status'[x] = status[x]
    <3>1. LockedFor(w) \subseteq Entity
      BY <1>0, JobParts DEF KnownInv, LockedFor, HeldBy, At
    <3>2. QED
      BY <2>1, <3>1
  <2>4. job[w] = Idle
    BY <1>0, <2>1 DEF KnownInv, HandlersInv, Job, At
  <2>5. job' = [job EXCEPT ![w] = Idle]
    BY <1>0, <2>1, <2>4 DEF KnownInv, HandlersInv
  <2>6. QED
    BY <1>0, <2>2, <2>3, <2>5, IdleSees, QuietStep
<1>2. ASSUME NEW j, job' = [job EXCEPT ![w] = j], UNCHANGED status,
             j.pc \notin {"readRelatedInTx", "rotate"}
      PROVE  ConversionsInv'
  <2>1. JobSees(j, status, revived)
    BY <1>2 DEF JobSees, InTx
  <2>2. QED
    BY <1>0, <1>2, <2>1, SeesReadingStep
<1>3. ASSUME NEW e \in Entity, NEW b \in EventBundle, NEW ok \in BOOLEAN,
             TakeConversion(w, e, b[1], b[2], ok)
      PROVE  ConversionsInv'
  <2> DEFINE pc == CASE status[e] = NoRow      -> "readHistorical"
                     [] status[e] = "obsolete" -> "storeBundle"
                     [] OTHER                  -> "begin"
             j == [NewJob("conversion", pc) EXCEPT
                     !.entity = e, !.result = <<b[1], b[2], ok>>,
                     !.previous = bundles[e][b[1]][b[2]]]
  <2>1. job' = [job EXCEPT ![w] = j] /\ UNCHANGED status
    BY <1>3 DEF TakeConversion, Goto, Tables
  <2>2. pc \in {"readHistorical", "storeBundle", "begin"}
    BY DEF NoRow
  <2>3. j.pc = pc
    BY DEF NewJob
  <2> HIDE DEF j, pc
  <2>4. QED
    BY <1>2, <2>1, <2>2, <2>3
<1>4. ASSUME NEW c \in World, NEW t \in EventTime, TakeWorldUndeployment(w, c, t)
      PROVE  ConversionsInv'
  <2>1. PICK ids \in SUBSET Entity :
          job' = [job EXCEPT ![w] = [NewJob("undeployment", "undeploy") EXCEPT
                                       !.world = c, !.time = t, !.rows = ids]]
    BY <1>4 DEF TakeWorldUndeployment, Goto
  <2> DEFINE j == [NewJob("undeployment", "undeploy") EXCEPT
                     !.world = c, !.time = t, !.rows = ids]
  <2>2. j.pc = "undeploy"
    BY DEF NewJob
  <2> HIDE DEF j
  <2>3. job' = [job EXCEPT ![w] = j] /\ UNCHANGED status
    BY <1>4, <2>1 DEF j, TakeWorldUndeployment, Tables
  <2>4. QED
    BY <1>2, <2>2, <2>3
<1>5. QED
  BY <1>1, <1>3, <1>4 DEF Take, AllKnown

LEMMA SeesBeginStep ==
  ASSUME ConversionsInv, Revive, NEW w \in Worker, Begin(w)
  PROVE  ConversionsInv'
<1> DEFINE e == job[w].entity
           j == [job[w] EXCEPT !.pc = "readRelatedInTx", !.held = {e},
                               !.bundles = ResultBundles(w)]
<1>1. KnownInv' /\ UNCHANGED status
  BY KnownBeginStep DEF ConversionsInv, Begin, Tables
<1>2. CASE ~Exists(e)
  BY <1>1, <1>2, IdleSees, SeesReadingStep DEF Begin, Finish, Goto
<1>3. CASE Exists(e)
  <2>1. job' = [job EXCEPT ![w] = j]
    BY <1>3 DEF Begin, Goto
  <2>2. j.pc = "readRelatedInTx" /\ j.entity = e
    BY JobParts DEF Begin, At, Job, ConversionsInv, KnownInv
  <2> HIDE DEF j
  <2>3. JobSees(j, status, revived)
    BY <1>3, <2>2 DEF JobSees, Exists
  <2>4. QED
    BY <1>1, <2>1, <2>3, SeesReadingStep
<1>4. QED
  BY <1>2, <1>3

LEMMA SeesReadRelatedInTxStep ==
  ASSUME ConversionsInv, Revive, NEW w \in Worker, ReadRelatedInTx(w)
  PROVE  ConversionsInv'
<1> DEFINE e == job[w].entity
           s == DetermineStatus(status, e, job[w].bundles)
           rows == IF s \in {"complete", "obsolete"} THEN NotNewer(status, e) ELSE {}
           j == [job[w] EXCEPT !.pc = "rotate", !.next = s, !.rows = rows]
<1>1. KnownInv /\ KnownInv' /\ UNCHANGED status
  BY KnownReadRelatedInTxStep DEF ConversionsInv, ReadRelatedInTx, Tables
<1>2. job' = [job EXCEPT ![w] = j]
  BY DEF ReadRelatedInTx, Goto
<1>3. job[w] \in Job /\ e \in Entity /\ InTx(job[w]) /\ job[w].pc = "readRelatedInTx"
  BY <1>1, JobParts DEF ReadRelatedInTx, At, InTx, KnownInv
<1>4. status[e] # NoRow
  BY <1>3 DEF ConversionsInv, JobSees
<1>5. j.pc = "rotate" /\ j.next = s /\ j.rows = rows /\ j.entity = e
  <2> HIDE DEF s, rows
  <2>1. QED
    BY <1>3 DEF Job
<1>6. s # "fallback" /\ (s = "complete" => \A n \in Newer(status, e) : status[n] \notin ServedStatus)
  BY DetermineStatusType DEF DetermineStatus
<1>7. ASSUME s = "complete", NEW x \in Entity, Overlap(e, x)
      PROVE  /\ TimestampOf[x] <= TimestampOf[e] => Gone(status[x]) \/ x \in rows
             /\ TimestampOf[x] > TimestampOf[e] => status[x] \notin ServedStatus
  <2>1. rows = NotNewer(status, e)
    BY <1>7
  <2>2. TimestampOf[x] \in Nat /\ TimestampOf[e] \in Nat
    BY <1>3, EntityAssumption
  <2>3. ~Gone(status[x]) => x \in Related(status, e)
    BY <1>7 DEF Related, Gone
  <2>4. TimestampOf[x] <= TimestampOf[e] => x \notin Newer(status, e)
    BY <2>2 DEF Newer
  <2>5. TimestampOf[x] > TimestampOf[e] /\ status[x] \in ServedStatus => x \in Newer(status, e)
    BY <2>3 DEF Newer, Gone, ServedStatus, NoRow
  <2>6. QED
    BY <1>6, <1>7, <2>1, <2>3, <2>4, <2>5 DEF NotNewer
<1> HIDE DEF j, s, rows, e
<1>8. JobSees(j, status, revived)
  BY <1>4, <1>5, <1>6, <1>7 DEF JobSees
<1>9. QED
  BY <1>1, <1>2, <1>8, SeesReadingStep

LEMMA SeesRotateRowStep ==
  ASSUME ConversionsInv, Revive, NEW w \in Worker, NEW x \in Entity, RotateRow(w, x)
  PROVE  ConversionsInv'
<1> DEFINE held == IF Exists(x) THEN job[w].held \cup {x} ELSE job[w].held
           j == [job[w] EXCEPT !.rows = @ \ {x}, !.held = held]
<1>1. KnownInv /\ KnownInv' /\ UNCHANGED status
  BY KnownRotateRowStep DEF ConversionsInv, RotateRow, Tables
<1>2. job[w] \in Job /\ job[w].pc = "rotate" /\ InTx(job[w])
  BY <1>1, JobParts DEF RotateRow, At, InTx, KnownInv
<1>3. job' = [job EXCEPT ![w] = j]
  BY <1>2 DEF RotateRow, Goto, Job
<1>4. /\ j.pc = "rotate" /\ j.next = job[w].next /\ j.entity = job[w].entity
      /\ j.rows = job[w].rows \ {x} /\ j.held = held
  <2> HIDE DEF held
  <2>1. QED
    BY <1>2 DEF Job
<1>5. \A y : y \in job[w].rows \/ y \in job[w].held =>
        Gone(status[y]) \/ y \in job[w].rows \ {x} \/ y \in held
  BY DEF Exists, Gone
<1>6. JobSees(job[w], status, revived)
  BY DEF ConversionsInv
<1> HIDE DEF j, held
<1>7. JobSees(j, status, revived)
  BY <1>2, <1>4, <1>5, <1>6 DEF JobSees
<1>8. QED
  BY <1>1, <1>3, <1>7, SeesReadingStep

(* The commit: an older registry served beside the entity escaped its locks  *)
(* because it was revived; where a newer one is served, the entity is.       *)
LEMMA SeesCommitStep ==
  ASSUME ConversionsInv, Revive, NEW w \in Worker, Commit(w)
  PROVE  ConversionsInv'
<1> DEFINE e == job[w].entity
           s == job[w].next
           held == job[w].held
<1>1. KnownInv /\ KnownInv' /\ HandlersInv
  BY KnownCommitStep DEF ConversionsInv, KnownInv
<1>2. /\ status' = [x \in Entity |-> IF x = e THEN s
                                     ELSE IF x \in held THEN "obsolete"
                                     ELSE status[x]]
      /\ job' = [job EXCEPT ![w] = Idle]
      /\ job[w].rows = {}
  BY DEF Commit, Finish, Goto
<1>3. /\ e \in Entity /\ e \in held /\ InTx(job[w]) /\ job[w].pc = "rotate"
  BY <1>1, JobParts DEF Commit, At, KnownInv, JobKnown, InTx
<1>4. JobSees(job[w], status, revived)
  BY DEF ConversionsInv
<1>5. status[e] # NoRow /\ s # "fallback"
  BY <1>3, <1>4 DEF JobSees
<1>6. ASSUME s = "complete", NEW x \in Entity, Overlap(e, x)
      PROVE  /\ TimestampOf[x] <= TimestampOf[e] =>
                  Gone(status[x]) \/ x \in held \/ x \in revived
             /\ TimestampOf[x] > TimestampOf[e] /\ status[x] \in ServedStatus =>
                  e \in revived \/ status[e] = "obsolete"
  BY <1>2, <1>3, <1>4, <1>6 DEF JobSees
<1>7. revived \subseteq revived' /\ (status[e] = "obsolete" /\ ~Gone(s) => e \in revived')
  BY <1>2, <1>3 DEF Revive, Gone
<1>8. ASSUME NEW v \in Worker, v # w PROVE JobSees(job[v], status', revived')
  <2> DEFINE f == job[v].entity
  <2>1. JobSees(job[v], status, revived) /\ JobKnown(job[v], bundles, historical)
    BY <1>1 DEF ConversionsInv, KnownInv
  <2>2. SUFFICES ASSUME InTx(job[v]) PROVE JobSees(job[v], status', revived')
    BY DEF JobSees, InTx
  <2>3. f \in Entity /\ f \in job[v].held /\ f \notin held /\ f # e
    BY <1>1, <1>3, <1>8, <2>1, <2>2, JobParts DEF KnownInv, JobKnown, InTx, At
  <2>4. status'[f] = status[f] /\ status[f] # NoRow
    BY <1>2, <2>1, <2>2, <2>3 DEF JobSees
  <2>5. ASSUME job[v].pc = "rotate", job[v].next = "complete", NEW x \in Entity, Overlap(f, x),
               TimestampOf[x] <= TimestampOf[f]
        PROVE  Gone(status'[x]) \/ x \in job[v].rows \/ x \in job[v].held \/ x \in revived'
    <3>1. Gone(status[x]) \/ x \in job[v].rows \/ x \in job[v].held \/ x \in revived
      BY <2>1, <2>5 DEF JobSees
    <3>2. CASE x = e
      BY <1>2, <1>5, <1>7, <3>1, <3>2 DEF Gone
    <3>3. CASE x # e
      BY <1>2, <1>7, <3>1, <3>3 DEF Gone
    <3>4. QED
      BY <3>2, <3>3
  <2>6. ASSUME job[v].pc = "rotate", job[v].next = "complete", NEW x \in Entity, Overlap(f, x),
               TimestampOf[x] > TimestampOf[f], status'[x] \in ServedStatus
        PROVE  f \in revived' \/ status'[f] = "obsolete"
    <3>1. CASE x = e
      <4>1. s = "complete"
        BY <1>2, <1>5, <2>6, <3>1 DEF ServedStatus
      <4>2. Overlap(e, f) /\ TimestampOf[f] <= TimestampOf[e]
        BY <1>3, <2>3, <2>6, <3>1, OverlapSymmetric, EntityAssumption
      <4>3. Gone(status[f]) \/ f \in revived
        BY <1>6, <2>3, <4>1, <4>2
      <4>4. QED
        BY <1>7, <2>4, <4>3 DEF Gone
    <3>2. CASE x # e
      <4>1. status[x] \in ServedStatus
        BY <1>2, <2>6, <3>2 DEF ServedStatus
      <4>2. f \in revived \/ status[f] = "obsolete"
        BY <2>1, <2>6, <4>1 DEF JobSees
      <4>3. QED
        BY <1>7, <2>4, <4>2
    <3>3. QED
      BY <3>1, <3>2
  <2>7. job[v].pc = "rotate" => job[v].next # "fallback"
    BY <2>1 DEF JobSees
  <2>8. QED
    BY <2>4, <2>5, <2>6, <2>7 DEF JobSees
<1>9. ASSUME NEW x \in Entity, s = "complete", Overlap(e, x), status'[x] \in ServedStatus
      PROVE  OldestOf({e, x}) \cap revived' # {}
  <2>1. x # e /\ x \notin held /\ status[x] \in ServedStatus
    BY <1>2, <1>9 DEF Overlap, ServedStatus
  <2>2. TimestampOf[x] \in Nat /\ TimestampOf[e] \in Nat
    BY <1>3, EntityAssumption
  <2>3. CASE TimestampOf[x] <= TimestampOf[e]
    <3>1. x \in revived'
      BY <1>6, <1>7, <1>9, <2>1, <2>3 DEF Gone, ServedStatus, NoRow
    <3>2. x \in OldestOf({e, x})
      BY <2>2, <2>3 DEF OldestOf
    <3>3. QED
      BY <3>1, <3>2
  <2>4. CASE TimestampOf[x] > TimestampOf[e]
    <3>1. e \in revived'
      BY <1>6, <1>7, <1>9, <2>1, <2>4 DEF Gone, NoRow
    <3>2. e \in OldestOf({e, x})
      BY <2>2, <2>4 DEF OldestOf
    <3>3. QED
      BY <3>1, <3>2
  <2>5. QED
    BY <2>2, <2>3, <2>4
<1>10. DisjointUnlessRevived'
  <2> SUFFICES ASSUME NEW x \in Entity, NEW y \in Entity,
                      Served(x)', Served(y)', Overlap(x, y)
               PROVE  OldestOf({x, y}) \cap revived' # {}
    BY DEF DisjointUnlessRevived, OldestOf
  <2>1. status'[x] \in ServedStatus /\ status'[y] \in ServedStatus
    BY DEF Served
  <2>2. ASSUME NEW z \in Entity, z # e, status'[z] \in ServedStatus PROVE Served(z)
    BY <1>2, <2>2 DEF Served, ServedStatus
  <2>3. CASE x # e /\ y # e
    BY <1>7, <2>1, <2>2, <2>3 DEF ConversionsInv, DisjointUnlessRevived
  <2>4. status'[e] \in ServedStatus => s = "complete"
    BY <1>2, <1>3, <1>5 DEF ServedStatus
  <2>5. CASE x = e
    BY <1>9, <2>1, <2>4, <2>5
  <2>6. CASE y = e
    <3>1. OldestOf({e, x}) \cap revived' # {}
      BY <1>9, <2>1, <2>4, <2>6, OverlapSymmetric
    <3>2. {e, x} = {x, y}
      BY <2>6
    <3>3. QED
      BY <3>1, <3>2
  <2>7. QED
    BY <2>3, <2>5, <2>6
<1>11. \A v \in Worker : JobSees(job'[v], status', revived')
  <2>1. \A v \in Worker : job'[v] = IF v = w THEN Idle ELSE job[v]
    BY <1>1, <1>2 DEF HandlersInv
  <2>2. QED
    BY <1>8, <2>1, IdleSees
<1>12. QED
  BY <1>1, <1>10, <1>11 DEF ConversionsInv

LEMMA SeesUndeployStep ==
  ASSUME ConversionsInv, Revive, NEW w \in Worker, UndeployWorldRows(w)
  PROVE  ConversionsInv'
<1>1. KnownInv /\ KnownInv' /\ status \in StatusColumn
  BY KnownUndeployStep DEF ConversionsInv, KnownInv, HandlersInv, TypeOK, StatusColumn
<1>2. /\ \E ids, c, t : status' = Undeployed(status, ids, c, t)
      /\ {x \in Entity : status'[x] # status[x]} \cap LockedFor(w) = {}
      /\ job' = [job EXCEPT ![w] = Idle]
  BY DEF UndeployWorldRows, UndeployRows, Finish, Goto
<1>3. Quiet
  BY <1>1, <1>2, UndeployedEffect DEF Quiet, Gone
<1>4. LockedFor(w) \subseteq Entity
  BY <1>1, JobParts DEF KnownInv, LockedFor, HeldBy, At
<1>5. QED
  BY <1>1, <1>2, <1>3, <1>4, IdleSees, QuietStep

\* Handlers that end without having changed a status.
LEMMA SeesEndingStep ==
  ASSUME ConversionsInv, Revive, NEW w \in Worker,
         ReadHistorical(w) \/ StoreBundle(w) \/ Fail(w)
  PROVE  ConversionsInv'
<1>1. KnownInv'
  BY KnownReadHistoricalStep, KnownStoreBundleStep, KnownFailStep DEF ConversionsInv
<1>2. UNCHANGED status
  BY DEF ReadHistorical, StoreBundle, Fail, Tables
<1>3. job' = [job EXCEPT ![w] = Idle]
  <2>1. CASE ReadHistorical(w)
    BY <2>1 DEF ConversionsInv, KnownInv, JobKnown, ReadHistorical, At, Finish, Goto
  <2>2. CASE StoreBundle(w) \/ Fail(w)
    BY <2>2 DEF StoreBundle, Fail, Finish, Goto
  <2>3. QED
    BY <2>1, <2>2
<1>4. QED
  BY <1>1, <1>2, <1>3, IdleSees, SeesReadingStep

LEMMA SeesPurgerStep ==
  ASSUME ConversionsInv, Revive, Purger
  PROVE  ConversionsInv'
<1>1. KnownInv /\ KnownInv' /\ HandlersInv
  BY KnownPurgerStep DEF ConversionsInv, KnownInv
<1>2. HeldBy(Worker) \subseteq Entity
  BY <1>1, JobParts DEF HeldBy, At
<1>3. /\ \A x \in Entity : status'[x] = status[x] \/ status'[x] = NoRow
      /\ \A x \in HeldBy(Worker) : status'[x] = status[x]
      /\ UNCHANGED job
  BY <1>2 DEF Purger, PurgeSelect, PurgeCopyRow, PurgeDeleteRows, Tables
<1>4. Quiet
  BY <1>3 DEF Quiet, Gone
<1>5. revived \subseteq revived'
  BY DEF Revive
<1>6. ASSUME NEW v \in Worker PROVE JobSees(job'[v], status', revived')
  <2>1. JobSees(job[v], status, revived) /\ JobKnown(job[v], bundles, historical)
    BY <1>1 DEF ConversionsInv, KnownInv
  <2>2. job[v] = Idle \/ job[v].entity \in Entity
    BY <1>1 DEF HandlersInv, Job
  <2>3. InTx(job[v]) => status'[job[v].entity] = status[job[v].entity]
    BY <1>3, <2>1 DEF JobKnown, InTx, HeldBy, At
  <2>4. QED
    BY <1>3, <1>4, <1>5, <2>1, <2>2, <2>3, QuietKeepsSight
<1>7. DisjointUnlessRevived'
  BY <1>4, <1>5, QuietKeepsDisjoint DEF ConversionsInv
<1>8. QED
  BY <1>1, <1>6, <1>7 DEF ConversionsInv

LEMMA ConversionsStep ==
  ASSUME AllKnown, ConversionsInv, [ConversionsNext]_conversionVars
  PROVE  ConversionsInv'
<1>1. CASE UNCHANGED conversionVars
  <2>1. KnownInv'
    BY <1>1, KnownStep DEF conversionVars, ConversionsInv
  <2>2. QED
    BY <1>1, <2>1
    DEF conversionVars, handlerVars, ConversionsInv, JobSees, DisjointUnlessRevived, Served
<1>2. ASSUME Revive, NEW w \in Worker, Statement(w) PROVE ConversionsInv'
  BY <1>2, KnownInsertsNothing, SeesEndingStep, SeesBeginStep, SeesReadRelatedInTxStep,
     SeesRotateRowStep, SeesCommitStep, SeesUndeployStep
  DEF Statement, OtherStatement, ConversionsInv
<1>3. QED
  BY <1>1, <1>2, SeesTakeStep, SeesPurgerStep DEF ConversionsNext, HandlersNext

(* Conversions of known registries, by any number of workers, with failures, *)
(* deadlocks, undeployments and the purger in between, never serve two       *)
(* registries at one coordinate, but for one revived after the other         *)
(* superseded it: the locks of the transaction leave no other way.           *)
THEOREM ConversionsDisjoint ==
  ASSUME AllKnown PROVE ConversionsSpec => []DisjointUnlessRevived
<1>1. ConversionsInit => ConversionsInv
  <2> SUFFICES ASSUME ConversionsInit PROVE ConversionsInv
    OBVIOUS
  <2>1. KnownInv
    BY KnownInitially DEF ConversionsInit
  <2>2. /\ \A x \in Entity : status[x] = "pending"
        /\ \A w \in Worker : job[w] = Idle
    BY DEF ConversionsInit, HandlersInit, AllKnown
  <2>3. DisjointUnlessRevived
    BY <2>2 DEF DisjointUnlessRevived, Served, ServedStatus
  <2>4. QED
    BY <2>1, <2>2, <2>3, IdleSees DEF ConversionsInv
<1>2. ConversionsInv /\ [ConversionsNext]_conversionVars => ConversionsInv'
  BY ConversionsStep
<1>3. ConversionsInv => DisjointUnlessRevived
  BY DEF ConversionsInv
<1>4. QED
  BY <1>1, <1>2, <1>3, PTL DEF ConversionsSpec

-----------------------------------------------------------------------------
(* Requests for the status of entities                                       *)

\* What a table answers with is in the table.
SignedOK ==
  /\ signed \in [registries : SUBSET Entity, batch : SUBSET Entity, historical : SUBSET Entity]
  /\ signed.registries \subseteq {e \in Entity : Exists(e)}
  /\ signed.historical \subseteq historical

\* An id is looked for in the historical table last; then it is owed no more.
RequestOK(r, hist) ==
  /\ "registries" \notin r.unread => r.owed \subseteq hist
  /\ r.archived \subseteq Rows(r.op, "historical")
  /\ "historical" \notin r.unread => r.archived = {}
  /\ r.op = "status" /\ "historical" \notin r.unread => r.owed = {}
  /\ r.op = "status" => \A e, f \in r.about : e = f
  /\ r.unread # {} => r.owed \subseteq r.about
  /\ r.archived \subseteq r.owed

\* Every entity still owed can be answered with from the registries, or was purged.
OwedKnown(r) == \A e \in r.owed : e \in Rows(r.op, "registries") \/ e \in historical

StatusInv ==
  /\ HandlersInv
  /\ SignedOK
  /\ request \in [Request -> RequestState]
  /\ \A q \in Request : RequestOK(request[q], historical) /\ OwedKnown(request[q])

\* Of an owner a table answers with the rows that carry the address, of an id with any.
LEMMA TableRows ==
  /\ \A t \in Table : Rows("owned", t) = signed[t]
  /\ Rows("status", "registries") = {e \in Entity : Exists(e)}
  /\ Rows("status", "historical") = historical
  BY DEF Rows, Table

LEMMA RowsInTables ==
  ASSUME SignedOK, historical \subseteq Entity, NEW op \in {"status", "owned"}
  PROVE  /\ Rows(op, "registries") \subseteq {e \in Entity : Exists(e)}
         /\ Rows(op, "historical") \subseteq historical
         /\ \A t \in Table : Rows(op, t) \subseteq Entity
  BY TableRows DEF SignedOK, Table

LEMMA NoRequestOK ==
  ASSUME NEW hist \in SUBSET Entity
  PROVE  NoRequest \in RequestState /\ RequestOK(NoRequest, hist) /\ OwedKnown(NoRequest)
  BY DEF NoRequest, RequestState, RequestOK, OwedKnown

-----------------------------------------------------------------------------
(* The rest of the service                                                   *)

\* Nothing is ever deleted from the historical table, and requests are left alone.
LEMMA HistoricalGrows ==
  /\ \A w \in Worker : Take(w) \/ Statement(w) => UNCHANGED <<historical, purge, request>>
  /\ Purger => historical \subseteq historical' /\ UNCHANGED request
<1>1. ASSUME NEW w \in Worker, Take(w) PROVE UNCHANGED <<historical, purge, request>>
  BY <1>1 DEF Take, TakeDeployment, TakeConversion, TakeBackfill, TakeWorldUndeployment,
     UndeployScenesRows, UndeployRows, Tables
<1>2. ASSUME NEW w \in Worker, Statement(w) PROVE UNCHANGED <<historical, purge, request>>
  BY <1>2 DEF Statement, OtherStatement, ReadHistorical, ReadRelated, Insert, UpdateFallback,
     StoreBundle, Begin, ReadRelatedInTx, Commit, RotateRow, UndeployWorldRows, UndeployRows,
     Fail, Tables
<1>3. ASSUME Purger PROVE historical \subseteq historical' /\ UNCHANGED request
  BY <1>3 DEF Purger, PurgeSelect, PurgeCopyRow, PurgeDeleteRows, Tables
<1>4. QED
  BY <1>1, <1>2, <1>3

\* A row that is written keeps the deployer it had, and one that is deleted was purged.
LEMMA SignedStep ==
  ASSUME StatusInv, ServiceNext
  PROVE  /\ SignedOK'
         /\ signed.historical \subseteq signed'.historical
         /\ signed.registries \subseteq signed'.registries \cup historical'
<1>1. TypeOK /\ HandlersInv' /\ RowsKept /\ SignedOK
  <2>1. HandlersNext
    BY DEF ServiceNext, HandlersNext, Statement
  <2>2. QED
    BY <2>1, HandlersStep DEF StatusInv, HandlersInv
<1>2. CASE \E w \in Worker : (Take(w) \/ OtherStatement(w)) /\ UNCHANGED signed
  <2>1. UNCHANGED <<historical, purge, signed>>
    BY <1>2, HistoricalGrows DEF Statement
  <2>2. \A e \in Entity : status[e] # NoRow => status'[e] # NoRow
    BY <1>1, <2>1 DEF RowsKept
  <2>3. QED
    BY <1>1, <2>1, <2>2 DEF SignedOK, Exists
<1>3. ASSUME NEW w \in Worker, Insert(w), signed' = [signed EXCEPT !.registries = Signing(w)]
      PROVE  /\ SignedOK'
             /\ signed.historical \subseteq signed'.historical
             /\ signed.registries \subseteq signed'.registries \cup historical'
  <2>1. UNCHANGED <<historical, purge>>
    BY <1>3, HistoricalGrows DEF Statement
  <2>2. \A e \in Entity : status[e] # NoRow => status'[e] # NoRow
    BY <1>1, <2>1 DEF RowsKept
  <2>3. job[w].entity \in Entity /\ job[w].next \in Status
    BY <1>3, JobParts DEF StatusInv, Insert, At
  <2>4. status'[job[w].entity] # NoRow
    BY <1>1, <1>3, <2>3 DEF Insert, Inserted, TypeOK, Status, NoRow
  <2>5. /\ signed.registries \subseteq signed'.registries
        /\ signed'.registries \subseteq signed.registries \cup {job[w].entity}
        /\ signed'.historical = signed.historical /\ signed'.batch = signed.batch
        /\ signed' \in [registries : SUBSET Entity, batch : SUBSET Entity,
                        historical : SUBSET Entity]
    BY <1>1, <1>3, <2>3 DEF Signing, SignedOK
  <2>6. QED
    BY <1>1, <2>1, <2>2, <2>3, <2>4, <2>5 DEF SignedOK, Exists
<1>4. CASE Purger /\ PurgerSigns
  <2>1. historical \subseteq historical' /\ historical' \subseteq Entity
    BY <1>1, <1>4, HistoricalGrows DEF HandlersInv, TypeOK
  <2>2. /\ signed'.registries = {e \in signed.registries : status'[e] # NoRow}
        /\ signed'.historical =
             signed.historical \cup (signed.batch \cap (historical' \ historical))
        /\ signed'.batch \subseteq signed.registries \cup signed.batch
        /\ signed' \in [registries : SUBSET Entity, batch : SUBSET Entity,
                        historical : SUBSET Entity]
    BY <1>1, <1>4 DEF PurgerSigns, SignedOK
  <2>3. \A e \in signed.registries : status[e] # NoRow
    BY <1>1 DEF SignedOK, Exists
  <2>4. signed.registries \subseteq signed'.registries \cup historical'
    BY <1>1, <2>2, <2>3 DEF RowsKept, SignedOK
  <2>5. signed'.historical \subseteq historical'
    BY <1>1, <2>1, <2>2 DEF SignedOK
  <2>6. QED
    BY <1>1, <2>2, <2>4, <2>5 DEF SignedOK, Exists
<1>5. QED
  BY <1>2, <1>3, <1>4 DEF ServiceNext

LEMMA ServiceStep ==
  ASSUME StatusInv, ServiceNext
  PROVE  StatusInv'
<1>1. HandlersInv' /\ RowsKept /\ historical \subseteq historical' /\ UNCHANGED request
  <2>1. HandlersNext /\ historical \subseteq historical' /\ UNCHANGED request
    BY HistoricalGrows DEF ServiceNext, HandlersNext, Statement
  <2>2. QED
    BY <2>1, HandlersStep DEF StatusInv
<1>2. \A op \in {"status", "owned"} :
        /\ Rows(op, "historical") \subseteq Rows(op, "historical")'
        /\ Rows(op, "registries") \subseteq Rows(op, "registries")' \cup historical'
  <2>1. \A e \in Entity : Exists(e) => Exists(e)' \/ e \in historical'
    BY <1>1 DEF RowsKept, Exists
  <2>2. QED
    BY <1>1, <2>1, SignedStep DEF Rows
<1>3. ASSUME NEW q \in Request
      PROVE  RequestOK(request[q], historical)' /\ OwedKnown(request[q])'
  <2>1. request[q] \in RequestState /\ RequestOK(request[q], historical) /\ request'[q] = request[q]
    BY <1>1 DEF StatusInv
  <2>2. RequestOK(request[q], historical)'
    BY <1>1, <1>2, <2>1 DEF RequestOK, RequestState
  <2>3. OwedKnown(request[q])'
    BY <1>1, <1>2, <2>1 DEF StatusInv, OwedKnown, RequestState
  <2>4. QED
    BY <2>2, <2>3
<1>4. QED
  BY <1>1, <1>3, SignedStep DEF StatusInv

-----------------------------------------------------------------------------
(* The requests                                                              *)

LEMMA OneRequestStep ==
  ASSUME StatusInv, NEW q \in Request, NEW r \in RequestState,
         RequestOK(r, historical), OwedKnown(r),
         request' = [request EXCEPT ![q] = r], UNCHANGED <<handlerVars, signed>>
  PROVE  StatusInv'
<1>1. HandlersInv' /\ UNCHANGED <<status, historical, signed>>
  BY HandlersStep DEF StatusInv, handlerVars
<1>2. request' \in [Request -> RequestState]
  BY DEF StatusInv
<1>3. ASSUME NEW p \in Request
      PROVE  RequestOK(request'[p], historical) /\ OwedKnown(request'[p])
  BY DEF StatusInv
<1>4. ASSUME NEW p \in Request
      PROVE  (RequestOK(request[p], historical) /\ OwedKnown(request[p]))'
  <2>1. \A op \in {"status", "owned"} : /\ Rows(op, "registries")' = Rows(op, "registries")
                                        /\ Rows(op, "historical")' = Rows(op, "historical")
    BY <1>1 DEF Rows, Exists
  <2>2. request'[p].op \in {"status", "owned"}
    BY <1>2 DEF RequestState
  <2> DEFINE k == request'[p]
  <2>3. RequestOK(k, historical) /\ OwedKnown(k)
    BY <1>3
  <2> HIDE DEF k
  <2>4. k.op \in {"status", "owned"} /\ k = request'[p]
    BY <2>2 DEF k
  <2>5. QED
    BY <1>1, <2>1, <2>3, <2>4 DEF RequestOK, OwedKnown
<1>5. SignedOK'
  BY <1>1 DEF StatusInv, SignedOK, Exists
<1>6. QED
  BY <1>1, <1>2, <1>4, <1>5 DEF StatusInv

LEMMA AskStep ==
  ASSUME StatusInv, NEW q \in Request, NEW op \in {"status", "owned"},
         NEW ids \in SUBSET Entity, op = "status" => \A e, f \in ids : e = f, Ask(q, op, ids)
  PROVE  StatusInv'
<1> DEFINE r == [op |-> op, about |-> ids, unread |-> Table,
                 owed |-> ids \cap (Rows(op, "registries") \cup Rows(op, "historical")),
                 archived |-> ids \cap Rows(op, "historical")]
<1>1. r \in RequestState
  BY DEF RequestState, Table
<1>2. Rows(op, "historical") \subseteq historical
  BY RowsInTables DEF StatusInv, HandlersInv, TypeOK
<1>3. /\ r.op = op /\ r.about = ids /\ r.unread = Table
      /\ r.owed = ids \cap (Rows(op, "registries") \cup Rows(op, "historical"))
      /\ r.archived = ids \cap Rows(op, "historical")
  OBVIOUS
<1>4. request' = [request EXCEPT ![q] = r] /\ UNCHANGED <<handlerVars, signed>>
  BY DEF Ask
<1> HIDE DEF r
<1>5. RequestOK(r, historical) /\ OwedKnown(r)
  BY <1>2, <1>3 DEF RequestOK, OwedKnown, Table
<1>6. QED
  BY <1>1, <1>4, <1>5, OneRequestStep

LEMMA QueryStep ==
  ASSUME StatusInv, NEW q \in Request, NEW t \in Table, Query(q, t)
  PROVE  StatusInv'
<1> DEFINE s     == request[q]
           found == s.about \cap Rows(s.op, t)
           left  == IF Settles(q, found) THEN {} ELSE s.unread \ {t}
           r     == [s EXCEPT !.unread = left, !.about = IF left = {} THEN {} ELSE @,
                              !.owed = @ \ found, !.archived = @ \ found]
<1>1. request' = [request EXCEPT ![q] = r] /\ UNCHANGED <<handlerVars, signed>>
  BY DEF Query, StatusInv
<1>2. /\ s \in RequestState /\ RequestOK(s, historical) /\ OwedKnown(s)
      /\ t \in s.unread /\ NextTable(q, t) /\ historical \subseteq Entity
  BY DEF Query, StatusInv, HandlersInv, TypeOK
<1>3. /\ r \in RequestState
      /\ r.op = s.op /\ r.unread = left
      /\ r.about = (IF left = {} THEN {} ELSE s.about)
      /\ r.owed = s.owed \ found /\ r.archived = s.archived \ found
  BY <1>2 DEF RequestState
<1> HIDE DEF r
<1>4. OwedKnown(r)
  BY <1>2, <1>3 DEF OwedKnown
<1>5. t = "registries" => r.owed \subseteq historical
  BY <1>2, <1>3 DEF OwedKnown, RequestOK, RequestState
<1>6. t = "historical" => r.archived = {}
  BY <1>2, <1>3 DEF RequestOK
<1>7. r.owed \subseteq s.about \ found
  BY <1>2, <1>3 DEF RequestOK
<1>8. CASE Settles(q, found)
  <2>1. r.owed = {} /\ r.archived = {}
    BY <1>2, <1>3, <1>7, <1>8 DEF Settles, RequestOK
  <2>2. RequestOK(r, historical)
    BY <2>1, <1>3, <1>8 DEF RequestOK
  <2>3. QED
    BY <1>1, <1>3, <1>4, <2>2, OneRequestStep
<1>9. CASE ~Settles(q, found)
  <2>1. left = s.unread \ {t}
    BY <1>9
  <2>2. s.op = "status" /\ t = "historical" => r.owed = {}
    BY <1>2, <1>3, <1>7, TableRows DEF NextTable, RequestOK
  <2>3. "registries" \notin left => r.owed \subseteq historical
    BY <2>1, <1>2, <1>3, <1>5 DEF RequestOK
  <2>4. "historical" \notin left => r.archived = {}
    BY <2>1, <1>2, <1>3, <1>6 DEF RequestOK
  <2>5. s.op = "status" /\ "historical" \notin left => r.owed = {}
    BY <2>1, <2>2, <1>2, <1>3 DEF RequestOK
  <2>6. r.archived \subseteq r.owed /\ r.archived \subseteq Rows(r.op, "historical")
    BY <1>2, <1>3 DEF RequestOK
  <2>7. left # {} => r.owed \subseteq r.about
    BY <1>3, <1>7
  <2>8. RequestOK(r, historical)
    BY <1>2, <1>3, <2>3, <2>4, <2>5, <2>6, <2>7 DEF RequestOK
  <2>9. QED
    BY <1>1, <1>3, <1>4, <2>8, OneRequestStep
<1>10. QED
  BY <1>8, <1>9

LEMMA RequestStep ==
  ASSUME StatusInv, RequestNext
  PROVE  StatusInv'
<1>1. ASSUME NEW q \in Request, AskStatus(q) PROVE StatusInv'
  <2>1. PICK e \in Entity : Ask(q, "status", {e})
    BY <1>1 DEF AskStatus
  <2>2. QED
    BY <2>1, AskStep
<1>2. ASSUME NEW q \in Request, AskOwned(q) PROVE StatusInv'
  <2>1. PICK u \in User : Ask(q, "owned", Deployments[u])
    BY <1>2 DEF AskOwned
  <2>2. Deployments[u] \in SUBSET Entity
    BY UserAssumption
  <2>3. QED
    BY <2>1, <2>2, AskStep
<1>3. ASSUME NEW q \in Request, RequestFails(q) PROVE StatusInv'
  <2>1. NoRequest \in RequestState /\ RequestOK(NoRequest, historical) /\ OwedKnown(NoRequest)
    BY NoRequestOK DEF StatusInv, HandlersInv, TypeOK
  <2>2. QED
    BY <1>3, <2>1, OneRequestStep DEF RequestFails
<1>4. QED
  BY <1>1, <1>2, <1>3, QueryStep DEF RequestNext

(* With any number of workers and requests, any of them failing, what a      *)
(* request is owed stays where it will find it, or is moved while it reads.  *)
THEOREM StatusInvariant == StatusSpec => []StatusInv
<1>1. StatusInit => StatusInv
  <2>1. SUFFICES ASSUME StatusInit PROVE StatusInv
    OBVIOUS
  <2>2. HandlersInv /\ HandlersInit /\ SignedOK
    BY <2>1, HandlersInitially, HandlersAssumption
    DEF StatusInit, SignedOK, HandlersInit, Exists, NoRow
  <2>3. NoRequest \in RequestState /\ RequestOK(NoRequest, historical) /\ OwedKnown(NoRequest)
    BY <2>2, NoRequestOK DEF HandlersInv, TypeOK
  <2>4. QED
    BY <2>2, <2>3 DEF HandlersInit, StatusInv
<1>2. StatusInv /\ [StatusNext]_statusVars => StatusInv'
  <2>1. SUFFICES ASSUME StatusInv, [StatusNext]_statusVars PROVE StatusInv'
    OBVIOUS
  <2>2. CASE UNCHANGED statusVars
    <3>1. HandlersInv' /\ UNCHANGED <<status, historical, request, signed>>
      BY <2>1, <2>2, HandlersStep DEF StatusInv, statusVars, handlerVars
    <3>2. QED
      BY <2>1, <3>1 DEF StatusInv, SignedOK, RequestOK, OwedKnown, Rows, Exists
  <2>3. QED
    BY <2>1, <2>2, ServiceStep, RequestStep DEF StatusNext
<1>3. QED
  BY <1>1, <1>2, PTL DEF StatusSpec

(* The variables of the handlers and of the requests keep their types.       *)
THEOREM StatusTypesHold == StatusSpec => []StatusTypeOK
<1>1. StatusInv => StatusTypeOK
  BY DEF StatusInv, SignedOK, StatusTypeOK, HandlersInv, HandlersTypeOK
<1>2. QED
  BY <1>1, StatusInvariant, PTL

(* GET /entities/status/:id finds an entity that the registry knew of when   *)
(* the request came, although it reads the two tables one after the other.   *)
THEOREM KnownIsFound == StatusSpec => []StatusFound
<1>1. StatusInv => StatusFound
  BY DEF StatusInv, StatusFound, RequestOK, Answered
<1>2. QED
  BY <1>1, StatusInvariant, PTL

(* GET /entities/status leaves out no row that carries the address of who    *)
(* asks, but those that the purger moves while it reads the two tables.      *)
THEOREM OnlyPurgedMissed == StatusSpec => []ListMissesOnlyPurged
<1>1. StatusInv => ListMissesOnlyPurged
  BY DEF StatusInv, ListMissesOnlyPurged, RequestOK, Answered
<1>2. QED
  BY <1>1, StatusInvariant, PTL

=============================================================================
