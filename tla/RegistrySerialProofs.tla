------------------------ MODULE RegistrySerialProofs ------------------------
(***************************************************************************)
(* One consumer implements RegistryService: every schedule of the          *)
(* statements of its handlers, of their failures and of the purger's steps *)
(* is a behaviour in which each event changes the tables at once.          *)
(*                                                                         *)
(* A statement before the last of its operation maps to a stutter, since   *)
(* the mapping reads the tables as the last operation left them; the one   *)
(* that ends it maps to the event, or to its interrupted form; the next    *)
(* operation to start, or the purger moving while none is in flight, maps  *)
(* to one purger step that shows what has been copied and deleted.  The    *)
(* invariant says how far the tables are from those of the mapping at each *)
(* statement: with the purged rows put back, only the operation in flight  *)
(* makes a difference.                                                     *)
(***************************************************************************)
EXTENDS RegistrySerial, RegistryHandlersProofs

-----------------------------------------------------------------------------
(* The operators of the instance are those of RegistryService                *)

LEMMA SameBasics ==
  /\ Service!NoRow = NoRow
  /\ Service!PendingBundles = PendingBundles
  /\ Service!ServedStatus = ServedStatus
  /\ Service!BundleType = BundleType
  BY DEF Service!NoRow, NoRow, Service!PendingBundles, PendingBundles, Service!BundleType,
     BundleType, Service!ServedStatus, ServedStatus

LEMMA SameRelated ==
  ASSUME NEW st, NEW e
  PROVE  /\ Service!Newer(st, e) = Newer(st, e)
         /\ Service!NotNewer(st, e) = NotNewer(st, e)
         /\ Service!FallbackCandidates(st, e) = FallbackCandidates(st, e)
<1>1. \A f : Service!Overlap(e, f) <=> Overlap(e, f)
  BY DEF Overlap, Service!Overlap
<1>2. Service!Related(st, e) = Related(st, e)
  BY <1>1, SameBasics DEF Related, Service!Related
<1>3. Service!Newer(st, e) = Newer(st, e)
  BY <1>2 DEF Newer, Service!Newer
<1>4. QED
  BY <1>2, <1>3, SameBasics
  DEF NotNewer, Service!NotNewer, FallbackCandidates, Service!FallbackCandidates

LEMMA SameChoices ==
  ASSUME NEW st, NEW e PROVE Service!FallbackChoices(st, e) = FallbackChoices(st, e)
  BY SameRelated DEF FallbackChoices, Service!FallbackChoices

LEMMA SameStatus ==
  ASSUME NEW st, NEW e, NEW b
  PROVE  Service!DetermineStatus(st, e, b) = DetermineStatus(st, e, b)
<1>1. Service!BundlesVerdict(b) = BundlesVerdict(b)
  BY DEF BundlesVerdict, Service!BundlesVerdict
<1>2. QED
  BY <1>1, SameRelated, SameBasics DEF DetermineStatus, Service!DetermineStatus

LEMMA SameEffects ==
  /\ \A st, e, s : Service!Inserted(st, e, s) = Inserted(st, e, s)
  /\ \A st, fb, s : Service!FallbackUpdated(st, fb, s) = FallbackUpdated(st, fb, s)
  /\ \A st, e, b : Service!Rotated(st, e, b) = Rotated(st, e, b)
  /\ \A st, ids, c, t : Service!Undeployed(st, ids, c, t) = Undeployed(st, ids, c, t)
  /\ \A b, t, p, s : Service!WithBundle(b, t, p, s) = WithBundle(b, t, p, s)
  /\ \A ok, s : Service!ConversionStatus(ok, s) = ConversionStatus(ok, s)
<1>1. \A st, e, s : Service!Inserted(st, e, s) = Inserted(st, e, s)
  BY DEF Inserted, Service!Inserted
<1>2. \A st, fb, s : Service!FallbackUpdated(st, fb, s) = FallbackUpdated(st, fb, s)
  BY DEF FallbackUpdated, Service!FallbackUpdated
<1>3. \A st, e, b : Service!Rotated(st, e, b) = Rotated(st, e, b)
  BY SameRelated, SameStatus DEF Rotated, Service!Rotated
<1>4. \A st, ids, c, t : Service!Undeployed(st, ids, c, t) = Undeployed(st, ids, c, t)
  BY SameBasics DEF Undeployed, Service!Undeployed
<1>5. /\ \A b, t, p, s : Service!WithBundle(b, t, p, s) = WithBundle(b, t, p, s)
      /\ \A ok, s : Service!ConversionStatus(ok, s) = ConversionStatus(ok, s)
  BY DEF WithBundle, Service!WithBundle, ConversionStatus, Service!ConversionStatus
<1>6. QED
  BY <1>1, <1>2, <1>3, <1>4, <1>5

-----------------------------------------------------------------------------
(* The steps of the instance                                                 *)

\* What persistAndRotateStates makes of an unknown entity e and its fallback fb.
Persisting(st, e, fb) ==
  LET s == DetermineStatus(st, e, PendingBundles)
  IN FallbackUpdated(Inserted(st, e, s), fb, s)

LEMMA MapsToDeployment ==
  ASSUME NEW e \in Entity, settledStatus[e] = NoRow, NEW interrupted \in Interruption,
         NEW fb \in IF interrupted THEN {{}} ELSE FallbackChoices(settledStatus, e),
         settledStatus' = Persisting(settledStatus, e, fb),
         settledBundles' = [settledBundles EXCEPT ![e] = PendingBundles],
         UNCHANGED settledHistorical
  PROVE  Service!EventNext
<1>1. Service!Persist(e, Service!PendingBundles, interrupted)
  BY SameBasics, SameChoices, SameStatus, SameEffects DEF Service!Persist, Persisting
<1>2. Service!DeploymentEvent(e)
  BY <1>1, SameBasics DEF Service!DeploymentEvent
<1>3. QED
  BY <1>2 DEF Service!EventNext, Service!Deployment

LEMMA MapsToConversion ==
  ASSUME NEW e \in Entity, NEW b \in EventBundle, NEW ok \in BOOLEAN,
         NEW s, s = ConversionStatus(ok, settledBundles[e][b[1]][b[2]]),
         NEW bs, bs = WithBundle(settledBundles[e], b[1], b[2], s),
         settledBundles' = [settledBundles EXCEPT ![e] = bs],
         UNCHANGED settledHistorical,
         \/ /\ settledStatus[e] \notin {NoRow, "obsolete"}
            /\ settledStatus' = Rotated(settledStatus, e, bs)
         \/ /\ settledStatus[e] = "obsolete"
            /\ settledStatus' = settledStatus
         \/ /\ settledStatus[e] = NoRow /\ e \notin settledHistorical
            /\ settledBundles[e] = PendingBundles
            /\ \E fb \in FallbackChoices(settledStatus, e) :
                 settledStatus' = Rotated(Persisting(settledStatus, e, fb), e, bs)
  PROVE  Service!EventNext
<1>1. CASE /\ settledStatus[e] \notin {NoRow, "obsolete"}
           /\ settledStatus' = Rotated(settledStatus, e, bs)
  <2>1. Service!TextureEvent(e, b[1], b[2], ok)
    BY <1>1, SameBasics, SameEffects DEF Service!TextureEvent
  <2>2. QED
    BY <2>1 DEF Service!EventNext, Service!Conversion
<1>2. CASE settledStatus[e] = "obsolete" /\ settledStatus' = settledStatus
  <2>1. Service!TextureEventOnObsolete(e, b[1], b[2], ok)
    BY <1>2, SameBasics, SameEffects DEF Service!TextureEventOnObsolete
  <2>2. QED
    BY <2>1 DEF Service!EventNext, Service!Conversion
<1>3. CASE /\ settledStatus[e] = NoRow /\ e \notin settledHistorical
           /\ settledBundles[e] = PendingBundles
           /\ \E fb \in FallbackChoices(settledStatus, e) :
                settledStatus' = Rotated(Persisting(settledStatus, e, fb), e, bs)
  <2>1. settledBundles[e][b[1]][b[2]] = "pending"
    BY <1>3, EventAssumption DEF PendingBundles
  <2>2. Service!TextureEventOnUnknown(e, b[1], b[2], ok)
    BY <1>3, <2>1, SameBasics, SameChoices, SameStatus, SameEffects
    DEF Service!TextureEventOnUnknown, Persisting
  <2>3. QED
    BY <2>2 DEF Service!EventNext, Service!Conversion
<1>4. QED
  BY <1>1, <1>2, <1>3

LEMMA MapsToUndeployment ==
  ASSUME NEW c \in World, NEW t \in EventTime, NEW ids \in SUBSET Entity, ids # {},
         \/ ids \subseteq {e \in Entity : ContextOf[e] = c}
         \/ ids = {e \in Entity : /\ ContextOf[e] = c
                                  /\ settledStatus[e] \notin {NoRow, "obsolete"}
                                  /\ TimestampOf[e] < t},
         settledStatus' = Undeployed(settledStatus, ids, c, t),
         UNCHANGED <<settledBundles, settledHistorical>>
  PROVE  Service!EventNext
<1>1. Service!UndeployScenes(c, ids, t)
  BY SameEffects DEF Service!UndeployScenes
<1>2. QED
  BY <1>1 DEF Service!EventNext, Service!Undeployment

LEMMA MapsToPurge ==
  ASSUME NEW copied \in SUBSET Entity, NEW deleted \in SUBSET Entity,
         \A x \in copied \cup deleted : settledStatus[x] = "obsolete",
         deleted \subseteq settledHistorical \cup copied,
         settledHistorical' = settledHistorical \cup copied,
         settledStatus' = [e \in Entity |-> IF e \in deleted THEN NoRow ELSE settledStatus[e]],
         settledBundles' = [e \in Entity |->
                              IF e \in deleted THEN PendingBundles ELSE settledBundles[e]]
  PROVE  Service!EventNext
<1>1. copied \in SUBSET Service!Obsolete /\ deleted \in SUBSET Service!Obsolete
  BY DEF Service!Obsolete
<1>2. Service!PurgeRows(copied, deleted)
  BY SameBasics DEF Service!PurgeRows
<1>3. Service!Purge
  BY <1>1, <1>2 DEF Service!Purge
<1>4. QED
  BY <1>3 DEF Service!EventNext

-----------------------------------------------------------------------------
(* How far the tables are from those of the mapping                          *)

\* The conversion result of j, and the bundle status its handler has read.
ResultSettled(j, bs) ==
  \E b \in EventBundle, ok \in BOOLEAN :
    j.result = <<b[1], b[2], ok>> /\ j.previous = bs[j.entity][b[1]][b[2]]

\* The bundles of the entity once the result is applied.
ResultApplied(j, bs) ==
  WithBundle(bs[j.entity], j.result[1], j.result[2],
             ConversionStatus(j.result[3], j.previous))

\* The entity is about to be inserted: nothing of it is in the tables yet.
Fresh(j, sts, bs, hist) ==
  /\ sts[j.entity] = NoRow /\ j.bundles = PendingBundles
  /\ j.op \in {"deployment", "conversion"}
  /\ j.op = "conversion" => ResultSettled(j, bs) /\ j.entity \notin hist

\* What it has read of the related registries still holds.
Decided(j, sts) ==
  /\ j.rows \in FallbackChoices(sts, j.entity)
  /\ j.next = DetermineStatus(sts, j.entity, PendingBundles)

\* The transaction of a conversion result: the entity was live, or the handler
\* has inserted it.
Landed(j, sts, bs, st, hist) ==
  /\ j.op = "conversion" /\ ResultSettled(j, bs)
  /\ \/ sts[j.entity] \notin {NoRow, "obsolete"} /\ st = sts
     \/ /\ sts[j.entity] = NoRow /\ j.entity \notin hist
        /\ \E fb \in FallbackChoices(sts, j.entity) : st = Persisting(sts, j.entity, fb)

\* The rows it has updated or has still to update.
Rotating(j, st) ==
  /\ j.next = DetermineStatus(st, j.entity, j.bundles)
  /\ j.rows \cup j.held =
       {j.entity} \cup {x \in NotNewer(st, j.entity) : j.next \in {"complete", "obsolete"}}

\* The world undeployment has listed the rows it is about to change.
Listed(j, sts) ==
  /\ j.world \in World /\ j.time \in EventTime
  /\ j.rows # {}
  /\ j.rows = {x \in Entity : /\ ContextOf[x] = j.world
                              /\ sts[x] \notin {NoRow, "obsolete"}
                              /\ TimestampOf[x] < j.time}

(* Job j at its statement: sts, bs and hist are the tables of the mapping,   *)
(* and st the status column with the purged rows back in it.                 *)
JobSettled(j, sts, bs, st, hist) ==
  /\ j.pc \in {"idle", "readHistorical", "readRelated", "insert", "storeBundle", "undeploy"}
       => st = sts
  /\ j.pc = "readHistorical" =>
       /\ sts[j.entity] = NoRow /\ j.bundles = PendingBundles
       /\ j.op = "conversion" /\ ResultSettled(j, bs)
  /\ j.pc \in {"readRelated", "insert", "updateFallback"} => Fresh(j, sts, bs, hist)
  /\ j.pc \in {"insert", "updateFallback"} => Decided(j, sts)
  /\ j.pc = "updateFallback" => st = Inserted(sts, j.entity, j.next)
  /\ j.pc \in {"begin", "readRelatedInTx", "rotate"} => Landed(j, sts, bs, st, hist)
  /\ j.pc \in {"readRelatedInTx", "rotate"} =>
       j.bundles = ResultApplied(j, bs) /\ j.entity \in j.held
  /\ j.pc = "readRelatedInTx" => j.held = {j.entity}
  /\ j.pc = "rotate" => Rotating(j, st)
  /\ j.pc = "storeBundle" => sts[j.entity] = "obsolete" /\ ResultSettled(j, bs)
  /\ j.pc = "undeploy" => Listed(j, sts)

\* The status column with the purged rows back in it.
Shown == Restored(status, purged)

\* The transaction of j has locked the row of its entity.
InTransaction(j) == j.pc \in {"readRelatedInTx", "rotate"}

SettledInv ==
  /\ HandlersInv
  /\ settledStatus \in StatusColumn /\ settledBundles \in [Entity -> Bundles]
  /\ settledHistorical \subseteq historical /\ purged \subseteq historical
  /\ \A x \in purged : status[x] = NoRow
  /\ \A x \in historical \ settledHistorical : Shown[x] = "obsolete"
  /\ \A x \in Entity :
       /\ x \notin purged => settledBundles[x] = bundles[x]
       /\ status[x] = NoRow => bundles[x] = PendingBundles
       /\ settledStatus[x] = NoRow => settledBundles[x] = PendingBundles
  /\ \A x \in purge.batch \cup purge.copied : status[x] = "obsolete"
  /\ \A w \in Worker : InTransaction(job[w]) => Exists(job[w].entity)
  /\ \A w \in Worker :
       JobSettled(job[w], settledStatus, settledBundles, Shown, settledHistorical)

\* The step is one of RegistryService, or changes nothing it sees.
Simulated == Service!EventNext \/ UNCHANGED settled

-----------------------------------------------------------------------------
(* The rows put back                                                         *)

\* The status column once the purger has deleted the rows ids.
Deleted(st, ids) == [x \in Entity |-> IF x \in ids THEN NoRow ELSE st[x]]

\* OBSOLETE rows play no part in what a handler reads of the others.
LEMMA DeletedUnseen ==
  ASSUME NEW st \in StatusColumn, NEW ids \in SUBSET Entity, \A x \in ids : st[x] = "obsolete",
         NEW e, NEW b
  PROVE  /\ NotNewer(Deleted(st, ids), e) = NotNewer(st, e)
         /\ FallbackChoices(Deleted(st, ids), e) = FallbackChoices(st, e)
         /\ DetermineStatus(Deleted(st, ids), e, b) = DetermineStatus(st, e, b)
<1> DEFINE sd == Deleted(st, ids)
<1>1. \A x \in Entity : /\ sd[x] \in {NoRow, "obsolete"} <=> st[x] \in {NoRow, "obsolete"}
                        /\ st[x] \notin {NoRow, "obsolete"} => sd[x] = st[x]
  BY DEF Deleted
<1> HIDE DEF sd
<1>2. Related(sd, e) = Related(st, e)
  BY <1>1 DEF Related
<1>3. \A x \in Related(st, e) : sd[x] = st[x]
  BY Zenon, <1>1 DEF Related
<1>4. Newer(sd, e) = Newer(st, e)
  BY <1>2 DEF Newer
<1>5. NotNewer(sd, e) = NotNewer(st, e)
  BY <1>2, <1>4 DEF NotNewer
<1>6. FallbackCandidates(sd, e) = FallbackCandidates(st, e)
  BY <1>2, <1>3 DEF FallbackCandidates
<1>7. FallbackChoices(sd, e) = FallbackChoices(st, e)
  BY <1>6 DEF FallbackChoices
<1>8. \A n \in Newer(st, e) : sd[n] = st[n]
  BY <1>3 DEF Newer
<1>9. DetermineStatus(sd, e, b) = DetermineStatus(st, e, b)
  BY <1>4, <1>8 DEF DetermineStatus
<1>10. QED
  BY <1>5, <1>7, <1>9 DEF sd

\* What a handler reads of the tables it reads of the rows put back.
LEMMA ShownRows ==
  ASSUME SettledInv
  PROVE  /\ status \in StatusColumn /\ Shown \in StatusColumn /\ purged \in SUBSET Entity
         /\ \A x \in purged : Shown[x] = "obsolete" /\ status[x] = NoRow
         /\ \A x \in Entity \ purged : Shown[x] = status[x]
         /\ status = Deleted(Shown, purged)
<1>1. status \in StatusColumn /\ purged \in SUBSET Entity
  BY DEF SettledInv, HandlersInv, TypeOK, StatusColumn
<1>2. /\ Shown \in StatusColumn
      /\ \A x \in purged : Shown[x] = "obsolete" /\ status[x] = NoRow
      /\ \A x \in Entity \ purged : Shown[x] = status[x]
  BY <1>1 DEF Shown, Restored, StatusColumn, Status, SettledInv
<1>3. \A x \in Entity : status[x] = Deleted(Shown, purged)[x]
  BY <1>1, <1>2 DEF Deleted
<1>4. status = Deleted(Shown, purged)
  BY <1>1, <1>3 DEF Deleted, StatusColumn
<1>5. QED
  BY <1>1, <1>2, <1>4

LEMMA ShownReads ==
  ASSUME SettledInv, NEW e
  PROVE  /\ NotNewer(status, e) = NotNewer(Shown, e)
         /\ FallbackChoices(status, e) = FallbackChoices(Shown, e)
         /\ \A b : DetermineStatus(status, e, b) = DetermineStatus(Shown, e, b)
  BY ShownRows, DeletedUnseen

-----------------------------------------------------------------------------
(* What a step does to the mapping                                           *)

LEMMA IdleJob ==
  ASSUME HandlersInv, NEW w \in Worker PROVE job[w].pc = "idle" <=> job[w] = Idle
  BY DEF HandlersInv, Job, Idle

LEMMA SettleCases ==
  ASSUME SettledInv, Settle, NEW w \in Worker, Worker = {w}
  PROVE  /\ job'[w] = Idle /\ purge' = purge => ShowOperation
         /\ job[w] = Idle /\ (job'[w] # Idle \/ purge' # purge) => ShowTables
         /\ job[w] # Idle /\ job'[w] # Idle => Hide
<1>1. (Resting <=> job[w] = Idle) /\ (Resting' <=> job'[w] = Idle)
  BY DEF Resting
<1>2. QED
  BY <1>1 DEF Settle

LEMMA IdleSettled ==
  ASSUME NEW st, NEW bs, NEW hist
  PROVE  JobSettled(Idle, st, bs, st, hist) /\ ~InTransaction(Idle)
  BY DEF JobSettled, InTransaction, Idle

(* A worker deletes no row, brings none back, and no OBSOLETE row to life.   *)
RowsSafe ==
  \A x \in Entity : /\ status'[x] = NoRow => status[x] = NoRow
                    /\ status[x] = "obsolete" => status'[x] = "obsolete"
                    /\ x \in purged => status'[x] = NoRow

(* An operation in flight hides its changes from the mapping.                *)
LEMMA BusyStep ==
  ASSUME SettledInv, HandlersInv', Settle, UNCHANGED <<bundles, historical, purge>>, RowsSafe,
         NEW w \in Worker, Worker = {w}, job[w] # Idle, job'[w] # Idle,
         InTransaction(job'[w]) => status'[job'[w].entity] # NoRow,
         JobSettled(job'[w], settledStatus, settledBundles, Restored(status', purged),
                    settledHistorical)
  PROVE  SettledInv' /\ Simulated
<1>1. Hide
  BY SettleCases
<1>2. purged' = purged /\ UNCHANGED settled
  BY <1>1 DEF Hide, RowsSafe
<1>3. Shown' = Restored(status', purged)
  BY <1>2 DEF Shown
<1>4. \A x \in Entity : Shown[x] = "obsolete" => Shown'[x] = "obsolete"
  BY <1>3 DEF Shown, Restored, RowsSafe
<1>5. purge.batch \cup purge.copied \subseteq Entity /\ historical \subseteq Entity
  BY DEF SettledInv, HandlersInv, TypeOK
<1>6. \A v \in Worker :
        /\ InTransaction(job'[v]) => status'[job'[v].entity] # NoRow
        /\ JobSettled(job'[v], settledStatus', settledBundles', Shown', settledHistorical')
  BY <1>2, <1>3 DEF settled
<1>7. \A x \in purged' : status'[x] = NoRow
  BY <1>2, ShownRows DEF RowsSafe
<1>8. \A x \in historical' \ settledHistorical' : Shown'[x] = "obsolete"
  BY <1>2, <1>4, <1>5 DEF SettledInv, settled
<1>9. \A x \in Entity :
       /\ x \notin purged' => settledBundles'[x] = bundles'[x]
       /\ status'[x] = NoRow => bundles'[x] = PendingBundles
       /\ settledStatus'[x] = NoRow => settledBundles'[x] = PendingBundles
  BY <1>2 DEF SettledInv, RowsSafe, settled
<1>10. \A x \in purge'.batch \cup purge'.copied : status'[x] = "obsolete"
  BY <1>5 DEF SettledInv, RowsSafe
<1>11. SettledInv'
  BY <1>2, <1>6, <1>7, <1>8, <1>9, <1>10 DEF SettledInv, settled, Exists
<1>12. QED
  BY <1>2, <1>11 DEF Simulated

(* The end of an operation shows what it did, with the purged rows back.     *)
LEMMA EndStep ==
  ASSUME SettledInv, HandlersInv', Settle, UNCHANGED <<historical, purge>>, RowsSafe,
         NEW w \in Worker, Worker = {w}, job'[w] = Idle,
         \A x \in Entity : status'[x] = NoRow => bundles'[x] = PendingBundles
  PROVE  /\ SettledInv'
         /\ settledStatus' = Restored(status', purged)
         /\ settledBundles' =
              [x \in Entity |-> IF x \in purged THEN settledBundles[x] ELSE bundles'[x]]
         /\ UNCHANGED settledHistorical
<1>1. ShowOperation
  BY SettleCases
<1>2. Shown' = settledStatus' /\ purged' = purged
  BY <1>1 DEF ShowOperation, Shown
<1>3. purged \subseteq Entity /\ status' \in StatusColumn /\ bundles' \in [Entity -> Bundles]
  BY ShownRows DEF HandlersInv, TypeOK, StatusColumn
<1>4. settledStatus' \in StatusColumn /\ settledBundles' \in [Entity -> Bundles]
  BY <1>1, <1>3 DEF ShowOperation, Restored, StatusColumn, Status, SettledInv
<1>5. \A x \in Entity : Shown[x] = "obsolete" => Shown'[x] = "obsolete"
  BY <1>1, <1>2 DEF Shown, Restored, RowsSafe, ShowOperation
<1>6. purge.batch \cup purge.copied \subseteq Entity /\ historical \subseteq Entity
  BY DEF SettledInv, HandlersInv, TypeOK
<1>7. \A v \in Worker :
        /\ ~InTransaction(job'[v])
        /\ JobSettled(job'[v], settledStatus', settledBundles', Shown', settledHistorical')
  BY <1>2, IdleSettled
<1>8. \A x \in purged' : status'[x] = NoRow
  BY <1>2, <1>3 DEF RowsSafe
<1>9. \A x \in historical' \ settledHistorical' : Shown'[x] = "obsolete"
  BY <1>1, <1>5, <1>6 DEF SettledInv, ShowOperation
<1>10. \A x \in Entity :
       /\ x \notin purged' => settledBundles'[x] = bundles'[x]
       /\ settledStatus'[x] = NoRow => settledBundles'[x] = PendingBundles
  BY <1>1 DEF ShowOperation, Restored, NoRow
<1>11. \A x \in purge'.batch \cup purge'.copied : status'[x] = "obsolete"
  BY <1>6 DEF SettledInv, RowsSafe
<1>12. settledHistorical' \subseteq historical' /\ purged' \subseteq historical'
  BY <1>1 DEF ShowOperation, SettledInv
<1>13. SettledInv'
  BY <1>4, <1>7, <1>8, <1>9, <1>10, <1>11, <1>12 DEF SettledInv
<1>14. QED
  BY <1>1, <1>13 DEF ShowOperation

(* An operation ends and has done nothing.                                   *)
LEMMA QuietEnd ==
  ASSUME SettledInv, HandlersInv', Settle, UNCHANGED <<status, bundles, historical, purge>>,
         NEW w \in Worker, Worker = {w}, job'[w] = Idle, Shown = settledStatus
  PROVE  SettledInv' /\ Simulated
<1>1. RowsSafe /\ \A x \in Entity : status'[x] = NoRow => bundles'[x] = PendingBundles
  BY ShownRows DEF RowsSafe, SettledInv
<1>2. /\ SettledInv' /\ UNCHANGED settledHistorical
      /\ settledStatus' = Shown
      /\ settledBundles' = [x \in Entity |-> IF x \in purged THEN settledBundles[x] ELSE bundles[x]]
  BY <1>1, EndStep DEF Shown
<1>3. \A x \in Entity :
        (IF x \in purged THEN settledBundles[x] ELSE bundles[x]) = settledBundles[x]
  BY DEF SettledInv
<1>4. settledBundles' = settledBundles
  BY <1>2, <1>3 DEF SettledInv
<1>5. QED
  BY <1>2, <1>4 DEF Simulated, settled

(* Between two operations the work of the purger shows, as one step of its   *)
(* own: what it had done, and the rows ids if it is deleting them.           *)
LEMMA ShowsPurge ==
  ASSUME SettledInv, HandlersInv', ShowTables, Shown = settledStatus,
         historical \subseteq historical',
         \A x \in historical' \ historical : status[x] = "obsolete",
         NEW ids \in SUBSET Entity, ids \subseteq historical',
         \A x \in ids : status[x] = "obsolete",
         status' = Deleted(status, ids),
         bundles' = [x \in Entity |-> IF x \in ids THEN PendingBundles ELSE bundles[x]]
  PROVE  Service!EventNext
<1> DEFINE copied == historical' \ settledHistorical
           deleted == purged \cup ids
<1>1. /\ settledStatus' = status' /\ settledBundles' = bundles'
      /\ settledHistorical' = historical'
  BY DEF ShowTables
<1>2. historical' \subseteq Entity /\ purged \subseteq historical /\ settledHistorical \subseteq historical
  BY DEF SettledInv, HandlersInv, TypeOK
<1>3. \A x \in Entity : status[x] = "obsolete" => Shown[x] = "obsolete"
  BY DEF Shown, Restored
<1>4. \A x \in copied \cup deleted : settledStatus[x] = "obsolete"
  <2>1. \A x \in copied : settledStatus[x] = "obsolete"
    BY <1>2, <1>3 DEF SettledInv
  <2>2. \A x \in deleted : settledStatus[x] = "obsolete"
    BY <1>2, <1>3, ShownRows
  <2>3. QED
    BY <2>1, <2>2
<1>5. copied \in SUBSET Entity /\ deleted \in SUBSET Entity
      /\ deleted \subseteq settledHistorical \cup copied
      /\ settledHistorical' = settledHistorical \cup copied
  BY <1>1, <1>2
<1>6. settledStatus' = [x \in Entity |-> IF x \in deleted THEN NoRow ELSE settledStatus[x]]
  <2>1. \A x \in Entity : Deleted(status, ids)[x] = IF x \in deleted THEN NoRow ELSE Shown[x]
    BY ShownRows DEF Deleted
  <2>2. Deleted(status, ids) = [x \in Entity |-> IF x \in deleted THEN NoRow ELSE Shown[x]]
    BY <2>1 DEF Deleted
  <2>3. QED
    BY <1>1, <2>2
<1>7. settledBundles' = [x \in Entity |->
                           IF x \in deleted THEN PendingBundles ELSE settledBundles[x]]
  <2>1. \A x \in Entity : (IF x \in ids THEN PendingBundles ELSE bundles[x])
                            = IF x \in deleted THEN PendingBundles ELSE settledBundles[x]
    BY <1>2 DEF SettledInv
  <2>2. QED
    BY <1>1, <2>1
<1> HIDE DEF copied, deleted
<1>8. QED
  BY <1>4, <1>5, <1>6, <1>7, MapsToPurge

\* With nothing hidden, the mapping reads the tables.
LEMMA NothingHidden ==
  ASSUME HandlersInv', ShowTables, NEW w \in Worker, Worker = {w},
         \A x \in Entity : status'[x] = NoRow => bundles'[x] = PendingBundles,
         \A x \in purge'.batch \cup purge'.copied : status'[x] = "obsolete",
         InTransaction(job'[w]) => status'[job'[w].entity] # NoRow,
         JobSettled(job'[w], status', bundles', status', historical')
  PROVE  SettledInv'
<1>1. /\ settledStatus' = status' /\ settledBundles' = bundles'
      /\ settledHistorical' = historical' /\ purged' = {}
  BY DEF ShowTables
<1>2. status' \in StatusColumn /\ bundles' \in [Entity -> Bundles]
  BY DEF HandlersInv, TypeOK, StatusColumn
<1>3. Shown' = status'
  BY <1>1, <1>2 DEF Shown, Restored, StatusColumn
<1>4. \A v \in Worker :
        /\ InTransaction(job'[v]) => status'[job'[v].entity] # NoRow
        /\ JobSettled(job'[v], settledStatus', settledBundles', Shown', settledHistorical')
  BY <1>1, <1>3
<1>5. QED
  BY <1>1, <1>2, <1>4 DEF SettledInv, Exists

(* An operation starts: what the purger has done meanwhile shows.            *)
LEMMA TakeSettled ==
  ASSUME SettledInv, HandlersInv', Settle, UNCHANGED <<status, bundles, historical, purge>>,
         NEW w \in Worker, Worker = {w}, job[w].pc = "idle", job'[w] # Idle,
         InTransaction(job'[w]) => status[job'[w].entity] # NoRow,
         JobSettled(job'[w], status, bundles, status, historical)
  PROVE  SettledInv' /\ Simulated
<1>1. ShowTables
  BY SettleCases, IdleJob DEF SettledInv
<1>2. Shown = settledStatus
  BY DEF SettledInv, JobSettled
<1>3. status' = Deleted(status, {})
  BY ShownRows DEF Deleted, StatusColumn
<1>4. bundles' = [x \in Entity |-> IF x \in {} THEN PendingBundles ELSE bundles[x]]
  BY DEF SettledInv, HandlersInv, TypeOK
<1>5. Service!EventNext
  BY <1>1, <1>2, <1>3, <1>4, ShowsPurge
<1>6. SettledInv'
  BY <1>1, NothingHidden DEF SettledInv
<1>7. QED
  BY <1>5, <1>6 DEF Simulated

-----------------------------------------------------------------------------
(* The steps of the worker                                                   *)

LEMMA SettledTakeDeployment ==
  ASSUME SettledInv, HandlersInv', Settle, NEW w \in Worker, Worker = {w},
         NEW e \in Entity, TakeDeployment(w, e)
  PROVE  SettledInv' /\ Simulated
<1>1. /\ job'[w].pc = "readRelated" /\ job'[w].op = "deployment" /\ job'[w].entity = e
      /\ job'[w].bundles = PendingBundles
  BY DEF TakeDeployment, Goto, NewJob, SettledInv, HandlersInv
<1>2. /\ job[w].pc = "idle" /\ status[e] = NoRow
      /\ UNCHANGED <<status, bundles, historical, purge>>
  BY DEF TakeDeployment, At, Exists, Tables
<1>3. JobSettled(job'[w], status, bundles, status, historical)
  BY <1>1, <1>2 DEF JobSettled, Fresh
<1>4. job'[w] # Idle /\ ~InTransaction(job'[w])
  BY <1>1 DEF Idle, InTransaction
<1>5. QED
  BY <1>2, <1>3, <1>4, TakeSettled

LEMMA SettledTakeConversion ==
  ASSUME SettledInv, HandlersInv', Settle, NEW w \in Worker, Worker = {w},
         NEW e \in Entity, NEW b \in EventBundle, NEW ok \in BOOLEAN,
         TakeConversion(w, e, b[1], b[2], ok)
  PROVE  SettledInv' /\ Simulated
<1> DEFINE pc == CASE status[e] = NoRow      -> "readHistorical"
                   [] status[e] = "obsolete" -> "storeBundle"
                   [] OTHER                  -> "begin"
           j == [NewJob("conversion", pc) EXCEPT
                   !.entity = e, !.result = <<b[1], b[2], ok>>,
                   !.previous = bundles[e][b[1]][b[2]]]
<1>1. job[w].pc = "idle" /\ job' = [job EXCEPT ![w] = j]
      /\ UNCHANGED <<status, bundles, historical, purge>>
  BY DEF TakeConversion, At, Goto, Tables
<1>2. /\ j.pc = pc /\ j.op = "conversion" /\ j.entity = e
      /\ j.bundles = PendingBundles
      /\ j.result = <<b[1], b[2], ok>> /\ j.previous = bundles[e][b[1]][b[2]]
  BY DEF NewJob
<1>3. /\ status[e] = NoRow => pc = "readHistorical"
      /\ status[e] = "obsolete" => pc = "storeBundle"
      /\ status[e] \notin {NoRow, "obsolete"} => pc = "begin"
  BY DEF NoRow
<1> HIDE DEF pc, j
<1>4. job'[w] = j
  BY <1>1 DEF SettledInv, HandlersInv
<1>5. ResultSettled(j, bundles)
  BY <1>2 DEF ResultSettled
<1>6. JobSettled(j, status, bundles, status, historical)
  <2>1. CASE status[e] = NoRow
    BY <1>2, <1>3, <1>5, <2>1 DEF JobSettled
  <2>2. CASE status[e] = "obsolete"
    BY <1>2, <1>3, <1>5, <2>2 DEF JobSettled
  <2>3. CASE status[e] \notin {NoRow, "obsolete"}
    BY <1>2, <1>3, <1>5, <2>3 DEF JobSettled, Landed
  <2>4. QED
    BY <2>1, <2>2, <2>3
<1>7. j # Idle /\ ~InTransaction(j)
  BY <1>2, <1>3 DEF Idle, InTransaction
<1>8. QED
  BY <1>1, <1>4, <1>6, <1>7, TakeSettled

LEMMA SettledTakeWorldUndeployment ==
  ASSUME SettledInv, HandlersInv', Settle, NEW w \in Worker, Worker = {w},
         NEW c \in World, NEW t \in EventTime, TakeWorldUndeployment(w, c, t)
  PROVE  SettledInv' /\ Simulated
<1> DEFINE ids == {e \in Entity : /\ ContextOf[e] = c
                                  /\ status[e] \notin {NoRow, "obsolete"}
                                  /\ TimestampOf[e] < t}
<1>1. /\ job[w].pc = "idle" /\ ids # {}
      /\ job' = [job EXCEPT ![w] = [NewJob("undeployment", "undeploy") EXCEPT
                                      !.world = c, !.time = t, !.rows = ids]]
      /\ UNCHANGED <<status, bundles, historical, purge>>
  BY DEF TakeWorldUndeployment, At, Goto, Tables
<1> HIDE DEF ids
<1>2. /\ job'[w].pc = "undeploy" /\ job'[w].world = c /\ job'[w].time = t
      /\ job'[w].rows = ids
  BY <1>1 DEF NewJob, SettledInv, HandlersInv
<1>3. Listed(job'[w], status)
  BY <1>1, <1>2 DEF Listed, ids
<1>4. JobSettled(job'[w], status, bundles, status, historical)
  BY <1>2, <1>3 DEF JobSettled
<1>5. job'[w] # Idle /\ ~InTransaction(job'[w])
  BY <1>2 DEF Idle, InTransaction
<1>6. QED
  BY <1>1, <1>4, <1>5, TakeSettled

\* The rows deleted meanwhile make no difference to an undeployment.
LEMMA UndeployedRestored ==
  ASSUME NEW st \in StatusColumn, NEW ps \in SUBSET Entity, \A x \in ps : st[x] = NoRow,
         NEW ids \in SUBSET Entity, NEW c, NEW t
  PROVE  Restored(Undeployed(st, ids, c, t), ps)
           = Undeployed(Restored(st, ps), ids \ ps, c, t)
<1> DEFINE rt == Restored(st, ps)
           gone(s, x) == s[x] # NoRow /\ TimestampOf[x] < t
           ptr  == UNION {PointersOf[x] : x \in {y \in ids : gone(st, y)}}
           rptr == UNION {PointersOf[x] : x \in {y \in ids \ ps : gone(rt, y)}}
<1>1. \A x \in Entity \ ps : rt[x] = st[x]
  BY DEF Restored
<1>2. \A x \in ps : rt[x] = "obsolete"
  BY DEF Restored
<1>3. {y \in ids : gone(st, y)} = {y \in ids \ ps : gone(rt, y)}
  BY <1>1
<1>4. ptr = rptr
  BY <1>3
<1> HIDE DEF rt
<1>5. \A x \in Entity : Restored(Undeployed(st, ids, c, t), ps)[x]
                          = Undeployed(rt, ids \ ps, c, t)[x]
  <2> SUFFICES ASSUME NEW x \in Entity
               PROVE  Restored(Undeployed(st, ids, c, t), ps)[x]
                        = Undeployed(rt, ids \ ps, c, t)[x]
    OBVIOUS
  <2>1. CASE x \in ps
    BY <1>2, <2>1 DEF Restored, Undeployed
  <2>2. CASE x \notin ps
    <3>1. rt[x] = st[x] /\ (x \in ids <=> x \in ids \ ps)
      BY <1>1, <2>2
    <3>2. Restored(Undeployed(st, ids, c, t), ps)[x] = Undeployed(st, ids, c, t)[x]
      BY <2>2 DEF Restored
    <3>3. Undeployed(st, ids, c, t)[x]
            = IF gone(st, x) /\ \/ x \in ids
                                \/ /\ st[x] = "fallback" /\ ContextOf[x] = c
                                   /\ PointersOf[x] \cap ptr # {}
              THEN "obsolete" ELSE st[x]
      BY DEF Undeployed
    <3>4. Undeployed(rt, ids \ ps, c, t)[x]
            = IF gone(rt, x) /\ \/ x \in ids \ ps
                                \/ /\ rt[x] = "fallback" /\ ContextOf[x] = c
                                   /\ PointersOf[x] \cap rptr # {}
              THEN "obsolete" ELSE rt[x]
      BY DEF Undeployed
    <3> HIDE DEF ptr, rptr
    <3>5. QED
      BY <1>4, <3>1, <3>2, <3>3, <3>4
  <2>3. QED
    BY <2>1, <2>2
<1>6. QED
  BY <1>5 DEF Restored, Undeployed, rt

(* An undeployment of the rows ids of context c, whoever has listed them.    *)
LEMMA UndeploymentEnds ==
  ASSUME SettledInv, HandlersInv', Settle, UNCHANGED <<bundles, historical, purge>>,
         NEW w \in Worker, Worker = {w}, job'[w] = Idle, Shown = settledStatus,
         NEW c \in World, NEW t \in EventTime, NEW ids \in SUBSET Entity,
         ids \subseteq {e \in Entity : ContextOf[e] = c},
         status' = Undeployed(status, ids, c, t)
  PROVE  SettledInv' /\ Simulated
<1>1. \A x \in Entity : /\ status[x] = NoRow <=> status'[x] = NoRow
                        /\ status[x] = "obsolete" => status'[x] = "obsolete"
  BY DEF Undeployed, NoRow
<1>2. RowsSafe /\ \A x \in Entity : status'[x] = NoRow => bundles'[x] = PendingBundles
  BY <1>1, ShownRows DEF RowsSafe, SettledInv
<1>3. /\ SettledInv' /\ UNCHANGED settledHistorical
      /\ settledStatus' = Restored(status', purged)
      /\ settledBundles' = [x \in Entity |-> IF x \in purged THEN settledBundles[x] ELSE bundles[x]]
  BY <1>2, EndStep
<1>4. \A x \in Entity :
        (IF x \in purged THEN settledBundles[x] ELSE bundles[x]) = settledBundles[x]
  BY DEF SettledInv
<1>5. settledBundles' = settledBundles
  BY <1>3, <1>4 DEF SettledInv
<1>6. settledStatus' = Undeployed(settledStatus, ids \ purged, c, t)
  BY <1>3, ShownRows, UndeployedRestored DEF Shown
<1>7. CASE ids \ purged = {}
  <2>1. \A x \in Entity : Undeployed(settledStatus, {}, c, t)[x] = settledStatus[x]
    BY DEF Undeployed
  <2>2. Undeployed(settledStatus, {}, c, t) = settledStatus
    BY <2>1 DEF Undeployed, SettledInv, StatusColumn
  <2>3. QED
    BY <1>3, <1>5, <1>6, <1>7, <2>2 DEF Simulated, settled
<1>8. CASE ids \ purged # {}
  BY <1>3, <1>5, <1>6, <1>8, MapsToUndeployment DEF Simulated
<1>9. QED
  BY <1>7, <1>8

LEMMA SettledUndeployScenes ==
  ASSUME SettledInv, HandlersInv', Settle, NEW w \in Worker, Worker = {w},
         NEW c \in World, NEW t \in EventTime, NEW ids \in SUBSET Entity,
         UndeployScenesRows(w, ids, c, t)
  PROVE  SettledInv' /\ Simulated
<1>1. /\ job[w].pc = "idle" /\ UNCHANGED <<job, bundles, historical, purge>>
      /\ ids \subseteq {e \in Entity : ContextOf[e] = c}
      /\ status' = Undeployed(status, ids, c, t)
  BY DEF UndeployScenesRows, UndeployRows, At
<1>2. Shown = settledStatus
  BY <1>1 DEF SettledInv, JobSettled
<1>3. job'[w] = Idle
  BY <1>1, IdleJob DEF SettledInv
<1>4. QED
  BY <1>1, <1>2, <1>3, UndeploymentEnds

LEMMA SettledUndeployWorld ==
  ASSUME SettledInv, HandlersInv', Settle, NEW w \in Worker, Worker = {w},
         UndeployWorldRows(w)
  PROVE  SettledInv' /\ Simulated
<1>1. /\ job[w].pc = "undeploy" /\ job' = [job EXCEPT ![w] = Idle]
      /\ UNCHANGED <<bundles, historical, purge>>
      /\ status' = Undeployed(status, job[w].rows, job[w].world, job[w].time)
  BY DEF UndeployWorldRows, UndeployRows, At, Finish, Goto
<1>2. Shown = settledStatus /\ Listed(job[w], settledStatus)
  BY <1>1 DEF SettledInv, JobSettled
<1>3. /\ job[w].world \in World /\ job[w].time \in EventTime
      /\ job[w].rows \in SUBSET Entity
      /\ job[w].rows \subseteq {e \in Entity : ContextOf[e] = job[w].world}
  BY <1>2 DEF Listed
<1>4. job'[w] = Idle
  BY <1>1 DEF SettledInv, HandlersInv
<1>5. QED
  BY <1>1, <1>2, <1>3, <1>4, UndeploymentEnds

LEMMA SettledReadHistorical ==
  ASSUME SettledInv, HandlersInv', Settle, NEW w \in Worker, Worker = {w},
         ReadHistorical(w)
  PROVE  SettledInv' /\ Simulated
<1>1. /\ job[w].pc = "readHistorical"
      /\ UNCHANGED <<status, bundles, historical, purge>>
  BY DEF ReadHistorical, At, Tables
<1>2. /\ Shown = settledStatus /\ settledStatus[job[w].entity] = NoRow
      /\ job[w].bundles = PendingBundles /\ job[w].op = "conversion"
      /\ ResultSettled(job[w], settledBundles)
  BY <1>1 DEF SettledInv, JobSettled
<1>3. CASE job[w].entity \in historical
  <2>1. job'[w] = Idle
    BY <1>3 DEF ReadHistorical, Finish, Goto, SettledInv, HandlersInv
  <2>2. QED
    BY <1>1, <1>2, <2>1, QuietEnd
<1>4. CASE job[w].entity \notin historical
  <2>1. job[w] \in Job /\ job[w] # Idle
    BY <1>1, JobParts DEF At, SettledInv
  <2>2. job'[w] = [job[w] EXCEPT !.pc = "readRelated"]
    BY <1>4 DEF ReadHistorical, Goto, SettledInv, HandlersInv
  <2>3. /\ job'[w].pc = "readRelated" /\ job'[w].op = "conversion"
        /\ job'[w].entity = job[w].entity /\ job'[w].bundles = PendingBundles
        /\ job'[w].result = job[w].result /\ job'[w].previous = job[w].previous
    BY <1>2, <2>1, <2>2 DEF Job
  <2>4. Fresh(job'[w], settledStatus, settledBundles, settledHistorical)
    BY <1>2, <1>4, <2>3 DEF Fresh, ResultSettled, SettledInv
  <2>5. JobSettled(job'[w], settledStatus, settledBundles, Shown, settledHistorical)
    BY <1>2, <2>3, <2>4 DEF JobSettled
  <2>6. job'[w] # Idle /\ ~InTransaction(job'[w])
    BY <2>3 DEF Idle, InTransaction
  <2>7. RowsSafe
    BY <1>1, ShownRows DEF RowsSafe
  <2>8. QED
    BY <1>1, <2>1, <2>5, <2>6, <2>7, BusyStep DEF Shown
<1>5. QED
  BY <1>3, <1>4

LEMMA SettledReadRelated ==
  ASSUME SettledInv, HandlersInv', Settle, NEW w \in Worker, Worker = {w},
         ReadRelated(w)
  PROVE  SettledInv' /\ Simulated
<1> DEFINE e == job[w].entity
<1>1. job[w].pc = "readRelated" /\ UNCHANGED <<status, bundles, historical, purge>>
  BY DEF ReadRelated, At, Tables
<1>2. /\ Shown = settledStatus
      /\ Fresh(job[w], settledStatus, settledBundles, settledHistorical)
  BY <1>1 DEF SettledInv, JobSettled
<1>3. PICK fb \in FallbackChoices(status, e) :
        job' = [job EXCEPT ![w] = [job[w] EXCEPT
                  !.pc = "insert", !.rows = fb,
                  !.next = DetermineStatus(status, e, job[w].bundles)]]
  BY Zenon DEF ReadRelated, Goto
<1>4. job[w] \in Job /\ job[w] # Idle
  BY <1>1, JobParts DEF At, SettledInv
<1>5. /\ job'[w].pc = "insert" /\ job'[w].rows = fb
      /\ job'[w].next = DetermineStatus(status, e, PendingBundles)
      /\ job'[w].entity = e /\ job'[w].bundles = PendingBundles
      /\ job'[w].op = job[w].op
      /\ job'[w].result = job[w].result /\ job'[w].previous = job[w].previous
  BY <1>2, <1>3, <1>4 DEF Job, SettledInv, HandlersInv, Fresh
<1> HIDE DEF e
<1>6. Fresh(job'[w], settledStatus, settledBundles, settledHistorical)
  BY <1>2, <1>5 DEF Fresh, ResultSettled, e
<1>7. Decided(job'[w], settledStatus)
  BY <1>2, <1>3, <1>5, ShownReads DEF Decided
<1>8. JobSettled(job'[w], settledStatus, settledBundles, Shown, settledHistorical)
  BY <1>2, <1>5, <1>6, <1>7 DEF JobSettled
<1>9. job'[w] # Idle /\ ~InTransaction(job'[w])
  BY <1>5 DEF Idle, InTransaction
<1>10. RowsSafe
  BY <1>1, ShownRows DEF RowsSafe
<1>11. QED
  BY <1>1, <1>4, <1>8, <1>9, <1>10, BusyStep DEF Shown

-----------------------------------------------------------------------------
(* The insertion of an entity                                                *)

LEMMA PersistingRows ==
  ASSUME NEW st \in StatusColumn, NEW e \in Entity, st[e] = NoRow,
         NEW fb \in {{}} \cup FallbackChoices(st, e)
  PROVE  /\ Persisting(st, e, fb) \in StatusColumn
         /\ \A x \in Entity :
              /\ Persisting(st, e, fb)[x] = NoRow => st[x] = NoRow
              /\ st[x] = "obsolete" => Persisting(st, e, fb)[x] = "obsolete"
         /\ Persisting(st, e, fb)[e] \in Status
<1> DEFINE s == DetermineStatus(st, e, PendingBundles)
           st1 == FallbackUpdated(Inserted(st, e, s), fb, s)
<1>1. s \in Status
  BY DetermineStatusType
<1>2. fb \in SUBSET FallbackCandidates(st, e)
  BY FallbackChoicesServed
<1>3. st1 = Persisting(st, e, fb)
  BY DEF Persisting
<1> HIDE DEF s, st1
<1>4. /\ st1 \in StatusColumn /\ st1[e] = s
      /\ \A x \in Entity : x # e =>
           \/ st1[x] = st[x]
           \/ /\ x \in FallbackCandidates(st, e)
              /\ \/ st1[x] = "fallback"
                 \/ st1[x] = "obsolete" /\ s \in {"obsolete", "complete"}
  BY <1>1, <1>2, InsertionEffect DEF st1
<1>5. \A x \in FallbackCandidates(st, e) : st[x] \in ServedStatus
  BY DEF FallbackCandidates
<1>6. \A x \in Entity : /\ st1[x] = NoRow => st[x] = NoRow
                        /\ st[x] = "obsolete" => st1[x] = "obsolete"
  <2> SUFFICES ASSUME NEW x \in Entity
               PROVE  /\ st1[x] = NoRow => st[x] = NoRow
                      /\ st[x] = "obsolete" => st1[x] = "obsolete"
    BY Zenon
  <2>1. CASE x = e
    BY <2>1 DEF NoRow
  <2>2. CASE x # e
    BY <1>4, <1>5, <2>2 DEF NoRow, ServedStatus
  <2>3. QED
    BY <2>1, <2>2
<1>7. QED
  BY <1>1, <1>3, <1>4, <1>6

LEMMA SettledShape ==
  ASSUME SettledInv PROVE settledStatus \in StatusColumn
  BY DEF SettledInv

(* An insertion that ends its operation is a deployment: a whole one, or one *)
(* interrupted before the fallback update.                                   *)
LEMMA ShowsDeployment ==
  ASSUME SettledInv, HandlersInv', Settle, UNCHANGED <<bundles, historical, purge>>, RowsSafe,
         NEW w \in Worker, Worker = {w}, job'[w] = Idle,
         NEW e \in Entity, settledStatus[e] = NoRow, NEW interrupted \in Interruption,
         NEW fb \in IF interrupted THEN {{}} ELSE FallbackChoices(settledStatus, e),
         Restored(status', purged) = Persisting(settledStatus, e, fb)
  PROVE  SettledInv' /\ Simulated
<1>1. \A x \in Entity : status'[x] = NoRow => bundles'[x] = PendingBundles
  BY DEF RowsSafe, SettledInv
<1>2. /\ SettledInv' /\ UNCHANGED settledHistorical
      /\ settledStatus' = Persisting(settledStatus, e, fb)
      /\ settledBundles' = [x \in Entity |-> IF x \in purged THEN settledBundles[x] ELSE bundles[x]]
  BY <1>1, EndStep
<1>3. \A x \in Entity :
        (IF x \in purged THEN settledBundles[x] ELSE bundles[x]) = settledBundles[x]
  BY DEF SettledInv
<1>4. settledBundles' = settledBundles
  BY <1>2, <1>3 DEF SettledInv
<1>5. settledBundles' = [settledBundles EXCEPT ![e] = PendingBundles]
  BY <1>4 DEF SettledInv
<1>6. Service!EventNext
  BY <1>2, <1>5, MapsToDeployment
<1>7. QED
  BY <1>2, <1>6 DEF Simulated

(* Where persistAndRotateStates ends.                                        *)
LEMMA SettledPersisted ==
  ASSUME SettledInv, HandlersInv', Settle, UNCHANGED <<bundles, historical, purge>>, RowsSafe,
         NEW w \in Worker, Worker = {w}, job[w] \in Job, job[w] # Idle, Persisted(w),
         Fresh(job[w], settledStatus, settledBundles, settledHistorical),
         NEW fb \in FallbackChoices(settledStatus, job[w].entity),
         Restored(status', purged) = Persisting(settledStatus, job[w].entity, fb)
  PROVE  SettledInv' /\ Simulated
<1> DEFINE e == job[w].entity
<1>1. e \in Entity /\ settledStatus[e] = NoRow
  BY DEF Job, Fresh
<1>2. CASE job[w].op = "conversion"
  <2>1. job' = [job EXCEPT ![w] = [job[w] EXCEPT !.pc = "begin", !.rows = {}]]
    BY <1>2 DEF Persisted, Goto
  <2>2. /\ job'[w].pc = "begin" /\ job'[w].op = "conversion" /\ job'[w].entity = e
        /\ job'[w].result = job[w].result /\ job'[w].previous = job[w].previous
    BY <1>2, <2>1 DEF Job, SettledInv, HandlersInv
  <2>3. ResultSettled(job'[w], settledBundles) /\ e \notin settledHistorical
    BY <1>2, <2>2 DEF Fresh, ResultSettled
  <2>4. Landed(job'[w], settledStatus, settledBundles, Restored(status', purged),
               settledHistorical)
    BY <1>1, <2>2, <2>3 DEF Landed
  <2>5. JobSettled(job'[w], settledStatus, settledBundles, Restored(status', purged),
                   settledHistorical)
    BY <2>2, <2>4 DEF JobSettled
  <2>6. job'[w] # Idle /\ ~InTransaction(job'[w])
    BY <2>2 DEF Idle, InTransaction
  <2>7. QED
    BY <2>5, <2>6, BusyStep
<1>3. CASE job[w].op # "conversion"
  <2>1. job'[w] = Idle
    BY <1>3 DEF Persisted, Finish, Goto, SettledInv, HandlersInv
  <2>2. FALSE \in Interruption
    BY SerialAssumption
  <2>3. QED
    BY <1>1, <2>1, <2>2, ShowsDeployment
<1>4. QED
  BY <1>2, <1>3

LEMMA SettledInsert ==
  ASSUME SettledInv, HandlersInv', Settle, NEW w \in Worker, Worker = {w}, Insert(w)
  PROVE  SettledInv' /\ Simulated
<1> DEFINE e == job[w].entity
           s == job[w].next
<1>1. /\ job[w].pc = "insert" /\ job[w] \in Job /\ job[w] # Idle /\ e \in Entity
      /\ s \in Status /\ UNCHANGED <<historical, purge>>
  BY JobParts DEF Insert, At, SettledInv
<1>2. /\ Shown = settledStatus
      /\ Fresh(job[w], settledStatus, settledBundles, settledHistorical)
      /\ Decided(job[w], settledStatus)
  BY <1>1 DEF SettledInv, JobSettled
<1>3. /\ settledStatus[e] = NoRow /\ job[w].bundles = PendingBundles
      /\ job[w].rows \in FallbackChoices(settledStatus, e)
      /\ s = DetermineStatus(settledStatus, e, PendingBundles)
  BY <1>2 DEF Fresh, Decided
<1>4. bundles' = [bundles EXCEPT ![e] = PendingBundles] /\ status' = [status EXCEPT ![e] = s]
  BY <1>3 DEF Insert, Inserted
<1>5. e \notin purged /\ status[e] = NoRow
  BY <1>1, <1>2, <1>3, ShownRows DEF NoRow
<1>6. bundles' = bundles
  BY <1>4, <1>5 DEF SettledInv, HandlersInv, TypeOK
<1>7. RowsSafe
  BY <1>1, <1>4, <1>5, ShownRows DEF RowsSafe, StatusColumn, NoRow
<1>8. Restored(status', purged) = Inserted(settledStatus, e, s)
  BY <1>1, <1>2, <1>4, <1>5, ShownRows DEF Restored, Inserted, Shown, StatusColumn
<1>9. Restored(status', purged) = Persisting(settledStatus, e, {})
  <2>1. Inserted(settledStatus, e, s) = FallbackUpdated(Inserted(settledStatus, e, s), {}, s)
    BY SettledShape DEF Inserted, FallbackUpdated, StatusColumn
  <2>2. QED
    BY <1>3, <1>8, <2>1 DEF Persisting
<1> HIDE DEF e, s
<1>10. CASE job[w].rows = {}
  <2>1. Persisted(w)
    BY <1>10 DEF Insert
  <2>2. QED
    BY <1>1, <1>2, <1>3, <1>6, <1>7, <1>9, <1>10, <2>1, SettledPersisted DEF e
<1>11. CASE job[w].rows # {}
  <2>1. job' = [job EXCEPT ![w] = [job[w] EXCEPT !.pc = "updateFallback"]]
    BY <1>11 DEF Insert, Goto
  <2>2. /\ job'[w].pc = "updateFallback" /\ job'[w].entity = e /\ job'[w].op = job[w].op
        /\ job'[w].bundles = job[w].bundles /\ job'[w].next = s
        /\ job'[w].rows = job[w].rows
        /\ job'[w].result = job[w].result /\ job'[w].previous = job[w].previous
    BY <1>1, <2>1 DEF Job, SettledInv, HandlersInv, e, s
  <2>3. Fresh(job'[w], settledStatus, settledBundles, settledHistorical)
    BY <1>2, <2>2 DEF Fresh, ResultSettled, e
  <2>4. Decided(job'[w], settledStatus)
    BY <1>3, <2>2 DEF Decided
  <2>5. JobSettled(job'[w], settledStatus, settledBundles, Restored(status', purged),
                   settledHistorical)
    BY <1>8, <2>2, <2>3, <2>4 DEF JobSettled
  <2>6. job'[w] # Idle /\ ~InTransaction(job'[w])
    BY <2>2 DEF Idle, InTransaction
  <2>7. QED
    BY <1>1, <1>6, <1>7, <2>5, <2>6, BusyStep
<1>12. QED
  BY <1>10, <1>11

LEMMA SettledUpdateFallback ==
  ASSUME SettledInv, HandlersInv', Settle, NEW w \in Worker, Worker = {w},
         UpdateFallback(w)
  PROVE  SettledInv' /\ Simulated
<1> DEFINE e == job[w].entity
           s == job[w].next
           fb == job[w].rows
<1>1. /\ job[w].pc = "updateFallback" /\ job[w] \in Job /\ job[w] # Idle /\ e \in Entity
      /\ UNCHANGED <<bundles, historical, purge>> /\ Persisted(w)
      /\ status' = FallbackUpdated(status, {x \in fb : Exists(x)}, s)
  BY JobParts DEF UpdateFallback, At, SettledInv
<1>2. /\ Fresh(job[w], settledStatus, settledBundles, settledHistorical)
      /\ fb \in FallbackChoices(settledStatus, e)
      /\ s = DetermineStatus(settledStatus, e, PendingBundles)
      /\ Shown = Inserted(settledStatus, e, s)
  BY <1>1 DEF SettledInv, JobSettled, Decided
<1> HIDE DEF e, s, fb
<1>3. \A x \in fb : x \in Entity /\ x # e /\ settledStatus[x] \notin {NoRow, "obsolete"}
  BY <1>2, FallbackChoicesServed
  DEF FallbackCandidates, Related, Overlap
<1>4. \A x \in fb : Shown[x] \notin {NoRow, "obsolete"}
  BY <1>2, <1>3 DEF Inserted, SettledInv, StatusColumn
<1>5. \A x \in fb : x \notin purged /\ status[x] \notin {NoRow, "obsolete"}
  BY <1>3, <1>4, ShownRows
<1>6. {x \in fb : Exists(x)} = fb
  BY <1>5 DEF Exists
<1>7. status' = FallbackUpdated(status, fb, s)
  BY <1>1, <1>6
<1>8. Restored(status', purged) = FallbackUpdated(Shown, fb, s)
  <2>1. \A x \in Entity : Restored(status', purged)[x] = FallbackUpdated(Shown, fb, s)[x]
    BY <1>5, <1>7, ShownRows DEF Restored, FallbackUpdated
  <2>2. QED
    BY <2>1 DEF Restored, FallbackUpdated
<1>9. Restored(status', purged) = Persisting(settledStatus, e, fb)
  BY <1>2, <1>8 DEF Persisting
<1>10. RowsSafe
  BY <1>5, <1>7, ShownRows DEF RowsSafe, FallbackUpdated, NoRow
<1>11. QED
  BY <1>1, <1>2, <1>9, <1>10, SettledPersisted DEF e

LEMMA SettledStoreBundle ==
  ASSUME SettledInv, HandlersInv', Settle, NEW w \in Worker, Worker = {w}, StoreBundle(w)
  PROVE  SettledInv' /\ Simulated
<1> DEFINE e == job[w].entity
<1>1. /\ job[w].pc = "storeBundle" /\ job[w] \in Job /\ e \in Entity
      /\ job' = [job EXCEPT ![w] = Idle]
      /\ bundles' = [bundles EXCEPT ![e] = IF Exists(e) THEN ResultBundles(w) ELSE @]
      /\ UNCHANGED <<status, historical, purge>>
  BY JobParts DEF StoreBundle, At, Finish, Goto, SettledInv
<1>2. /\ Shown = settledStatus /\ settledStatus[e] = "obsolete"
      /\ ResultSettled(job[w], settledBundles)
  BY <1>1 DEF SettledInv, JobSettled
<1>3. job'[w] = Idle
  BY <1>1 DEF SettledInv, HandlersInv
<1> HIDE DEF e
<1>4. CASE ~Exists(e)
  <2>1. bundles' = bundles
    BY <1>1, <1>4 DEF SettledInv, HandlersInv, TypeOK
  <2>2. QED
    BY <1>1, <1>2, <1>3, <2>1, QuietEnd
<1>5. CASE Exists(e)
  <2>1. PICK b \in EventBundle, ok \in BOOLEAN :
          /\ job[w].result = <<b[1], b[2], ok>>
          /\ job[w].previous = settledBundles[e][b[1]][b[2]]
    BY <1>2 DEF ResultSettled, e
  <2> DEFINE s == ConversionStatus(ok, settledBundles[e][b[1]][b[2]])
             bs == WithBundle(settledBundles[e], b[1], b[2], s)
  <2>2. e \notin purged /\ bundles[e] = settledBundles[e]
    BY <1>1, <1>5 DEF Exists, SettledInv
  <2>3. ResultBundles(w) = bs
    BY <2>1, <2>2 DEF ResultBundles, e
  <2>4. bundles' = [bundles EXCEPT ![e] = bs]
    BY <1>1, <1>5, <2>3
  <2> HIDE DEF bs, s
  <2>5. \A x \in Entity : status'[x] = NoRow => bundles'[x] = PendingBundles
    BY <1>1, <1>5, <2>4 DEF SettledInv, HandlersInv, TypeOK, Exists
  <2>6. RowsSafe
    BY <1>1, ShownRows DEF RowsSafe
  <2>7. /\ SettledInv' /\ UNCHANGED settledHistorical /\ settledStatus' = Shown
        /\ settledBundles' =
             [x \in Entity |-> IF x \in purged THEN settledBundles[x] ELSE bundles'[x]]
    BY <1>1, <1>3, <2>5, <2>6, EndStep DEF Shown
  <2>8. \A x \in Entity : (IF x \in purged THEN settledBundles[x] ELSE bundles'[x])
                             = IF x = e THEN bs ELSE settledBundles[x]
    BY <2>2, <2>4 DEF SettledInv, HandlersInv, TypeOK
  <2>9. settledBundles' = [settledBundles EXCEPT ![e] = bs]
    BY <2>7, <2>8 DEF SettledInv
  <2>10. s = ConversionStatus(ok, settledBundles[e][b[1]][b[2]])
         /\ bs = WithBundle(settledBundles[e], b[1], b[2], s)
    BY DEF s, bs
  <2>11. Service!EventNext
    BY <1>1, <1>2, <2>7, <2>9, <2>10, MapsToConversion
  <2>12. QED
    BY <2>7, <2>11 DEF Simulated
<1>6. QED
  BY <1>4, <1>5

-----------------------------------------------------------------------------
(* The transaction of a conversion result                                    *)

\* The row of the entity is there for the transaction to lock.
LEMMA LandedExists ==
  ASSUME NEW j, NEW sts \in StatusColumn, NEW bs, NEW st, NEW hist, j.entity \in Entity,
         Landed(j, sts, bs, st, hist)
  PROVE  st[j.entity] # NoRow
<1>1. CASE sts[j.entity] \notin {NoRow, "obsolete"} /\ st = sts
  BY <1>1
<1>2. CASE /\ sts[j.entity] = NoRow
           /\ \E fb \in FallbackChoices(sts, j.entity) : st = Persisting(sts, j.entity, fb)
  <2>1. PICK fb \in FallbackChoices(sts, j.entity) : st = Persisting(sts, j.entity, fb)
    BY <1>2
  <2>2. fb \in {{}} \cup FallbackChoices(sts, j.entity)
    OBVIOUS
  <2>3. st[j.entity] \in Status
    BY <1>2, <2>1, <2>2, PersistingRows
  <2>4. QED
    BY <2>3 DEF Status, NoRow
<1>3. QED
  BY <1>1, <1>2 DEF Landed

\* The transaction goes on: what it works from has not moved.
LEMMA LandedOn ==
  ASSUME NEW j, NEW k, NEW sts, NEW bs, NEW st, NEW hist, Landed(j, sts, bs, st, hist),
         k.op = j.op, k.entity = j.entity, k.result = j.result, k.previous = j.previous
  PROVE  Landed(k, sts, bs, st, hist) /\ ResultApplied(k, bs) = ResultApplied(j, bs)
<1>1. ResultApplied(k, bs) = ResultApplied(j, bs)
  BY DEF ResultApplied
<1>2. ResultSettled(j, bs) => ResultSettled(k, bs)
  BY DEF ResultSettled
<1>3. QED
  BY <1>1, <1>2 DEF Landed

\* An entity inserted as OBSOLETE stays so: the newer registry is still served.
LEMMA LandedObsolete ==
  ASSUME NEW j, NEW sts \in StatusColumn, NEW bs, NEW st, NEW hist, j.entity \in Entity,
         Landed(j, sts, bs, st, hist), st[j.entity] = "obsolete", NEW b
  PROVE  DetermineStatus(st, j.entity, b) = "obsolete"
<1> DEFINE e == j.entity
<1>1. PICK fb \in FallbackChoices(sts, e) : st = Persisting(sts, e, fb)
  BY DEF Landed
<1>2. sts[e] = NoRow
  BY DEF Landed
<1> DEFINE s == DetermineStatus(sts, e, PendingBundles)
<1>3. s = "obsolete" /\ \A x \in Entity : x # e /\ x \notin fb => st[x] = sts[x]
  <2>1. fb \in SUBSET FallbackCandidates(sts, e)
    BY FallbackChoicesServed
  <2>2. e \notin fb
    BY <2>1 DEF FallbackCandidates, Related, Overlap
  <2>3. st[e] = s
    BY <1>1, <2>2 DEF Persisting, FallbackUpdated, Inserted, StatusColumn
  <2>4. \A x \in Entity : x # e /\ x \notin fb => st[x] = sts[x]
    BY <1>1 DEF Persisting, FallbackUpdated, Inserted, StatusColumn
  <2>5. QED
    BY <2>3, <2>4
<1>4. PICK n \in Newer(sts, e) : sts[n] \in ServedStatus
  BY <1>3 DEF DetermineStatus, BundlesVerdict
<1>5. n \in Entity /\ Overlap(e, n) /\ TimestampOf[n] > TimestampOf[e]
  BY <1>4 DEF Newer, Related
<1>6. n # e /\ n \notin fb
  <2>1. fb \in SUBSET FallbackCandidates(sts, e)
    BY FallbackChoicesServed
  <2>2. QED
    BY <1>5, <2>1, EntityAssumption DEF FallbackCandidates, Overlap
<1>7. st[n] \in ServedStatus
  BY <1>3, <1>4, <1>5, <1>6
<1>8. n \in Newer(st, e)
  BY <1>5, <1>7 DEF Newer, Related, ServedStatus, NoRow
<1>9. QED
  BY <1>7, <1>8 DEF DetermineStatus

LEMMA SettledBegin ==
  ASSUME SettledInv, HandlersInv', Settle, NEW w \in Worker, Worker = {w}, Begin(w)
  PROVE  SettledInv' /\ Simulated
<1> DEFINE e == job[w].entity
           b == ResultBundles(w)
<1>1. /\ job[w].pc = "begin" /\ job[w] \in Job /\ job[w] # Idle /\ e \in Entity
      /\ UNCHANGED <<status, bundles, historical, purge>>
  BY JobParts DEF Begin, At, Tables, SettledInv
<1>2. Landed(job[w], settledStatus, settledBundles, Shown, settledHistorical)
  BY <1>1 DEF SettledInv, JobSettled
<1>3. RowsSafe
  BY <1>1, ShownRows DEF RowsSafe
<1>4. CASE Exists(e)
  <2>1. job' = [job EXCEPT ![w] = [job[w] EXCEPT !.pc = "readRelatedInTx", !.held = {e},
                                                 !.bundles = b]]
    BY <1>4 DEF Begin, Goto
  <2>2. e \notin purged /\ bundles[e] = settledBundles[e]
    BY <1>1, <1>4 DEF Exists, SettledInv
  <2>3. b = ResultApplied(job[w], settledBundles)
    BY <2>2 DEF ResultBundles, ResultApplied
  <2> HIDE DEF b
  <2>4. /\ job'[w].pc = "readRelatedInTx" /\ job'[w].held = {e} /\ job'[w].bundles = b
        /\ job'[w].entity = e /\ job'[w].op = job[w].op
        /\ job'[w].result = job[w].result /\ job'[w].previous = job[w].previous
    BY <1>1, <2>1 DEF Job, SettledInv, HandlersInv
  <2> HIDE DEF e
  <2>5. /\ Landed(job'[w], settledStatus, settledBundles, Shown, settledHistorical)
        /\ job'[w].bundles = ResultApplied(job'[w], settledBundles)
    BY <1>2, <2>3, <2>4, LandedOn DEF e
  <2>6. JobSettled(job'[w], settledStatus, settledBundles, Shown, settledHistorical)
    BY <2>4, <2>5 DEF JobSettled
  <2>7. job'[w] # Idle /\ status'[job'[w].entity] # NoRow
    BY <1>1, <1>4, <2>4 DEF Idle, Exists
  <2>8. QED
    BY <1>1, <1>3, <2>6, <2>7, BusyStep DEF Shown
<1>5. CASE ~Exists(e)
  <2>1. job'[w] = Idle
    BY <1>5 DEF Begin, Finish, Goto, SettledInv, HandlersInv
  <2>2. CASE settledStatus[e] \notin {NoRow, "obsolete"} /\ Shown = settledStatus
    BY <1>1, <1>5, <2>2, ShownRows DEF Exists
  <2>3. CASE /\ settledStatus[e] = NoRow
             /\ \E fb \in FallbackChoices(settledStatus, e) :
                  Shown = Persisting(settledStatus, e, fb)
    <3>1. FALSE \in Interruption
      BY SerialAssumption
    <3>2. QED
      BY <1>1, <1>3, <2>1, <2>3, <3>1, ShowsDeployment DEF Shown
  <2>4. QED
    BY <1>2, <2>2, <2>3 DEF Landed
<1>6. QED
  BY <1>4, <1>5

LEMMA SettledReadRelatedInTx ==
  ASSUME SettledInv, HandlersInv', Settle, NEW w \in Worker, Worker = {w},
         ReadRelatedInTx(w)
  PROVE  SettledInv' /\ Simulated
<1> DEFINE e == job[w].entity
           s == DetermineStatus(status, e, job[w].bundles)
           rows == IF s \in {"complete", "obsolete"} THEN NotNewer(status, e) ELSE {}
<1>1. /\ job[w].pc = "readRelatedInTx" /\ job[w] \in Job /\ job[w] # Idle /\ e \in Entity
      /\ job' = [job EXCEPT ![w] = [job[w] EXCEPT !.pc = "rotate", !.next = s, !.rows = rows]]
      /\ UNCHANGED <<status, bundles, historical, purge>>
  BY JobParts DEF ReadRelatedInTx, At, Goto, Tables, SettledInv
<1>2. /\ Landed(job[w], settledStatus, settledBundles, Shown, settledHistorical)
      /\ job[w].bundles = ResultApplied(job[w], settledBundles)
      /\ job[w].held = {e} /\ Exists(e)
  BY <1>1 DEF SettledInv, JobSettled, InTransaction
<1>3. /\ rows = {x \in NotNewer(Shown, e) : s \in {"complete", "obsolete"}}
      /\ s = DetermineStatus(Shown, e, job[w].bundles)
  BY ShownReads
<1> HIDE DEF s, rows
<1>4. /\ job'[w].pc = "rotate" /\ job'[w].held = {e} /\ job'[w].bundles = job[w].bundles
      /\ job'[w].next = s /\ job'[w].rows = rows
      /\ job'[w].entity = e /\ job'[w].op = job[w].op
      /\ job'[w].result = job[w].result /\ job'[w].previous = job[w].previous
  BY <1>1, <1>2 DEF Job, SettledInv, HandlersInv
<1>5. /\ Landed(job'[w], settledStatus, settledBundles, Shown, settledHistorical)
      /\ job'[w].bundles = ResultApplied(job'[w], settledBundles)
  BY <1>2, <1>4, LandedOn
<1>6. Rotating(job'[w], Shown)
  BY <1>3, <1>4 DEF Rotating
<1>7. JobSettled(job'[w], settledStatus, settledBundles, Shown, settledHistorical)
  BY <1>4, <1>5, <1>6 DEF JobSettled
<1>8. job'[w] # Idle /\ status'[job'[w].entity] # NoRow
  <2>1. status[job'[w].entity] # NoRow
    BY <1>2, <1>4 DEF Exists
  <2>2. job'[w] # Idle
    BY <1>4 DEF Idle
  <2>3. QED
    BY <1>1, <2>1, <2>2
<1>9. RowsSafe
  BY <1>1, ShownRows DEF RowsSafe
<1>10. QED
  BY <1>1, <1>7, <1>8, <1>9, BusyStep DEF Shown

LEMMA SettledRotateRow ==
  ASSUME SettledInv, HandlersInv', Settle, NEW w \in Worker, Worker = {w},
         NEW x \in Entity, RotateRow(w, x)
  PROVE  SettledInv' /\ Simulated
<1> DEFINE e == job[w].entity
<1>1. /\ job[w].pc = "rotate" /\ job[w] \in Job /\ job[w] # Idle
      /\ e \in Entity /\ x \in job[w].rows
      /\ UNCHANGED <<status, bundles, historical, purge>>
  BY JobParts DEF RotateRow, At, Tables, SettledInv
<1>2. /\ Landed(job[w], settledStatus, settledBundles, Shown, settledHistorical)
      /\ job[w].bundles = ResultApplied(job[w], settledBundles)
      /\ e \in job[w].held /\ Exists(e)
      /\ Rotating(job[w], Shown)
  BY <1>1 DEF SettledInv, JobSettled, InTransaction
<1>3. Exists(x)
  <2>1. x = e \/ x \in NotNewer(Shown, e)
    BY <1>1, <1>2 DEF Rotating
  <2>2. x \in NotNewer(Shown, e) => Shown[x] \notin {NoRow, "obsolete"}
    BY DEF NotNewer, Related
  <2>3. QED
    BY <1>2, <2>1, <2>2, ShownRows DEF Exists
<1>4. job' = [job EXCEPT ![w] = [job[w] EXCEPT !.rows = @ \ {x}, !.held = @ \cup {x}]]
  BY <1>3 DEF RotateRow, Goto
<1>5. /\ job'[w].pc = "rotate" /\ job'[w].held = job[w].held \cup {x}
      /\ job'[w].rows = job[w].rows \ {x} /\ job'[w].next = job[w].next
      /\ job'[w].bundles = job[w].bundles
      /\ job'[w].entity = e /\ job'[w].op = job[w].op
      /\ job'[w].result = job[w].result /\ job'[w].previous = job[w].previous
  BY <1>1, <1>4 DEF Job, SettledInv, HandlersInv
<1>6. /\ Landed(job'[w], settledStatus, settledBundles, Shown, settledHistorical)
      /\ job'[w].bundles = ResultApplied(job'[w], settledBundles)
  BY <1>2, <1>5, LandedOn
<1>7. job'[w].rows \cup job'[w].held = job[w].rows \cup job[w].held
  BY <1>1, <1>5
<1>8. Rotating(job'[w], Shown)
  BY <1>2, <1>5, <1>7 DEF Rotating
<1>9. JobSettled(job'[w], settledStatus, settledBundles, Shown, settledHistorical)
  BY <1>2, <1>5, <1>6, <1>8 DEF JobSettled
<1>10. job'[w] # Idle /\ status'[job'[w].entity] # NoRow
  BY <1>1, <1>2, <1>5 DEF Idle, Exists
<1>11. RowsSafe
  BY <1>1, ShownRows DEF RowsSafe
<1>12. QED
  BY <1>1, <1>9, <1>10, <1>11, BusyStep DEF Shown

LEMMA SettledCommit ==
  ASSUME SettledInv, HandlersInv', Settle, NEW w \in Worker, Worker = {w}, Commit(w)
  PROVE  SettledInv' /\ Simulated
<1> DEFINE e == job[w].entity
           bs == job[w].bundles
<1>1. /\ job[w].pc = "rotate" /\ job[w] \in Job /\ e \in Entity /\ job[w].rows = {}
      /\ job[w].next \in Status /\ bs \in Bundles
      /\ job' = [job EXCEPT ![w] = Idle]
      /\ status' = [x \in Entity |-> IF x = e THEN job[w].next
                                     ELSE IF x \in job[w].held THEN "obsolete"
                                     ELSE status[x]]
      /\ bundles' = [bundles EXCEPT ![e] = bs]
      /\ UNCHANGED <<historical, purge>>
  BY JobParts DEF Commit, At, Finish, Goto, SettledInv
<1>2. /\ Landed(job[w], settledStatus, settledBundles, Shown, settledHistorical)
      /\ bs = ResultApplied(job[w], settledBundles)
      /\ Rotating(job[w], Shown) /\ Exists(e)
  BY <1>1 DEF SettledInv, JobSettled, InTransaction
<1>3. job'[w] = Idle
  BY <1>1 DEF SettledInv, HandlersInv
<1>4. e \notin purged
  BY <1>2 DEF Exists, SettledInv
<1>5. Shown[e] = "obsolete" => job[w].next = "obsolete"
  BY <1>1, <1>2, LandedObsolete, SettledShape DEF Rotating
<1>6. ResultSettled(job[w], settledBundles)
  BY <1>2 DEF Landed
<1> HIDE DEF e, bs
<1>7. /\ job[w].next = DetermineStatus(Shown, e, bs)
      /\ job[w].held = {e} \cup {x \in NotNewer(Shown, e) :
                                   job[w].next \in {"complete", "obsolete"}}
  BY <1>1, <1>2 DEF Rotating, e, bs
<1>8. \A x \in job[w].held : x \notin purged /\ status[x] # NoRow
  BY <1>2, <1>4, <1>7, ShownRows DEF NotNewer, Related, Exists
<1>9. Restored(status', purged) = Rotated(Shown, e, bs)
  <2>1. \A x \in Entity :
          Restored(status', purged)[x]
            = IF x = e THEN job[w].next
              ELSE IF x \in job[w].held THEN "obsolete" ELSE Shown[x]
    BY <1>1, <1>4, <1>8, ShownRows DEF Restored
  <2>2. \A x \in Entity :
          Rotated(Shown, e, bs)[x]
            = IF x = e THEN job[w].next
              ELSE IF x \in job[w].held THEN "obsolete" ELSE Shown[x]
    BY <1>7 DEF Rotated
  <2>3. QED
    BY <2>1, <2>2 DEF Restored, Rotated
<1>10. RowsSafe
  <2>1. status[e] = Shown[e]
    BY <1>1, <1>4, ShownRows DEF e
  <2>2. QED
    BY <1>1, <1>4, <1>5, <1>8, <2>1, ShownRows DEF RowsSafe, Status, NoRow
<1>11. \A x \in Entity : status'[x] = NoRow => bundles'[x] = PendingBundles
  BY <1>1, <1>10 DEF SettledInv, HandlersInv, TypeOK, Status, NoRow, RowsSafe
<1>12. /\ SettledInv' /\ UNCHANGED settledHistorical
       /\ settledStatus' = Rotated(Shown, e, bs)
       /\ settledBundles' =
            [x \in Entity |-> IF x \in purged THEN settledBundles[x] ELSE bundles'[x]]
  BY <1>1, <1>3, <1>9, <1>10, <1>11, EndStep
<1>13. \A x \in Entity : (IF x \in purged THEN settledBundles[x] ELSE bundles'[x])
                            = IF x = e THEN bs ELSE settledBundles[x]
  BY <1>1, <1>4 DEF SettledInv, HandlersInv, TypeOK
<1>14. settledBundles' = [settledBundles EXCEPT ![e] = bs]
  BY <1>12, <1>13 DEF SettledInv
<1>15. PICK b \in EventBundle, ok \in BOOLEAN :
         /\ job[w].result = <<b[1], b[2], ok>>
         /\ job[w].previous = settledBundles[e][b[1]][b[2]]
  BY <1>6 DEF ResultSettled, e
<1> DEFINE s == ConversionStatus(ok, settledBundles[e][b[1]][b[2]])
<1>16. bs = WithBundle(settledBundles[e], b[1], b[2], s)
  BY <1>2, <1>15 DEF ResultApplied, e
<1>17. \/ /\ settledStatus[e] \notin {NoRow, "obsolete"}
          /\ settledStatus' = Rotated(settledStatus, e, bs)
       \/ /\ settledStatus[e] = NoRow /\ e \notin settledHistorical
          /\ settledBundles[e] = PendingBundles
          /\ \E fb \in FallbackChoices(settledStatus, e) :
               settledStatus' = Rotated(Persisting(settledStatus, e, fb), e, bs)
  <2>1. CASE settledStatus[e] \notin {NoRow, "obsolete"} /\ Shown = settledStatus
    BY <1>12, <2>1
  <2>2. CASE /\ settledStatus[e] = NoRow /\ e \notin settledHistorical
             /\ \E fb \in FallbackChoices(settledStatus, e) :
                  Shown = Persisting(settledStatus, e, fb)
    <3>1. settledBundles[e] = PendingBundles
      BY <1>1, <2>2 DEF SettledInv, e
    <3>2. QED
      BY <1>12, <2>2, <3>1
  <2>3. QED
    BY <1>2, <2>1, <2>2 DEF Landed, e
<1> HIDE DEF s
<1>18. Service!EventNext
  <2>1. s = ConversionStatus(ok, settledBundles[e][b[1]][b[2]])
    BY DEF s
  <2>2. e \in Entity /\ UNCHANGED settledHistorical
    BY <1>1, <1>12 DEF e
  <2>3. QED
    BY ONLY <1>14, <1>16, <1>17, <2>1, <2>2, MapsToConversion
<1>19. QED
  BY <1>12, <1>18 DEF Simulated

LEMMA SettledFail ==
  ASSUME SettledInv, HandlersInv', Settle, NEW w \in Worker, Worker = {w}, Fail(w)
  PROVE  SettledInv' /\ Simulated
<1> DEFINE e == job[w].entity
<1>1. /\ job[w] # Idle /\ job' = [job EXCEPT ![w] = Idle]
      /\ UNCHANGED <<status, bundles, historical, purge>>
  BY DEF Fail, Finish, Goto, Tables
<1>2. job[w] \in Job /\ e \in Entity
  <2>1. job[w] \in Job
    BY <1>1 DEF SettledInv, HandlersInv
  <2>2. QED
    BY <2>1 DEF Job
<1>3. job'[w] = Idle
  BY <1>1 DEF SettledInv, HandlersInv
<1>4. FALSE \in Interruption
  BY SerialAssumption
<1>5. JobSettled(job[w], settledStatus, settledBundles, Shown, settledHistorical)
  BY DEF SettledInv
<1>6. RowsSafe
  BY <1>1, ShownRows DEF RowsSafe
<1>7. CASE job[w].pc \in {"readHistorical", "readRelated", "insert", "storeBundle", "undeploy"}
  BY <1>1, <1>3, <1>5, <1>7, QuietEnd DEF JobSettled
<1>8. CASE job[w].pc = "updateFallback"
  <2>1. Fault
    <3>1. SUFFICES ASSUME Deadlocked(w) PROVE FALSE
      BY DEF Fail
    <3>2. PICK S \in SUBSET Worker :
            /\ w \in S
            /\ \A v \in S : /\ At(v, "rotate") /\ job[v].rows # {}
                            /\ job[v].rows \subseteq HeldBy(S \ {v})
      BY <3>1 DEF Deadlocked
    <3>3. QED
      BY <1>8, <3>2 DEF At
  <2>2. TRUE \in Interruption
    BY <2>1, SerialAssumption
  <2>3. /\ settledStatus[e] = NoRow
        /\ Shown = Inserted(settledStatus, e, job[w].next)
        /\ job[w].next = DetermineStatus(settledStatus, e, PendingBundles)
    BY <1>5, <1>8 DEF JobSettled, Fresh, Decided
  <2> DEFINE s == job[w].next
  <2>4. Inserted(settledStatus, e, s) = FallbackUpdated(Inserted(settledStatus, e, s), {}, s)
    BY SettledShape DEF Inserted, FallbackUpdated, StatusColumn
  <2>5. Restored(status', purged) = Persisting(settledStatus, e, {})
    BY <1>1, <2>3, <2>4 DEF Persisting, Shown
  <2>6. QED
    BY <1>1, <1>2, <1>3, <1>6, <2>2, <2>3, <2>5, ShowsDeployment
<1>9. CASE job[w].pc \in {"begin", "readRelatedInTx", "rotate"}
  <2>1. Landed(job[w], settledStatus, settledBundles, Shown, settledHistorical)
    BY <1>5, <1>9 DEF JobSettled
  <2>2. CASE Shown = settledStatus
    BY <1>1, <1>3, <2>2, QuietEnd
  <2>3. CASE /\ settledStatus[e] = NoRow
             /\ \E fb \in FallbackChoices(settledStatus, e) :
                  Shown = Persisting(settledStatus, e, fb)
    BY <1>1, <1>2, <1>3, <1>4, <1>6, <2>3, ShowsDeployment DEF Shown
  <2>4. QED
    BY <2>1, <2>2, <2>3 DEF Landed
<1>10. QED
  BY <1>2, <1>7, <1>8, <1>9 DEF Job

-----------------------------------------------------------------------------
(* The purger, at any statement of the worker                                *)

(* The purger moves: it may copy OBSOLETE rows, or delete the rows ids.      *)
LEMMA PurgeSettled ==
  ASSUME SettledInv, HandlersInv', Settle, NEW w \in Worker, Worker = {w}, UNCHANGED job,
         purge' # purge,
         historical \subseteq historical',
         \A x \in historical' \ historical : status[x] = "obsolete",
         NEW ids \in SUBSET Entity, ids \subseteq historical,
         \A x \in ids : status[x] = "obsolete",
         InTransaction(job[w]) => job[w].entity \notin ids,
         status' = Deleted(status, ids),
         bundles' = [x \in Entity |-> IF x \in ids THEN PendingBundles ELSE bundles[x]],
         \A x \in purge'.batch \cup purge'.copied : status'[x] = "obsolete"
  PROVE  SettledInv' /\ Simulated
<1>1. \A x \in Entity : status'[x] = NoRow => bundles'[x] = PendingBundles
  <2>1. \A x \in Entity : status[x] = NoRow => bundles[x] = PendingBundles
    BY DEF SettledInv
  <2>2. \A x \in Entity : status'[x] = NoRow => x \in ids \/ status[x] = NoRow
    BY DEF Deleted
  <2>3. QED
    BY <2>1, <2>2
<1>2. InTransaction(job'[w]) => status'[job'[w].entity] # NoRow
  <2> SUFFICES ASSUME InTransaction(job[w]) PROVE status'[job[w].entity] # NoRow
    OBVIOUS
  <2>1. job[w].entity \in Entity /\ Exists(job[w].entity)
    BY JobParts DEF SettledInv, InTransaction, At
  <2>2. QED
    BY <2>1 DEF Deleted, Exists
<1>3. CASE job[w] = Idle
  <2>1. ShowTables
    BY <1>3, SettleCases
  <2>2. Shown = settledStatus
    BY <1>3, IdleJob DEF SettledInv, JobSettled
  <2>3. Service!EventNext
    BY <2>1, <2>2, ShowsPurge
  <2>4. JobSettled(job'[w], status', bundles', status', historical')
    BY <1>3, IdleSettled
  <2>5. SettledInv'
    BY <1>1, <1>2, <2>1, <2>4, NothingHidden
  <2>6. QED
    BY <2>3, <2>5 DEF Simulated
<1>4. CASE job[w] # Idle
  <2>1. Hide
    BY <1>4, SettleCases
  <2>2. UNCHANGED settled /\ purged' = purged \cup ids
    <3>1. {x \in Entity : status[x] # NoRow /\ status'[x] = NoRow} = ids
      BY DEF Deleted, NoRow
    <3>2. QED
      BY <2>1, <3>1 DEF Hide
  <2>3. \A x \in Entity : Shown'[x] = Shown[x]
    BY <2>2 DEF Shown, Restored, Deleted
  <2>4. Shown' = Shown
    BY <2>3 DEF Shown, Restored
  <2>5. \A v \in Worker :
          /\ InTransaction(job'[v]) => status'[job'[v].entity] # NoRow
          /\ JobSettled(job'[v], settledStatus', settledBundles', Shown', settledHistorical')
    BY <1>2, <2>2, <2>4 DEF SettledInv, settled
  <2>6. settledHistorical' \subseteq historical' /\ purged' \subseteq historical'
    BY <2>2 DEF SettledInv, settled
  <2>7. \A x \in purged' : status'[x] = NoRow
    BY <2>2, ShownRows DEF Deleted
  <2>8. \A x \in historical' \ settledHistorical' : Shown'[x] = "obsolete"
    <3>1. \A x \in Entity : status[x] = "obsolete" => Shown[x] = "obsolete"
      BY DEF Shown, Restored
    <3>2. historical' \subseteq Entity
      BY DEF HandlersInv, TypeOK
    <3>3. QED
      BY <2>2, <2>4, <3>1, <3>2 DEF SettledInv, settled
  <2>9. \A x \in Entity :
         /\ x \notin purged' => settledBundles'[x] = bundles'[x]
         /\ settledStatus'[x] = NoRow => settledBundles'[x] = PendingBundles
    BY <2>2 DEF SettledInv, settled
  <2>10. SettledInv'
    BY <1>1, <2>2, <2>5, <2>6, <2>7, <2>8, <2>9 DEF SettledInv, settled, Exists
  <2>11. QED
    BY <2>2, <2>10 DEF Simulated
<1>5. QED
  BY <1>3, <1>4

\* Where the purger deletes nothing, it deletes the empty set.
LEMMA PurgerCopies ==
  ASSUME SettledInv, HandlersInv', Settle, NEW w \in Worker, Worker = {w}, UNCHANGED job,
         purge' # purge, UNCHANGED <<status, bundles>>,
         historical \subseteq historical',
         \A x \in historical' \ historical : status[x] = "obsolete",
         \A x \in purge'.batch \cup purge'.copied : status'[x] = "obsolete"
  PROVE  SettledInv' /\ Simulated
<1> DEFINE ids == {}
<1>1. ids \in SUBSET Entity /\ ids \subseteq historical
      /\ (\A x \in ids : status[x] = "obsolete") /\ job[w].entity \notin ids
  OBVIOUS
<1>2. /\ status' = Deleted(status, ids)
      /\ bundles' = [x \in Entity |-> IF x \in ids THEN PendingBundles ELSE bundles[x]]
  BY ShownRows DEF Deleted, SettledInv, HandlersInv, TypeOK, StatusColumn
<1> HIDE DEF ids
<1>3. QED
  BY <1>1, <1>2, PurgeSettled

LEMMA SettledPurgeSelect ==
  ASSUME SettledInv, HandlersInv', Settle, NEW w \in Worker, Worker = {w},
         NEW ids \in SUBSET Entity, PurgeSelect(ids)
  PROVE  SettledInv' /\ Simulated
<1>1. /\ UNCHANGED <<status, bundles, historical, job>>
      /\ purge = [batch |-> {}, copied |-> {}] /\ purge' = [batch |-> ids, copied |-> {}]
      /\ ids # {} /\ \A x \in ids : status[x] = "obsolete"
  BY DEF PurgeSelect, Tables
<1>2. purge' # purge
  <2>1. purge.batch = {} /\ purge'.batch = ids
    BY <1>1
  <2>2. QED
    BY <1>1, <2>1
<1>3. \A x \in purge'.batch \cup purge'.copied : status'[x] = "obsolete"
  BY <1>1
<1>4. historical \subseteq historical' /\ historical' \ historical = {}
  BY <1>1
<1>5. QED
  BY <1>1, <1>2, <1>3, <1>4, PurgerCopies

LEMMA SettledPurgeCopy ==
  ASSUME SettledInv, HandlersInv', Settle, NEW w \in Worker, Worker = {w},
         NEW e \in Entity, PurgeCopyRow(e)
  PROVE  SettledInv' /\ Simulated
<1>1. e \in purge.batch /\ status[e] = "obsolete" /\ UNCHANGED <<status, bundles, job>>
  BY DEF PurgeCopyRow, SettledInv
<1>2. /\ purge'.batch = purge.batch \ {e} /\ purge'.copied \subseteq purge.copied \cup {e}
      /\ historical' \in {historical, historical \cup {e}}
  BY DEF PurgeCopyRow, SettledInv, HandlersInv
<1>3. purge' # purge
  BY <1>1, <1>2
<1>4. \A x \in purge'.batch \cup purge'.copied : status'[x] = "obsolete"
  BY <1>1, <1>2 DEF SettledInv
<1>5. /\ historical \subseteq historical'
      /\ \A x \in historical' \ historical : status[x] = "obsolete"
  BY <1>1, <1>2
<1>6. QED
  BY <1>1, <1>3, <1>4, <1>5, PurgerCopies

LEMMA SettledPurgeDelete ==
  ASSUME SettledInv, HandlersInv', Settle, NEW w \in Worker, Worker = {w}, PurgeDeleteRows
  PROVE  SettledInv' /\ Simulated
<1> DEFINE ids == purge.copied
<1>1. /\ purge.batch = {} /\ ids # {} /\ purge' = [purge EXCEPT !.copied = {}]
      /\ UNCHANGED <<historical, job>>
  BY DEF PurgeDeleteRows
<1>2. purge'.batch = {} /\ purge'.copied = {} /\ purge' # purge
  <2>1. purge'.batch = {} /\ purge'.copied = {}
    BY <1>1 DEF SettledInv, HandlersInv
  <2>2. QED
    BY <1>1, <2>1
<1>3. /\ ids \in SUBSET Entity /\ ids \subseteq historical
      /\ \A x \in ids : status[x] = "obsolete"
  BY DEF SettledInv, HandlersInv
<1>4. \A x \in purge'.batch \cup purge'.copied : status'[x] = "obsolete"
  BY <1>2
<1> HIDE DEF ids
<1>5. historical \subseteq historical' /\ historical' \ historical = {} /\ UNCHANGED job
  BY <1>1
<1>6. CASE UNCHANGED <<status, bundles>>
  BY <1>5, <1>2, <1>4, <1>6, PurgerCopies
<1>7. CASE /\ ids \cap HeldBy(Worker) = {}
           /\ status' = [x \in Entity |-> IF x \in ids THEN NoRow ELSE status[x]]
           /\ bundles' = [x \in Entity |-> IF x \in ids THEN PendingBundles ELSE bundles[x]]
  <2>1. InTransaction(job[w]) => job[w].entity \notin ids
    <3>1. InTransaction(job[w]) => job[w].held \subseteq HeldBy(Worker)
      BY DEF HeldBy, InTransaction, At
    <3>2. InTransaction(job[w]) => job[w].entity \in job[w].held
      BY DEF SettledInv, JobSettled, InTransaction
    <3>3. QED
      BY <1>7, <3>1, <3>2
  <2>2. status' = Deleted(status, ids)
    BY <1>7 DEF Deleted
  <2>3. QED
    BY <1>5, <1>2, <1>3, <1>4, <1>7, <2>1, <2>2, PurgeSettled
<1>8. QED
  BY <1>6, <1>7 DEF PurgeDeleteRows, ids

-----------------------------------------------------------------------------
(* The refinement                                                            *)

LEMMA SettledTake ==
  ASSUME SettledInv, HandlersInv', Settle, NEW w \in Worker, Worker = {w}, Take(w)
  PROVE  SettledInv' /\ Simulated
  BY SettledTakeDeployment, SettledTakeConversion, SettledTakeWorldUndeployment,
     SettledUndeployScenes, SerialAssumption DEF Take

LEMMA SettledStatement ==
  ASSUME SettledInv, HandlersInv', Settle, NEW w \in Worker, Worker = {w}, Statement(w)
  PROVE  SettledInv' /\ Simulated
  BY SettledReadHistorical, SettledReadRelated, SettledInsert, SettledUpdateFallback,
     SettledStoreBundle, SettledBegin, SettledReadRelatedInTx, SettledRotateRow,
     SettledCommit, SettledUndeployWorld, SettledFail
  DEF Statement, OtherStatement

LEMMA SettledStep ==
  SettledInv /\ [SerialNext]_serialVars => SettledInv' /\ Simulated
<1> SUFFICES ASSUME SettledInv, [SerialNext]_serialVars PROVE SettledInv' /\ Simulated
  OBVIOUS
<1>1. CASE UNCHANGED serialVars
  BY <1>1
  DEF serialVars, handlerVars, settled, SettledInv, HandlersInv, TypeOK, Simulated, Shown,
      Restored, Exists
<1>2. CASE SerialNext
  <2>1. HandlersNext /\ Settle
    BY <1>2 DEF SerialNext
  <2>2. HandlersInv'
    BY <2>1, HandlersStep DEF SettledInv
  <2>3. PICK w \in Worker : Worker = {w}
    BY SerialAssumption
  <2>4. CASE \E v \in Worker : Take(v) \/ Statement(v)
    BY <2>1, <2>2, <2>3, <2>4, SettledTake, SettledStatement
  <2>5. CASE Purger
    BY <2>1, <2>2, <2>3, <2>5, SettledPurgeSelect, SettledPurgeCopy, SettledPurgeDelete
    DEF Purger
  <2>6. QED
    BY <2>1, <2>4, <2>5 DEF HandlersNext
<1>3. QED
  BY <1>1, <1>2

LEMMA SettledInitially == SerialInit => SettledInv /\ Service!Init
<1> SUFFICES ASSUME SerialInit PROVE SettledInv /\ Service!Init
  OBVIOUS
<1>1. HandlersInv
  BY HandlersInitially DEF SerialInit
<1>2. /\ status = [e \in Entity |-> NoRow] /\ settledStatus = status
      /\ bundles = [e \in Entity |-> PendingBundles] /\ settledBundles = bundles
      /\ historical = {} /\ settledHistorical = {} /\ purged = {}
      /\ purge = [batch |-> {}, copied |-> {}]
      /\ \A w \in Worker : job[w] = Idle
  BY SerialAssumption DEF SerialInit, HandlersInit
<1>3. Shown = settledStatus
  BY <1>2 DEF Shown, Restored
<1>4. \A w \in Worker :
        /\ ~InTransaction(job[w])
        /\ JobSettled(job[w], settledStatus, settledBundles, Shown, settledHistorical)
  BY <1>2, <1>3, IdleSettled
<1>5. settledBundles \in [Entity -> Bundles] /\ settledStatus \in StatusColumn
  BY <1>1, <1>2 DEF HandlersInv, TypeOK, StatusColumn
<1>6. SettledInv
  BY <1>1, <1>2, <1>4, <1>5 DEF SettledInv
<1>7. Service!Init
  BY <1>2, SameBasics DEF Service!Init
<1>8. QED
  BY <1>6, <1>7

(* One consumer, whatever statement fails and whenever the purger runs: the  *)
(* tables, read as the last operation left them, change only as              *)
(* RegistryService changes them, one whole event at a time.                  *)
THEOREM SerialImplements == SerialSpec => ImplementsService
<1>1. SerialInit => SettledInv /\ Service!Init
  BY SettledInitially
<1>2. SettledInv /\ [SerialNext]_serialVars => SettledInv'
  BY SettledStep
<1>3. SettledInv /\ [SerialNext]_serialVars => [Service!EventNext]_(Service!vars)
  BY SettledStep DEF Simulated, Service!vars, settled
<1>4. QED
  BY <1>1, <1>2, <1>3, PTL DEF SerialSpec, ImplementsService, Service!EventSpec

-----------------------------------------------------------------------------
(* What the clients of one consumer see                                      *)

ServiceTheorems == INSTANCE RegistryServiceProofs
                     WITH status <- settledStatus, bundles <- settledBundles,
                          historical <- settledHistorical

(* With one consumer, whenever no event is being handled, no coordinate has  *)
(* two registries being served and the status of every registry agrees with  *)
(* its bundles, whatever has failed before and whatever the purger is doing. *)
THEOREM SerialTablesHold ==
  SerialSpec => [](Resting => ServedDisjoint /\ StatusReflectsBundles)
<1>1. SerialSpec => []SettledInv
  <2>1. SerialInit => SettledInv
    BY SettledInitially
  <2>2. SettledInv /\ [SerialNext]_serialVars => SettledInv'
    BY SettledStep
  <2>3. QED
    BY <2>1, <2>2, PTL DEF SerialSpec
<1>2. SerialSpec => []ServiceTheorems!IInv
  <2>1. Service!Init => ServiceTheorems!Init
    BY DEF Service!Init, ServiceTheorems!Init, Service!NoRow, ServiceTheorems!NoRow,
       Service!PendingBundles, ServiceTheorems!PendingBundles,
       Service!BundleType, ServiceTheorems!BundleType
  <2>2. Service!EventNext => ServiceTheorems!EventNext
    BY DEF
     Service!EventNext, Service!Deployment, Service!Conversion, Service!Undeployment,
     Service!Purge, Service!DeploymentEvent, Service!Persist, Service!TextureEvent,
     Service!TextureEventOnObsolete, Service!TextureEventOnUnknown,
     Service!UndeployWorld, Service!UndeployScenes, Service!PurgeRows,
     Service!Obsolete, Service!Inserted, Service!FallbackUpdated, Service!Rotated,
     Service!ConversionStatus, Service!WithBundle, Service!Undeployed,
     Service!DetermineStatus, Service!BundlesVerdict, Service!FallbackChoices,
     Service!FallbackCandidates, Service!NotNewer, Service!Newer, Service!Related,
     Service!Overlap, Service!ServedStatus, Service!PendingBundles, Service!BundleType,
     Service!NoRow, ServiceTheorems!EventNext, ServiceTheorems!Deployment,
     ServiceTheorems!Conversion, ServiceTheorems!Undeployment, ServiceTheorems!Purge,
     ServiceTheorems!DeploymentEvent, ServiceTheorems!Persist,
     ServiceTheorems!TextureEvent, ServiceTheorems!TextureEventOnObsolete,
     ServiceTheorems!TextureEventOnUnknown, ServiceTheorems!UndeployWorld,
     ServiceTheorems!UndeployScenes, ServiceTheorems!PurgeRows,
     ServiceTheorems!Obsolete, ServiceTheorems!Inserted,
     ServiceTheorems!FallbackUpdated, ServiceTheorems!Rotated,
     ServiceTheorems!ConversionStatus, ServiceTheorems!WithBundle,
     ServiceTheorems!Undeployed, ServiceTheorems!DetermineStatus,
     ServiceTheorems!BundlesVerdict, ServiceTheorems!FallbackChoices,
     ServiceTheorems!FallbackCandidates, ServiceTheorems!NotNewer,
     ServiceTheorems!Newer, ServiceTheorems!Related, ServiceTheorems!Overlap,
     ServiceTheorems!ServedStatus, ServiceTheorems!PendingBundles,
     ServiceTheorems!BundleType, ServiceTheorems!NoRow
  <2>3. [Service!EventNext]_(Service!vars) => [ServiceTheorems!EventNext]_(ServiceTheorems!vars)
    BY <2>2 DEF Service!vars, ServiceTheorems!vars
  <2>4. ServiceTheorems!EventSpec => []ServiceTheorems!IInv
    BY ServiceTheorems!InvariantsHold, EntityAssumption, EventAssumption
    DEF ServiceTheorems!BundleType, BundleType
  <2>5. QED
    BY <2>1, <2>3, <2>4, SerialImplements, PTL
    DEF ImplementsService, Service!EventSpec, ServiceTheorems!EventSpec
<1>3. SettledInv /\ ServiceTheorems!IInv => (Resting => ServedDisjoint /\ StatusReflectsBundles)
  <2> SUFFICES ASSUME SettledInv, ServiceTheorems!IInv, Resting
               PROVE  ServedDisjoint /\ StatusReflectsBundles
    OBVIOUS
  <2>1. /\ \A x \in Entity : status[x] # NoRow =>
              settledStatus[x] = status[x] /\ settledBundles[x] = bundles[x]
        /\ \A x \in Entity : Served(x) => ServiceTheorems!Served(x)
    <3>1. settledStatus = Shown
      BY SerialAssumption DEF SettledInv, JobSettled, Idle, Resting
    <3>2. \A x \in Entity : status[x] # NoRow => x \notin purged
      BY ShownRows
    <3>3. \A x \in Entity : status[x] # NoRow =>
              settledStatus[x] = status[x] /\ settledBundles[x] = bundles[x]
      BY <3>1, <3>2, ShownRows DEF SettledInv
    <3>4. QED
      BY <3>3 DEF Served, ServiceTheorems!Served, ServedStatus,
         ServiceTheorems!ServedStatus, NoRow
  <2>2. ServedDisjoint
    BY <2>1 DEF ServiceTheorems!IInv, ServiceTheorems!ServedDisjoint, ServedDisjoint,
       Overlap, ServiceTheorems!Overlap
  <2>3. StatusReflectsBundles
    <3>1. \A b : ServiceTheorems!BundlesVerdict(b) = BundlesVerdict(b)
      BY DEF BundlesVerdict, ServiceTheorems!BundlesVerdict
    <3>2. ServiceTheorems!StatusReflectsBundles
      BY DEF ServiceTheorems!IInv
    <3>3. QED
      BY <2>1, <3>1, <3>2 DEF ServiceTheorems!StatusReflectsBundles, StatusReflectsBundles,
         NoRow
  <2>4. QED
    BY <2>2, <2>3
<1>4. QED
  BY <1>1, <1>2, <1>3, PTL

=============================================================================
