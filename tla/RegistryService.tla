-------------------------- MODULE RegistryService --------------------------
(***************************************************************************)
(* The registry as its clients see it: one event, request or purger step   *)
(* at a time, each an atomic change of the `registries` and                *)
(* `historical_registries` tables.  RegistryHandlers breaks the same       *)
(* operations into the statements the code sends to the database, and      *)
(* RegistrySerial shows that one consumer running them implements this     *)
(* specification.                                                          *)
(***************************************************************************)
EXTENDS RegistryRules

CONSTANTS
  EventBundle,  \* the <<bundle type, platform>> pairs conversions report on
  EventTime,    \* the timestamps undeployment events may carry
  Interruption  \* BOOLEAN, or {FALSE} where no statement ever fails

ASSUME EventAssumption ==
  /\ EventBundle \subseteq BundleType \X Platform
  /\ EventTime \subseteq Nat
  /\ Interruption \subseteq BOOLEAN

VARIABLES
  status,      \* status column of `registries`, NoRow where there is no row
  bundles,     \* bundles column; PendingBundles where there is no row
  historical   \* ids in `historical_registries`

vars == <<status, bundles, historical>>

TypeOK ==
  /\ status \in [Entity -> Status \cup {NoRow}]
  /\ bundles \in [Entity -> Bundles]
  /\ historical \subseteq Entity

Init ==
  /\ status = [e \in Entity |-> NoRow]
  /\ bundles = [e \in Entity |-> PendingBundles]
  /\ historical = {}

-----------------------------------------------------------------------------
(* Pure effects on the status column, shared with RegistryHandlers           *)

\* insertRegistry with status s, then the update of the fallback, if any.
Inserted(st, e, s) == [st EXCEPT ![e] = s]

FallbackUpdated(st, fb, s) ==
  [x \in Entity |->
     IF x \in fb
     THEN IF s \in {"obsolete", "complete"} THEN "obsolete" ELSE "fallback"
     ELSE st[x]]

\* Mutant: older registries are rotated whatever the status becomes.
RotatedAlways(st, e, b) ==
  [x \in Entity |-> IF x = e THEN DetermineStatus(st, e, b)
                    ELSE IF x \in NotNewer(st, e) THEN "obsolete" ELSE st[x]]

\* persistRegistryInTransaction after the bundle update gave e the bundles b.
Rotated(st, e, b) ==
  LET s == DetermineStatus(st, e, b)
  IN [x \in Entity |->
        IF x = e THEN s
        ELSE IF s \in {"complete", "obsolete"} /\ x \in NotNewer(st, e)
        THEN "obsolete"
        ELSE st[x]]

(* The bundle status a conversion result stands for.  A failed reconversion  *)
(* keeps a COMPLETE bundle: the old files are still on the CDN.              *)
ConversionStatus(ok, previous) ==
  IF ok \/ previous = "complete" THEN "complete" ELSE "failed"

WithBundle(b, t, p, s) == [b EXCEPT ![t] = [b[t] EXCEPT ![p] = s]]

(* _undeployRegistries: the listed ids, and the FALLBACKs of the same        *)
(* context under their pointers, older than the event.                       *)
Undeployed(st, ids, c, t) ==
  LET live(x)  == st[x] # NoRow /\ TimestampOf[x] < t
      pointers == UNION {PointersOf[x] : x \in {y \in ids : live(y)}}
  IN [x \in Entity |->
        IF live(x) /\ \/ x \in ids
                      \/ /\ st[x] = "fallback"
                         /\ ContextOf[x] = c
                         /\ PointersOf[x] \cap pointers # {}
        THEN "obsolete"
        ELSE st[x]]

-----------------------------------------------------------------------------
(* persistAndRotateStates.  The fallback update is a statement of its own:   *)
(* when it fails, or the process stops before it, the insertion stays.       *)
Persist(e, b, interrupted) ==
  LET s == DetermineStatus(status, e, b)
  IN /\ \E fb \in IF interrupted THEN {{}} ELSE FallbackChoices(status, e) :
          status' = FallbackUpdated(Inserted(status, e, s), fb, s)
     /\ bundles' = [bundles EXCEPT ![e] = b]
     /\ UNCHANGED historical

(* A DeploymentToSqs event.  A known entity is left alone; the historical    *)
(* table is not consulted.                                                   *)
DeploymentEvent(e) ==
  /\ status[e] = NoRow
  /\ \E interrupted \in Interruption : Persist(e, PendingBundles, interrupted)

\* Mutant: the status is determined from the bundles read before the update.
TextureEventStale(e, t, p, ok) ==
  /\ status[e] \notin {NoRow, "obsolete"}
  /\ status' = Rotated(status, e, bundles[e])
  /\ bundles' = [bundles EXCEPT ![e] =
                   WithBundle(@, t, p, ConversionStatus(ok, @[t][p]))]
  /\ UNCHANGED historical

\* Mutant: OBSOLETE registries are rotated like the others.
TextureEventReviving(e, t, p, ok) ==
  /\ status[e] # NoRow
  /\ LET b == WithBundle(bundles[e], t, p, ConversionStatus(ok, bundles[e][t][p]))
     IN /\ status' = Rotated(status, e, b)
        /\ bundles' = [bundles EXCEPT ![e] = b]
  /\ UNCHANGED historical

\* A conversion result for a registry that is not OBSOLETE.
TextureEvent(e, t, p, ok) ==
  /\ status[e] \notin {NoRow, "obsolete"}
  /\ LET b == WithBundle(bundles[e], t, p, ConversionStatus(ok, bundles[e][t][p]))
     IN /\ status' = Rotated(status, e, b)
        /\ bundles' = [bundles EXCEPT ![e] = b]
  /\ UNCHANGED historical

\* A conversion result for an OBSOLETE registry changes its bundles only.
TextureEventOnObsolete(e, t, p, ok) ==
  /\ status[e] = "obsolete"
  /\ bundles' = [bundles EXCEPT ![e] =
                   WithBundle(@, t, p, ConversionStatus(ok, @[t][p]))]
  /\ UNCHANGED <<status, historical>>

(* A conversion result for an entity never seen and never purged: the        *)
(* handler inserts it as the deployment handler would, then applies the      *)
(* result, with rotation even if the insertion made it OBSOLETE.             *)
TextureEventOnUnknown(e, t, p, ok) ==
  /\ status[e] = NoRow
  /\ e \notin historical
  /\ LET s == DetermineStatus(status, e, PendingBundles)
         b == WithBundle(PendingBundles, t, p, ConversionStatus(ok, "pending"))
     IN /\ \E fb \in FallbackChoices(status, e) :
             status' = Rotated(FallbackUpdated(Inserted(status, e, s), fb, s), e, b)
        /\ bundles' = [bundles EXCEPT ![e] = b]
  /\ UNCHANGED historical

\* A WorldScenesUndeploymentEvent: scenes of one world.
UndeployScenes(w, ids, t) ==
  /\ ids # {} /\ ids \subseteq {e \in Entity : ContextOf[e] = w}
  /\ status' = Undeployed(status, ids, w, t)
  /\ UNCHANGED <<bundles, historical>>

\* A WorldUndeploymentEvent: every live scene of the world older than it.
UndeployWorld(w, t) ==
  LET ids == {e \in Entity : /\ ContextOf[e] = w
                             /\ status[e] \notin {NoRow, "obsolete"}
                             /\ TimestampOf[e] < t}
  IN /\ ids # {}
     /\ status' = Undeployed(status, ids, w, t)
     /\ UNCHANGED <<bundles, historical>>

Obsolete == {e \in Entity : status[e] = "obsolete"}

(* A step of the purger: it copies OBSOLETE registries to the historical     *)
(* table, and deletes registries that are there, in one statement.  Events   *)
(* never revive an OBSOLETE row, so what it deletes is still OBSOLETE,       *)
(* unless it has been backfilled meanwhile: RegistryHandlers deletes the     *)
(* batch whatever its rows have become.                                      *)
PurgeRows(copied, deleted) ==
  /\ historical' = historical \cup copied
  /\ status' = [e \in Entity |-> IF e \in deleted THEN NoRow ELSE status[e]]
  /\ bundles' = [e \in Entity |-> IF e \in deleted THEN PendingBundles ELSE bundles[e]]

(* POST /registry: an operator fills in a Genesis City entity with the       *)
(* bundle statuses found in the CDN manifests.                               *)
BackfillBundles ==
  [BundleType -> [Platform -> {"complete", "failed"}]]

Backfill(e, b) ==
  /\ ContextOf[e] = Genesis
  /\ \E interrupted \in Interruption : Persist(e, b, interrupted)

-----------------------------------------------------------------------------

Undeployment ==
  \E w \in World, t \in EventTime :
    \/ UndeployWorld(w, t)
    \/ \E ids \in SUBSET Entity : UndeployScenes(w, ids, t)

Conversion ==
  \E e \in Entity, b \in EventBundle, ok \in BOOLEAN :
    \/ TextureEvent(e, b[1], b[2], ok)
    \/ TextureEventOnObsolete(e, b[1], b[2], ok)
    \/ TextureEventOnUnknown(e, b[1], b[2], ok)

Deployment == \E e \in Entity : DeploymentEvent(e)

Purge ==
  \E copied, deleted \in SUBSET Obsolete :
    deleted \subseteq historical \cup copied /\ PurgeRows(copied, deleted)

EventNext == Deployment \/ Conversion \/ Undeployment \/ Purge

\* The registry driven by events alone.
EventSpec == Init /\ [][EventNext]_vars

ManualBackfill ==
  \E e \in Entity : \E b \in BackfillBundles : Backfill(e, b)

\* The registry with operators backfilling entities as well.
Spec == Init /\ [][EventNext \/ ManualBackfill]_vars

-----------------------------------------------------------------------------
(* Properties                                                                *)

Served(e) == status[e] \in ServedStatus

(* No coordinate of a world, or of Genesis City, has two registries being    *)
(* served: GET /entities/active picks one row per pointer without ordering   *)
(* them, so only this makes "the latest version" well defined.               *)
ServedDisjoint ==
  \A e, f \in Entity : Served(e) /\ Served(f) => ~Overlap(e, f)

(* The status a client reads agrees with the bundles it would download: a    *)
(* served registry has both asset bundles, and one that is not OBSOLETE is   *)
(* PENDING or FAILED exactly when its bundles say so.                        *)
StatusReflectsBundles ==
  \A e \in Entity :
    /\ status[e] \in {"complete", "pending", "failed"} =>
         status[e] = BundlesVerdict(bundles[e])
    /\ status[e] = "fallback" => BundlesVerdict(bundles[e]) = "complete"

\* A registry e at least as recent as f covers one of its coordinates, and e
\* is served or has itself been superseded by a newer one that is.
Superseded(st, f) ==
  \E e \in Entity :
    /\ Overlap(e, f) /\ TimestampOf[e] >= TimestampOf[f]
    /\ \/ st[e] \in ServedStatus
       \/ \E n \in Entity : /\ Overlap(n, e) /\ TimestampOf[n] > TimestampOf[e]
                            /\ st[n] \in ServedStatus

(* What is live is replaced only once a replacement is ready: a served       *)
(* registry stops being served only when the same step leaves it superseded, *)
(* or undeploys it.                                                          *)
ServedUntilSuperseded ==
  [][\A f \in Entity :
       Served(f) /\ ~Served(f)' => Superseded(status', f) \/ Undeployment]_vars

(* A registry that was superseded or undeployed does not come back while its *)
(* row exists, whatever late conversions, redeliveries and newer failures    *)
(* arrive.                                                                   *)
ObsoleteIsFinal ==
  [][\A e \in Entity :
       status[e] = "obsolete" => status'[e] \in {"obsolete", NoRow}]_vars

(* The registry never forgets an entity: it moves from one table to the      *)
(* other.                                                                    *)
KnownEntitiesKept ==
  [][\A e \in Entity :
       status[e] # NoRow \/ e \in historical =>
         status'[e] # NoRow \/ e \in historical']_vars

(* Worlds and Genesis City reuse the same coordinates: one event changes the *)
(* registries of one context only.  The purger deletes rows of any.          *)
ContextsIsolated ==
  [][\A e, f \in Entity :
       status'[e] \notin {status[e], NoRow} /\ status'[f] \notin {status[f], NoRow} =>
         ContextOf[e] = ContextOf[f]]_vars

=============================================================================
