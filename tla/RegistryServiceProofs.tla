----------------------- MODULE RegistryServiceProofs -----------------------
(***************************************************************************)
(* Theorems about the registry driven by events (EventSpec), for every set *)
(* of entities, pointers and worlds and every assignment of pointers,      *)
(* timestamps and worlds to the entities.                                  *)
(***************************************************************************)
EXTENDS RegistryService, TLAPS

LEMMA PendingBundlesType == PendingBundles \in Bundles
  BY DEF PendingBundles, Bundles, SimplifiedStatus

LEMMA WithBundleType ==
  ASSUME NEW b \in Bundles, NEW t \in BundleType, NEW p \in Platform,
         NEW s \in SimplifiedStatus
  PROVE  WithBundle(b, t, p, s) \in Bundles
  BY DEF WithBundle, Bundles

LEMMA ConversionStatusType ==
  ASSUME NEW ok, NEW previous
  PROVE  ConversionStatus(ok, previous) \in {"complete", "failed"}
  BY DEF ConversionStatus

LEMMA VerdictType ==
  ASSUME NEW b
  PROVE  BundlesVerdict(b) \in {"failed", "complete", "pending"}
  BY DEF BundlesVerdict

LEMMA DetermineStatusType ==
  ASSUME NEW st, NEW e, NEW b
  PROVE  /\ DetermineStatus(st, e, b) \in Status
         /\ DetermineStatus(st, e, b) # "fallback"
         /\ DetermineStatus(st, e, b) # "obsolete" =>
              DetermineStatus(st, e, b) = BundlesVerdict(b)
  BY VerdictType DEF DetermineStatus, Status

LEMMA PendingVerdict == BundlesVerdict(PendingBundles) = "pending"
  BY EntityAssumption DEF BundlesVerdict, PendingBundles, BundleType

\* What a status column may hold.
StatusColumn == [Entity -> Status \cup {NoRow}]

-----------------------------------------------------------------------------
(* The effects on the status column                                          *)

\* The registry chosen as fallback is related, older and being served.
LEMMA FallbackChoicesServed ==
  ASSUME NEW st, NEW e, NEW fb \in FallbackChoices(st, e)
  PROVE  fb \subseteq FallbackCandidates(st, e)
  BY DEF FallbackChoices, FallbackCandidates

(* Inserting e, with or without the fallback update: only e and the fallback *)
(* change, and the fallback goes on being served or becomes OBSOLETE.        *)
LEMMA InsertionEffect ==
  ASSUME NEW st \in StatusColumn, NEW e \in Entity, NEW s \in Status,
         NEW fb \in SUBSET FallbackCandidates(st, e),
         NEW st1, st1 = FallbackUpdated(Inserted(st, e, s), fb, s)
  PROVE  /\ st1 \in StatusColumn
         /\ st1[e] = s
         /\ \A x \in Entity : x # e =>
              \/ st1[x] = st[x]
              \/ /\ x \in FallbackCandidates(st, e)
                 /\ \/ st1[x] = "fallback"
                    \/ st1[x] = "obsolete" /\ s \in {"obsolete", "complete"}
<1>1. e \notin fb
  BY DEF FallbackCandidates, Related, Overlap
<1>2. \A x \in fb : x \in FallbackCandidates(st, e)
  OBVIOUS
<1>3. QED
  BY <1>1, <1>2 DEF FallbackUpdated, Inserted, StatusColumn, Status

(* The transaction of a conversion result: e gets the status its bundles     *)
(* call for, and the others keep theirs or become OBSOLETE.                  *)
LEMMA RotationEffect ==
  ASSUME NEW st \in StatusColumn, NEW e \in Entity, NEW b,
         NEW st1, st1 = Rotated(st, e, b)
  PROVE  /\ st1 \in StatusColumn
         /\ st1[e] = DetermineStatus(st, e, b)
         /\ \A x \in Entity : x # e =>
              \/ st1[x] = st[x]
              \/ /\ st1[x] = "obsolete"
                 /\ x \in NotNewer(st, e)
                 /\ st1[e] \in {"complete", "obsolete"}
  BY DetermineStatusType DEF Rotated, StatusColumn, Status

(* The heart of the matter: a rotation keeps the served registries disjoint. *)
LEMMA RotationKeepsDisjoint ==
  ASSUME NEW st \in StatusColumn, NEW e \in Entity, NEW b,
         NEW st1, st1 = Rotated(st, e, b),
         \A x, y \in Entity :
           st[x] \in ServedStatus /\ st[y] \in ServedStatus => ~Overlap(x, y)
  PROVE  \A x, y \in Entity :
           st1[x] \in ServedStatus /\ st1[y] \in ServedStatus => ~Overlap(x, y)
<1>1. ASSUME NEW y \in Entity, Overlap(e, y),
             st1[e] \in ServedStatus, st1[y] \in ServedStatus
      PROVE  FALSE
  <2>1. y # e /\ st1[y] = st[y]
    BY <1>1, RotationEffect DEF Overlap, ServedStatus
  <2>2. y \in Related(st, e)
    BY <1>1, <2>1 DEF Related, ServedStatus, NoRow
  <2>3. st1[e] = "complete" /\ DetermineStatus(st, e, b) = "complete"
    BY <1>1, RotationEffect, DetermineStatusType DEF ServedStatus
  <2>4. y \notin NotNewer(st, e)
    BY <1>1, <2>1, <2>3 DEF Rotated, ServedStatus
  <2>5. y \in Newer(st, e)
    BY <2>2, <2>4 DEF NotNewer
  <2>6. QED
    BY <1>1, <2>1, <2>3, <2>5 DEF DetermineStatus
<1>2. \A x, y \in Entity : Overlap(x, y) => Overlap(y, x)
  BY DEF Overlap
<1>3. \A x \in Entity : x # e /\ st1[x] \in ServedStatus => st[x] \in ServedStatus
  BY RotationEffect DEF ServedStatus
<1>4. QED
  BY <1>1, <1>2, <1>3 DEF Overlap

\* An undeployment only makes registries OBSOLETE, and never creates a row.
LEMMA UndeployedEffect ==
  ASSUME NEW st \in StatusColumn, NEW ids, NEW c, NEW t,
         NEW st1, st1 = Undeployed(st, ids, c, t)
  PROVE  /\ st1 \in StatusColumn
         /\ \A x \in Entity :
              \/ st1[x] = st[x]
              \/ st[x] # NoRow /\ st1[x] = "obsolete"
  BY DEF Undeployed, StatusColumn, Status

-----------------------------------------------------------------------------
(* The actions                                                               *)

\* What persistAndRotateStates does to the tables.
LEMMA PersistEffect ==
  ASSUME TypeOK, NEW e \in Entity, NEW b, NEW interrupted,
         Persist(e, b, interrupted)
  PROVE  /\ status' \in StatusColumn
         /\ status'[e] = DetermineStatus(status, e, b)
         /\ \A x \in Entity : x # e =>
              \/ status'[x] = status[x]
              \/ /\ x \in FallbackCandidates(status, e)
                 /\ \/ status'[x] = "fallback"
                    \/ /\ status'[x] = "obsolete"
                       /\ status'[e] \in {"obsolete", "complete"}
         /\ bundles' = [bundles EXCEPT ![e] = b]
         /\ historical' = historical
<1> DEFINE s == DetermineStatus(status, e, b)
<1>1. PICK fb \in IF interrupted THEN {{}} ELSE FallbackChoices(status, e) :
         status' = FallbackUpdated(Inserted(status, e, s), fb, s)
  BY DEF Persist
<1>2. fb \in SUBSET FallbackCandidates(status, e)
  BY <1>1, FallbackChoicesServed
<1>3. status \in StatusColumn /\ s \in Status
  BY DetermineStatusType DEF TypeOK, StatusColumn
<1> HIDE DEF s
<1>4. /\ status' \in StatusColumn
      /\ status'[e] = s
      /\ \A x \in Entity : x # e =>
           \/ status'[x] = status[x]
           \/ /\ x \in FallbackCandidates(status, e)
              /\ \/ status'[x] = "fallback"
                 \/ status'[x] = "obsolete" /\ s \in {"obsolete", "complete"}
  BY <1>1, <1>2, <1>3, InsertionEffect
<1>5. QED
  BY <1>4 DEF Persist, s

(* What a conversion result for an unknown entity does: an insertion that    *)
(* leaves the column at st1, then a rotation.                                *)
LEMMA UnknownEffect ==
  ASSUME TypeOK, NEW e \in Entity, NEW t \in BundleType, NEW p \in Platform,
         NEW ok \in BOOLEAN, TextureEventOnUnknown(e, t, p, ok)
  PROVE  \E st1 \in StatusColumn, b \in Bundles :
           /\ st1[e] = DetermineStatus(status, e, PendingBundles)
           /\ \A x \in Entity : x # e =>
                \/ st1[x] = status[x]
                \/ /\ x \in FallbackCandidates(status, e)
                   /\ \/ st1[x] = "fallback"
                      \/ st1[x] = "obsolete" /\ st1[e] \in {"obsolete", "complete"}
           /\ status' = Rotated(st1, e, b)
           /\ bundles' = [bundles EXCEPT ![e] = b]
           /\ historical' = historical
<1> DEFINE s == DetermineStatus(status, e, PendingBundles)
           b == WithBundle(PendingBundles, t, p, ConversionStatus(ok, "pending"))
<1>1. PICK fb \in FallbackChoices(status, e) :
         status' = Rotated(FallbackUpdated(Inserted(status, e, s), fb, s), e, b)
  BY DEF TextureEventOnUnknown
<1> DEFINE st1 == FallbackUpdated(Inserted(status, e, s), fb, s)
<1>2. fb \in SUBSET FallbackCandidates(status, e)
  BY FallbackChoicesServed
<1>3. status \in StatusColumn /\ s \in Status
  BY DetermineStatusType DEF TypeOK, StatusColumn
<1>4. b \in Bundles
  BY PendingBundlesType, ConversionStatusType, WithBundleType DEF SimplifiedStatus
<1>5. bundles' = [bundles EXCEPT ![e] = b] /\ historical' = historical
  BY DEF TextureEventOnUnknown
<1> HIDE DEF s, b
<1>6. /\ st1 \in StatusColumn
      /\ st1[e] = s
      /\ \A x \in Entity : x # e =>
           \/ st1[x] = status[x]
           \/ /\ x \in FallbackCandidates(status, e)
              /\ \/ st1[x] = "fallback"
                 \/ st1[x] = "obsolete" /\ s \in {"obsolete", "complete"}
  BY <1>2, <1>3, InsertionEffect
<1> HIDE DEF st1
<1>7. status' = Rotated(st1, e, b)
  BY <1>1 DEF st1
<1>8. QED
  BY <1>4, <1>5, <1>6, <1>7 DEF s

LEMMA TypeStep == TypeOK /\ [EventNext]_vars => TypeOK'
<1> SUFFICES ASSUME TypeOK, [EventNext]_vars PROVE TypeOK'
  OBVIOUS
<1>1. ASSUME NEW e \in Entity, DeploymentEvent(e) PROVE TypeOK'
  <2>1. PICK interrupted \in Interruption : Persist(e, PendingBundles, interrupted)
    BY <1>1 DEF DeploymentEvent
  <2>2. QED
    BY <2>1, PersistEffect, PendingBundlesType DEF TypeOK, StatusColumn
<1>2. ASSUME NEW e \in Entity, NEW t \in BundleType, NEW p \in Platform,
             NEW ok \in BOOLEAN, TextureEvent(e, t, p, ok)
      PROVE  TypeOK'
  <2> DEFINE b == WithBundle(bundles[e], t, p, ConversionStatus(ok, bundles[e][t][p]))
  <2>1. b \in Bundles
    BY ConversionStatusType, WithBundleType DEF TypeOK, SimplifiedStatus
  <2>2. status' = Rotated(status, e, b) /\ bundles' = [bundles EXCEPT ![e] = b]
    BY <1>2 DEF TextureEvent
  <2>3. historical' = historical
    BY <1>2 DEF TextureEvent
  <2> HIDE DEF b
  <2>4. QED
    BY <2>1, <2>2, <2>3, RotationEffect DEF TypeOK, StatusColumn
<1>3. ASSUME NEW e \in Entity, NEW t \in BundleType, NEW p \in Platform,
             NEW ok \in BOOLEAN, TextureEventOnObsolete(e, t, p, ok)
      PROVE  TypeOK'
  <2> DEFINE b == WithBundle(bundles[e], t, p, ConversionStatus(ok, bundles[e][t][p]))
  <2>1. b \in Bundles
    BY ConversionStatusType, WithBundleType DEF TypeOK, SimplifiedStatus
  <2>2. bundles' = [bundles EXCEPT ![e] = b]
    BY <1>3 DEF TextureEventOnObsolete
  <2>3. UNCHANGED <<status, historical>>
    BY <1>3 DEF TextureEventOnObsolete
  <2> HIDE DEF b
  <2>4. QED
    BY <2>1, <2>2, <2>3 DEF TypeOK
<1>4. ASSUME NEW e \in Entity, NEW t \in BundleType, NEW p \in Platform,
             NEW ok \in BOOLEAN, TextureEventOnUnknown(e, t, p, ok)
      PROVE  TypeOK'
  BY <1>4, UnknownEffect, RotationEffect DEF TypeOK, StatusColumn
<1>5. ASSUME NEW w \in World, NEW t \in EventTime,
             \/ UndeployWorld(w, t)
             \/ \E ids \in SUBSET Entity : UndeployScenes(w, ids, t)
      PROVE  TypeOK'
  <2>1. \E ids : status' = Undeployed(status, ids, w, t)
    BY <1>5 DEF UndeployWorld, UndeployScenes
  <2>2. UNCHANGED <<bundles, historical>>
    BY <1>5 DEF UndeployWorld, UndeployScenes
  <2>3. QED
    BY <2>1, <2>2, UndeployedEffect DEF TypeOK, StatusColumn
<1>6. ASSUME Purge PROVE TypeOK'
  BY <1>6, PendingBundlesType DEF Purge, PurgeRows, Obsolete, TypeOK
<1>7. CASE UNCHANGED vars
  BY <1>7 DEF vars, TypeOK
<1>8. QED
  BY <1>1, <1>2, <1>3, <1>4, <1>5, <1>6, <1>7, EventAssumption
     DEF EventNext, Deployment, Conversion, Undeployment

(* The tables of the registry keep their types. *)
THEOREM TypeCorrect == EventSpec => []TypeOK
<1>1. Init => TypeOK
  BY PendingBundlesType DEF Init, TypeOK
<1>2. QED
  BY <1>1, TypeStep, PTL DEF EventSpec

-----------------------------------------------------------------------------
(* Safety                                                                    *)

\* Keeping a COMPLETE bundle COMPLETE keeps a complete verdict.
LEMMA ConversionKeepsVerdict ==
  ASSUME NEW b \in Bundles, NEW t \in BundleType, NEW p \in Platform, NEW ok,
         BundlesVerdict(b) = "complete"
  PROVE  BundlesVerdict(WithBundle(b, t, p, ConversionStatus(ok, b[t][p]))) = "complete"
<1> DEFINE b1 == WithBundle(b, t, p, ConversionStatus(ok, b[t][p]))
<1>1. \A q \in Platform : b["assets"][q] = "complete"
  BY DEF BundlesVerdict
<1>2. \A q \in Platform : b1["assets"][q] = "complete"
  BY <1>1 DEF WithBundle, ConversionStatus, Bundles, BundleType
<1> HIDE DEF b1
<1>3. BundlesVerdict(b1) = "complete"
  BY <1>2 DEF BundlesVerdict
<1>4. QED
  BY <1>3 DEF b1

(* The three invariants are inductive together: StatusReflectsBundles needs  *)
(* the type, and the action properties below need all three.                 *)
IInv == TypeOK /\ ServedDisjoint /\ StatusReflectsBundles

\* Inserting a registry with pending bundles serves nothing new.
LEMMA InsertionServesNothingNew ==
  ASSUME NEW st \in StatusColumn, NEW e \in Entity, NEW st1,
         st1[e] = DetermineStatus(st, e, PendingBundles),
         \A x \in Entity : x # e => \/ st1[x] = st[x]
                                  \/ x \in FallbackCandidates(st, e)
  PROVE  \A x \in Entity : st1[x] \in ServedStatus => st[x] \in ServedStatus
  BY PendingVerdict, DetermineStatusType DEF ServedStatus, FallbackCandidates

LEMMA DisjointStep == IInv /\ [EventNext]_vars => ServedDisjoint'
<1> SUFFICES ASSUME IInv, [EventNext]_vars PROVE ServedDisjoint'
  OBVIOUS
<1>a. status \in StatusColumn
  BY DEF IInv, TypeOK, StatusColumn
<1>b. ASSUME \A x \in Entity : status'[x] \in ServedStatus => status[x] \in ServedStatus
      PROVE  ServedDisjoint'
  BY <1>b DEF IInv, ServedDisjoint, Served
<1>1. ASSUME NEW e \in Entity, DeploymentEvent(e) PROVE ServedDisjoint'
  <2>1. PICK interrupted \in Interruption : Persist(e, PendingBundles, interrupted)
    BY <1>1 DEF DeploymentEvent
  <2>2. /\ status'[e] = DetermineStatus(status, e, PendingBundles)
        /\ \A x \in Entity : x # e => \/ status'[x] = status[x]
                                    \/ x \in FallbackCandidates(status, e)
    BY <2>1, PersistEffect DEF IInv
  <2>3. QED
    BY <2>2, <1>a, <1>b, InsertionServesNothingNew
<1>2. ASSUME NEW e \in Entity, NEW t \in BundleType, NEW p \in Platform,
             NEW ok \in BOOLEAN, TextureEvent(e, t, p, ok)
      PROVE  ServedDisjoint'
  <2>1. \E b : status' = Rotated(status, e, b)
    BY <1>2 DEF TextureEvent
  <2>2. QED
    BY <2>1, <1>a, RotationKeepsDisjoint DEF IInv, ServedDisjoint, Served
<1>3. ASSUME NEW e \in Entity, NEW t \in BundleType, NEW p \in Platform,
             NEW ok \in BOOLEAN, TextureEventOnUnknown(e, t, p, ok)
      PROVE  ServedDisjoint'
  <2>1. PICK st1 \in StatusColumn, b \in Bundles :
           /\ st1[e] = DetermineStatus(status, e, PendingBundles)
           /\ \A x \in Entity : x # e => \/ st1[x] = status[x]
                                       \/ x \in FallbackCandidates(status, e)
           /\ status' = Rotated(st1, e, b)
    BY <1>3, UnknownEffect DEF IInv
  <2>2. \A x \in Entity : st1[x] \in ServedStatus => status[x] \in ServedStatus
    BY <2>1, <1>a, InsertionServesNothingNew
  <2>3. \A x, y \in Entity :
          st1[x] \in ServedStatus /\ st1[y] \in ServedStatus => ~Overlap(x, y)
    BY <2>2 DEF IInv, ServedDisjoint, Served
  <2>4. QED
    BY <2>1, <2>3, RotationKeepsDisjoint DEF ServedDisjoint, Served
<1>4. ASSUME NEW w \in World, NEW t \in EventTime,
             \/ UndeployWorld(w, t)
             \/ \E ids \in SUBSET Entity : UndeployScenes(w, ids, t)
      PROVE  ServedDisjoint'
  <2>1. \E ids : status' = Undeployed(status, ids, w, t)
    BY <1>4 DEF UndeployWorld, UndeployScenes
  <2>2. QED
    BY <2>1, <1>a, <1>b, UndeployedEffect DEF ServedStatus
<1>5. ASSUME NEW e \in Entity, NEW t \in BundleType, NEW p \in Platform,
             NEW ok \in BOOLEAN, TextureEventOnObsolete(e, t, p, ok)
      PROVE  ServedDisjoint'
  BY <1>5, <1>b DEF TextureEventOnObsolete
<1>6. ASSUME Purge PROVE ServedDisjoint'
  BY <1>6, <1>a, <1>b DEF Purge, PurgeRows, ServedStatus, NoRow
<1>7. CASE UNCHANGED vars
  BY <1>7, <1>b DEF vars
<1>8. QED
  BY <1>1, <1>2, <1>3, <1>4, <1>5, <1>6, <1>7, EventAssumption
     DEF EventNext, Deployment, Conversion, Undeployment

LEMMA ReflectsStep == IInv /\ [EventNext]_vars => StatusReflectsBundles'
<1> SUFFICES ASSUME IInv, [EventNext]_vars PROVE StatusReflectsBundles'
  OBVIOUS
<1> DEFINE Reflects(s, b) ==
             /\ s \in {"complete", "pending", "failed"} => s = BundlesVerdict(b)
             /\ s = "fallback" => BundlesVerdict(b) = "complete"
<1>a. status \in StatusColumn /\ bundles \in [Entity -> Bundles]
  BY DEF IInv, TypeOK, StatusColumn
<1>b. \A x \in Entity : Reflects(status[x], bundles[x])
  BY DEF IInv, StatusReflectsBundles
<1>c. \A x \in Entity : status[x] \in ServedStatus => BundlesVerdict(bundles[x]) = "complete"
  BY <1>b DEF ServedStatus
<1>d. ASSUME \A x \in Entity : Reflects(status'[x], bundles'[x])
      PROVE  StatusReflectsBundles'
  BY <1>d DEF StatusReflectsBundles
<1>e. \A b : Reflects("obsolete", b) /\ Reflects(NoRow, b)
  BY DEF NoRow
<1>f. \A st, x, b : Reflects(DetermineStatus(st, x, b), b)
  BY DetermineStatusType
<1>g. \A x \in Entity : status[x] \in ServedStatus => Reflects("fallback", bundles[x])
  BY <1>c
<1> HIDE DEF Reflects
<1>1. ASSUME NEW e \in Entity, DeploymentEvent(e) PROVE StatusReflectsBundles'
  <2>1. PICK interrupted \in Interruption : Persist(e, PendingBundles, interrupted)
    BY <1>1 DEF DeploymentEvent
  <2>2. /\ status'[e] = DetermineStatus(status, e, PendingBundles)
        /\ bundles' = [bundles EXCEPT ![e] = PendingBundles]
    BY <2>1, PersistEffect DEF IInv
  <2>3. \A x \in Entity : x # e => \/ status'[x] = status[x]
                                 \/ status'[x] = "obsolete"
                                 \/ /\ status[x] \in ServedStatus
                                    /\ status'[x] = "fallback"
    BY <2>1, PersistEffect DEF IInv, FallbackCandidates
  <2>4. Reflects(status'[e], bundles'[e])
    BY <2>2, <1>a, <1>f
  <2>5. \A x \in Entity : x # e => Reflects(status'[x], bundles'[x])
    BY <2>2, <2>3, <1>a, <1>b, <1>e, <1>g
  <2>6. QED
    BY <2>4, <2>5, <1>d
<1>2. ASSUME NEW e \in Entity, NEW t \in BundleType, NEW p \in Platform,
             NEW ok \in BOOLEAN, TextureEvent(e, t, p, ok)
      PROVE  StatusReflectsBundles'
  <2>1. PICK b : status' = Rotated(status, e, b) /\ bundles' = [bundles EXCEPT ![e] = b]
    BY <1>2 DEF TextureEvent
  <2>2. Reflects(status'[e], bundles'[e])
    BY <2>1, <1>a, <1>f, RotationEffect
  <2>3. \A x \in Entity : x # e => Reflects(status'[x], bundles'[x])
    BY <2>1, <1>a, <1>b, <1>e, RotationEffect
  <2>4. QED
    BY <2>2, <2>3, <1>d
<1>3. ASSUME NEW e \in Entity, NEW t \in BundleType, NEW p \in Platform,
             NEW ok \in BOOLEAN, TextureEventOnUnknown(e, t, p, ok)
      PROVE  StatusReflectsBundles'
  <2>1. PICK st1 \in StatusColumn, b \in Bundles :
           /\ \A x \in Entity : x # e => \/ st1[x] = status[x]
                                       \/ st1[x] = "obsolete"
                                       \/ /\ status[x] \in ServedStatus
                                          /\ st1[x] = "fallback"
           /\ status' = Rotated(st1, e, b)
           /\ bundles' = [bundles EXCEPT ![e] = b]
    BY <1>3, UnknownEffect DEF IInv, FallbackCandidates
  <2>2. Reflects(status'[e], bundles'[e])
    BY <2>1, <1>a, <1>f, RotationEffect
  <2>3. \A x \in Entity : x # e => Reflects(st1[x], bundles[x])
    BY <2>1, <1>b, <1>e, <1>g
  <2>4. \A x \in Entity : x # e => Reflects(status'[x], bundles'[x])
    BY <2>1, <2>3, <1>a, <1>e, RotationEffect
  <2>5. QED
    BY <2>2, <2>4, <1>d
<1>4. ASSUME NEW w \in World, NEW t \in EventTime,
             \/ UndeployWorld(w, t)
             \/ \E ids \in SUBSET Entity : UndeployScenes(w, ids, t)
      PROVE  StatusReflectsBundles'
  <2>1. (\E ids : status' = Undeployed(status, ids, w, t)) /\ bundles' = bundles
    BY <1>4 DEF UndeployWorld, UndeployScenes
  <2>2. \A x \in Entity : Reflects(status'[x], bundles'[x])
    BY <2>1, <1>a, <1>b, <1>e, UndeployedEffect
  <2>3. QED
    BY <2>2, <1>d
<1>5. ASSUME NEW e \in Entity, NEW t \in BundleType, NEW p \in Platform,
             NEW ok \in BOOLEAN, TextureEventOnObsolete(e, t, p, ok)
      PROVE  StatusReflectsBundles'
  <2>1. /\ status' = status /\ status[e] = "obsolete"
        /\ \E b : bundles' = [bundles EXCEPT ![e] = b]
    BY <1>5 DEF TextureEventOnObsolete
  <2>2. \A x \in Entity : Reflects(status'[x], bundles'[x])
    BY <2>1, <1>a, <1>b, <1>e
  <2>3. QED
    BY <2>2, <1>d
<1>6. ASSUME Purge PROVE StatusReflectsBundles'
  <2>1. \A x \in Entity : \/ status'[x] = NoRow
                          \/ status'[x] = status[x] /\ bundles'[x] = bundles[x]
    BY <1>6 DEF Purge, PurgeRows
  <2>2. \A x \in Entity : Reflects(status'[x], bundles'[x])
    BY <2>1, <1>b, <1>e
  <2>3. QED
    BY <2>2, <1>d
<1>7. CASE UNCHANGED vars
  BY <1>7, <1>b, <1>d DEF vars
<1>8. QED
  BY <1>1, <1>2, <1>3, <1>4, <1>5, <1>6, <1>7, EventAssumption
     DEF EventNext, Deployment, Conversion, Undeployment

LEMMA InitInv == Init => ServedDisjoint /\ StatusReflectsBundles
  BY DEF Init, ServedDisjoint, StatusReflectsBundles, Served, ServedStatus, NoRow

(* Every reachable state of the event-driven registry satisfies the          *)
(* invariants: no coordinate has two registries being served, and a served   *)
(* registry has both its asset bundles.                                      *)
THEOREM InvariantsHold == EventSpec => []IInv
<1>1. Init => ServedDisjoint /\ StatusReflectsBundles
  BY InitInv
<1>2. IInv /\ [EventNext]_vars => ServedDisjoint' /\ StatusReflectsBundles'
  BY DisjointStep, ReflectsStep
<1>3. TypeOK /\ ServedDisjoint /\ StatusReflectsBundles <=> IInv
  BY DEF IInv
<1>4. (TypeOK /\ ServedDisjoint /\ StatusReflectsBundles)' <=> IInv'
  BY DEF IInv
<1>5. QED
  BY <1>1, <1>2, <1>3, <1>4, TypeCorrect, PTL DEF EventSpec

THEOREM DisjointHolds == EventSpec => []ServedDisjoint
<1>1. IInv => ServedDisjoint
  BY DEF IInv
<1>2. QED
  BY <1>1, InvariantsHold, PTL

THEOREM ReflectsHolds == EventSpec => []StatusReflectsBundles
<1>1. IInv => StatusReflectsBundles
  BY DEF IInv
<1>2. QED
  BY <1>1, InvariantsHold, PTL

-----------------------------------------------------------------------------
(* What a step may not do                                                    *)

LEMMA OverlapSymmetric == \A x, y : Overlap(x, y) => Overlap(y, x)
  BY DEF Overlap

(* A registry a rotation takes out of service is superseded: by e if e       *)
(* completed, by what made e OBSOLETE otherwise.                             *)
LEMMA RotationSupersedes ==
  ASSUME NEW st \in StatusColumn, NEW e \in Entity, NEW b,
         NEW st1, st1 = Rotated(st, e, b),
         NEW f \in Entity, f # e, st[f] \in ServedStatus, st1[f] \notin ServedStatus
  PROVE  Superseded(st1, f)
<1>1. f \in NotNewer(st, e) /\ st1[e] \in {"complete", "obsolete"}
  BY RotationEffect
<1>2. Overlap(e, f) /\ TimestampOf[e] >= TimestampOf[f]
  BY <1>1, EntityAssumption DEF NotNewer, Newer, Related
<1>3. CASE st1[e] = "complete"
  BY <1>2, <1>3 DEF Superseded, ServedStatus
<1>4. CASE st1[e] = "obsolete"
  <2>1. DetermineStatus(st, e, b) = "obsolete"
    BY <1>4, RotationEffect
  <2>2. PICK n \in Newer(st, e) : st[n] \in ServedStatus
    BY <2>1, VerdictType DEF DetermineStatus
  <2>3. /\ n \in Entity /\ Overlap(n, e)
        /\ TimestampOf[n] > TimestampOf[e]
        /\ n \notin NotNewer(st, e) /\ n # e
    BY <2>2, OverlapSymmetric DEF Newer, Related, NotNewer, Overlap
  <2>4. st1[n] = st[n]
    BY <2>3, RotationEffect
  <2>5. QED
    BY <1>2, <2>2, <2>3, <2>4 DEF Superseded
<1>5. QED
  BY <1>1, <1>3, <1>4

(* A registry an insertion takes out of service was the fallback of an       *)
(* entity that a newer served registry had already made OBSOLETE.            *)
LEMMA InsertionSupersedes ==
  ASSUME NEW st \in StatusColumn, NEW e \in Entity, st[e] = NoRow, NEW st1,
         st1[e] = DetermineStatus(st, e, PendingBundles),
         \A x \in Entity : x # e =>
           \/ st1[x] = st[x]
           \/ /\ x \in FallbackCandidates(st, e)
              /\ \/ st1[x] = "fallback"
                 \/ st1[x] = "obsolete" /\ st1[e] \in {"obsolete", "complete"},
         NEW f \in Entity, st[f] \in ServedStatus, st1[f] \notin ServedStatus
  PROVE  \E n \in Entity :
           /\ Overlap(e, f) /\ TimestampOf[e] >= TimestampOf[f]
           /\ Overlap(n, e) /\ TimestampOf[n] > TimestampOf[e]
           /\ st1[n] \in ServedStatus /\ n # e /\ f # e
<1>1. f # e
  BY DEF ServedStatus, NoRow
<1>2. f \in FallbackCandidates(st, e) /\ st1[e] \in {"obsolete", "complete"}
  BY <1>1 DEF ServedStatus
<1>3. Overlap(e, f) /\ TimestampOf[e] >= TimestampOf[f]
  BY <1>2, EntityAssumption DEF FallbackCandidates, Related
<1>4. DetermineStatus(st, e, PendingBundles) = "obsolete"
  BY <1>2, PendingVerdict, DetermineStatusType
<1>5. PICK n \in Newer(st, e) : st[n] \in ServedStatus
  BY <1>4, VerdictType DEF DetermineStatus
<1>6. /\ n \in Entity /\ Overlap(n, e) /\ n # e
      /\ TimestampOf[n] > TimestampOf[e]
  BY <1>5, OverlapSymmetric DEF Newer, Related, Overlap
<1>7. n \notin FallbackCandidates(st, e)
  BY <1>6, EntityAssumption DEF FallbackCandidates
<1>8. QED
  BY <1>1, <1>3, <1>5, <1>6, <1>7

\* A registry a conversion takes out of service is superseded.
LEMMA ConversionSupersedes ==
  ASSUME IInv, NEW e \in Entity, NEW t \in BundleType, NEW p \in Platform,
         NEW ok \in BOOLEAN,
         TextureEvent(e, t, p, ok) \/ TextureEventOnUnknown(e, t, p, ok),
         NEW f \in Entity, Served(f), ~Served(f)'
  PROVE  Superseded(status', f)
<1>a. status \in StatusColumn /\ bundles \in [Entity -> Bundles]
  BY DEF IInv, TypeOK, StatusColumn
<1>b. status[f] \in ServedStatus /\ status'[f] \notin ServedStatus
  BY DEF Served
<1>1. CASE TextureEvent(e, t, p, ok)
  <2> DEFINE b == WithBundle(bundles[e], t, p, ConversionStatus(ok, bundles[e][t][p]))
  <2>1. status' = Rotated(status, e, b)
    BY <1>1 DEF TextureEvent
  <2>2. CASE f = e
    <3>1. BundlesVerdict(bundles[e]) = "complete"
      BY <1>b, <2>2 DEF IInv, StatusReflectsBundles, ServedStatus
    <3>2. BundlesVerdict(b) = "complete"
      BY <1>a, <3>1, ConversionKeepsVerdict
    <3> HIDE DEF b
    <3>3. DetermineStatus(status, e, b) = "obsolete"
      BY <1>a, <1>b, <2>1, <2>2, <3>2, RotationEffect, DetermineStatusType DEF ServedStatus
    <3>4. PICK n \in Newer(status, e) : status[n] \in ServedStatus
      BY <3>3, VerdictType DEF DetermineStatus
    <3>5. QED
      BY <3>4, <1>b, <2>2 DEF IInv, ServedDisjoint, Served, Newer, Related
  <2> HIDE DEF b
  <2>3. CASE f # e
    BY <1>a, <1>b, <2>1, <2>3, RotationSupersedes
  <2>4. QED
    BY <2>2, <2>3
<1>2. CASE TextureEventOnUnknown(e, t, p, ok)
  <2>0. status[e] = NoRow
    BY <1>2 DEF TextureEventOnUnknown
  <2>1. PICK st1 \in StatusColumn, b \in Bundles :
           /\ st1[e] = DetermineStatus(status, e, PendingBundles)
           /\ \A x \in Entity : x # e =>
                \/ st1[x] = status[x]
                \/ /\ x \in FallbackCandidates(status, e)
                   /\ \/ st1[x] = "fallback"
                      \/ st1[x] = "obsolete" /\ st1[e] \in {"obsolete", "complete"}
           /\ status' = Rotated(st1, e, b)
    BY <1>2, UnknownEffect DEF IInv
  <2>2. f # e
    BY <2>0, <1>b DEF ServedStatus, NoRow
  <2>3. CASE st1[f] \in ServedStatus
    BY <1>b, <2>1, <2>2, <2>3, RotationSupersedes
  <2>4. CASE st1[f] \notin ServedStatus
    <3>1. PICK n \in Entity :
             /\ Overlap(e, f) /\ TimestampOf[e] >= TimestampOf[f]
             /\ Overlap(n, e) /\ TimestampOf[n] > TimestampOf[e]
             /\ st1[n] \in ServedStatus /\ n # e
      BY <1>a, <1>b, <2>0, <2>1, <2>4, InsertionSupersedes
    <3>2. n \notin NotNewer(st1, e)
      BY <3>1, OverlapSymmetric DEF NotNewer, Newer
    <3>3. status'[n] = st1[n]
      BY <2>1, <3>1, <3>2, RotationEffect
    <3>4. QED
      BY <3>1, <3>3 DEF Superseded
  <2>5. QED
    BY <2>3, <2>4
<1>3. QED
  BY <1>1, <1>2

LEMMA SupersededStep ==
  ASSUME IInv, EventNext, NEW f \in Entity, Served(f), ~Served(f)'
  PROVE  Superseded(status', f) \/ Undeployment
<1>a. status \in StatusColumn /\ bundles \in [Entity -> Bundles]
  BY DEF IInv, TypeOK, StatusColumn
<1>b. status[f] \in ServedStatus /\ status'[f] \notin ServedStatus
  BY DEF Served
<1>1. ASSUME NEW e \in Entity, DeploymentEvent(e)
      PROVE  Superseded(status', f)
  <2>1. PICK interrupted \in Interruption : Persist(e, PendingBundles, interrupted)
    BY <1>1 DEF DeploymentEvent
  <2>2. status[e] = NoRow
    BY <1>1 DEF DeploymentEvent
  <2>3. \E n \in Entity :
           /\ Overlap(e, f) /\ TimestampOf[e] >= TimestampOf[f]
           /\ Overlap(n, e) /\ TimestampOf[n] > TimestampOf[e]
           /\ status'[n] \in ServedStatus
    BY <1>a, <1>b, <2>1, <2>2, PersistEffect, InsertionSupersedes DEF IInv
  <2>4. QED
    BY <2>3 DEF Superseded
<1>2. ASSUME NEW e \in Entity, NEW t \in BundleType, NEW p \in Platform,
             NEW ok \in BOOLEAN,
             TextureEvent(e, t, p, ok) \/ TextureEventOnUnknown(e, t, p, ok)
      PROVE  Superseded(status', f)
  BY <1>2, ConversionSupersedes
<1>3. ASSUME NEW e \in Entity, NEW t \in BundleType, NEW p \in Platform,
             NEW ok \in BOOLEAN, TextureEventOnObsolete(e, t, p, ok)
      PROVE  FALSE
  BY <1>3, <1>b DEF TextureEventOnObsolete
<1>4. ASSUME Purge PROVE FALSE
  BY <1>4, <1>b DEF Purge, PurgeRows, Obsolete, ServedStatus
<1>5. QED
  BY <1>1, <1>2, <1>3, <1>4, EventAssumption
     DEF EventNext, Deployment, Conversion

(* What is live stays live until its replacement is ready, for every         *)
(* arrangement of scenes and every order of events.                          *)
THEOREM SupersededHolds == EventSpec => ServedUntilSuperseded
<1>1. IInv /\ [EventNext]_vars =>
        [\A f \in Entity :
           Served(f) /\ ~Served(f)' => Superseded(status', f) \/ Undeployment]_vars
  BY SupersededStep
<1>2. QED
  BY <1>1, InvariantsHold, PTL DEF EventSpec, ServedUntilSuperseded

-----------------------------------------------------------------------------
(* The rows, one by one: none comes back from OBSOLETE                       *)

\* What an insertion of e and the update of its fallback do to another row x.
LEMMA InsertionKeepsRows ==
  ASSUME NEW st \in StatusColumn, NEW e \in Entity, st[e] = NoRow,
         NEW st1, st1[e] \in Status,
         \A x \in Entity : x # e =>
           \/ st1[x] = st[x]
           \/ /\ x \in FallbackCandidates(st, e)
              /\ st1[x] \in {"fallback", "obsolete"},
         NEW x \in Entity
  PROVE  st[x] = "obsolete" => st1[x] = "obsolete"
<1>1. CASE x = e
  BY <1>1 DEF NoRow
<1>2. CASE x # e
  BY <1>2 DEF FallbackCandidates, ServedStatus, NoRow
<1>3. QED
  BY <1>1, <1>2

\* A rotation of e, which is not OBSOLETE, keeps the other OBSOLETE rows so.
LEMMA RotationKeepsRows ==
  ASSUME NEW st \in StatusColumn, NEW e \in Entity, NEW b, NEW x \in Entity,
         NEW st1, st1 = Rotated(st, e, b)
  PROVE  x # e /\ st[x] = "obsolete" => st1[x] = "obsolete"
BY RotationEffect

LEMMA RowStep ==
  ASSUME TypeOK, EventNext, NEW x \in Entity
  PROVE  status[x] = "obsolete" => status'[x] \in {"obsolete", NoRow}
<1> DEFINE Goal == status[x] = "obsolete" => status'[x] \in {"obsolete", NoRow}
<1>a. status \in StatusColumn
  BY DEF TypeOK, StatusColumn
<1>1. ASSUME NEW e \in Entity, DeploymentEvent(e) PROVE Goal
  <2>1. PICK interrupted \in Interruption : Persist(e, PendingBundles, interrupted)
    BY <1>1 DEF DeploymentEvent
  <2>2. status[e] = NoRow
    BY <1>1 DEF DeploymentEvent
  <2>3. status'[e] \in Status
    BY <2>1, PersistEffect, DetermineStatusType
  <2>4. \A y \in Entity : y # e =>
          \/ status'[y] = status[y]
          \/ y \in FallbackCandidates(status, e) /\ status'[y] \in {"fallback", "obsolete"}
    BY <2>1, PersistEffect
  <2>5. QED
    BY <1>a, <2>2, <2>3, <2>4, InsertionKeepsRows
<1>2. ASSUME NEW e \in Entity, NEW t \in BundleType, NEW p \in Platform,
             NEW ok \in BOOLEAN, TextureEvent(e, t, p, ok)
      PROVE  Goal
  <2>1. \E b : status' = Rotated(status, e, b)
    BY <1>2 DEF TextureEvent
  <2>2. status[e] # "obsolete"
    BY <1>2 DEF TextureEvent
  <2>3. QED
    BY <1>a, <2>1, <2>2, RotationKeepsRows
<1>3. ASSUME NEW e \in Entity, NEW t \in BundleType, NEW p \in Platform,
             NEW ok \in BOOLEAN, TextureEventOnUnknown(e, t, p, ok)
      PROVE  Goal
  <2>1. status[e] = NoRow
    BY <1>3 DEF TextureEventOnUnknown
  <2>2. PICK st1 \in StatusColumn, b \in Bundles :
           /\ st1[e] = DetermineStatus(status, e, PendingBundles)
           /\ \A y \in Entity : y # e =>
                \/ st1[y] = status[y]
                \/ /\ y \in FallbackCandidates(status, e)
                   /\ \/ st1[y] = "fallback"
                      \/ st1[y] = "obsolete" /\ st1[e] \in {"obsolete", "complete"}
           /\ status' = Rotated(st1, e, b)
    BY <1>3, UnknownEffect
  <2>3. st1[e] \in Status
    BY <2>2, DetermineStatusType
  <2>4. \A y \in Entity : y # e =>
          \/ st1[y] = status[y]
          \/ y \in FallbackCandidates(status, e) /\ st1[y] \in {"fallback", "obsolete"}
    BY <2>2
  <2>5. status[x] = "obsolete" => x # e /\ st1[x] = "obsolete"
    BY <1>a, <2>1, <2>3, <2>4, InsertionKeepsRows DEF NoRow
  <2>6. QED
    BY <2>2, <2>5, RotationKeepsRows
<1>4. ASSUME NEW e \in Entity, NEW t \in BundleType, NEW p \in Platform,
             NEW ok \in BOOLEAN, TextureEventOnObsolete(e, t, p, ok)
      PROVE  Goal
  BY <1>4 DEF TextureEventOnObsolete
<1>5. ASSUME NEW w \in World, NEW t \in EventTime,
             \/ UndeployWorld(w, t)
             \/ \E ids \in SUBSET Entity : UndeployScenes(w, ids, t)
      PROVE  Goal
  <2>1. \E ids : status' = Undeployed(status, ids, w, t)
    BY <1>5 DEF UndeployWorld, UndeployScenes
  <2>2. QED
    BY <1>a, <2>1, UndeployedEffect
<1>6. ASSUME Purge PROVE Goal
  BY <1>6 DEF Purge, PurgeRows
<1>7. QED
  BY <1>1, <1>2, <1>3, <1>4, <1>5, <1>6, EventAssumption
     DEF EventNext, Deployment, Conversion, Undeployment

(* Whatever late conversion or redelivery arrives, a registry that was       *)
(* superseded or undeployed stays OBSOLETE until it is purged.               *)
THEOREM ObsoleteFinalHolds == EventSpec => ObsoleteIsFinal
<1>1. TypeOK /\ [EventNext]_vars =>
        [\A e \in Entity :
           status[e] = "obsolete" => status'[e] \in {"obsolete", NoRow}]_vars
  BY RowStep
<1>2. QED
  BY <1>1, TypeCorrect, PTL DEF EventSpec, ObsoleteIsFinal

-----------------------------------------------------------------------------
(* Contexts                                                                  *)

\* The context a step is about: the only one whose rows it changes, or else deletes.
LEMMA ContextStep ==
  ASSUME TypeOK, EventNext
  PROVE  \E c : \A x \in Entity : status'[x] \notin {status[x], NoRow} => ContextOf[x] = c
<1> DEFINE Goal ==
      \E c : \A x \in Entity : status'[x] \notin {status[x], NoRow} => ContextOf[x] = c
<1>a. status \in StatusColumn
  BY DEF TypeOK, StatusColumn
<1>1. ASSUME NEW e \in Entity, DeploymentEvent(e) PROVE Goal
  <2>1. PICK interrupted \in Interruption : Persist(e, PendingBundles, interrupted)
    BY <1>1 DEF DeploymentEvent
  <2>2. \A x \in Entity :
          x # e => status'[x] = status[x] \/ x \in FallbackCandidates(status, e)
    BY <2>1, PersistEffect
  <2>3. \A x \in Entity : status'[x] # status[x] => ContextOf[x] = ContextOf[e]
    BY <2>2 DEF FallbackCandidates, Related, Overlap
  <2>4. QED
    BY <2>3
<1>2. ASSUME NEW e \in Entity, NEW t \in BundleType, NEW p \in Platform,
             NEW ok \in BOOLEAN, TextureEvent(e, t, p, ok)
      PROVE  Goal
  <2>1. PICK b : status' = Rotated(status, e, b)
    BY <1>2 DEF TextureEvent
  <2>2. \A x \in Entity : x # e => status'[x] = status[x] \/ x \in NotNewer(status, e)
    BY <1>a, <2>1, RotationEffect
  <2>3. \A x \in Entity : status'[x] # status[x] => ContextOf[x] = ContextOf[e]
    BY <2>2 DEF NotNewer, Related, Overlap
  <2>4. QED
    BY <2>3
<1>3. ASSUME NEW e \in Entity, NEW t \in BundleType, NEW p \in Platform,
             NEW ok \in BOOLEAN, TextureEventOnUnknown(e, t, p, ok)
      PROVE  Goal
  <2>1. PICK st1 \in StatusColumn, b \in Bundles :
           /\ \A x \in Entity :
                x # e => st1[x] = status[x] \/ x \in FallbackCandidates(status, e)
           /\ status' = Rotated(st1, e, b)
    BY <1>3, UnknownEffect
  <2>2. \A x \in Entity : x # e => status'[x] = st1[x] \/ x \in NotNewer(st1, e)
    BY <2>1, RotationEffect
  <2>3. \A x \in Entity : status'[x] # status[x] => ContextOf[x] = ContextOf[e]
    BY <2>1, <2>2 DEF FallbackCandidates, NotNewer, Related, Overlap
  <2>4. QED
    BY <2>3
<1>4. ASSUME NEW e \in Entity, NEW t \in BundleType, NEW p \in Platform,
             NEW ok \in BOOLEAN, TextureEventOnObsolete(e, t, p, ok)
      PROVE  Goal
  BY <1>4 DEF TextureEventOnObsolete
<1>5. ASSUME NEW w \in World, NEW t \in EventTime,
             \/ UndeployWorld(w, t)
             \/ \E ids \in SUBSET Entity : UndeployScenes(w, ids, t)
      PROVE  Goal
  <2>1. PICK ids : /\ \A x \in ids : ContextOf[x] = w
                   /\ status' = Undeployed(status, ids, w, t)
    BY <1>5 DEF UndeployWorld, UndeployScenes
  <2>2. \A x \in Entity : status'[x] # status[x] => ContextOf[x] = w
    BY <2>1 DEF Undeployed
  <2>3. QED
    BY <2>2
<1>6. ASSUME Purge PROVE Goal
  BY <1>6 DEF Purge, PurgeRows
<1>7. QED
  BY <1>1, <1>2, <1>3, <1>4, <1>5, <1>6, EventAssumption
     DEF EventNext, Deployment, Conversion, Undeployment

(* Worlds and Genesis City never touch each other's scenes, although they    *)
(* use the same coordinates.                                                 *)
THEOREM ContextsHold == EventSpec => ContextsIsolated
<1>1. TypeOK /\ [EventNext]_vars =>
        [\A e, f \in Entity :
           status'[e] \notin {status[e], NoRow} /\ status'[f] \notin {status[f], NoRow} =>
             ContextOf[e] = ContextOf[f]]_vars
  BY ContextStep
<1>2. QED
  BY <1>1, TypeCorrect, PTL DEF EventSpec, ContextsIsolated

=============================================================================
