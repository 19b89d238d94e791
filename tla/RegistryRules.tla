--------------------------- MODULE RegistryRules ---------------------------
(***************************************************************************)
(* The decisions the registry component takes about one entity, as pure    *)
(* operators over the status column of the `registries` table.             *)
(*                                                                         *)
(* An entity is immutable and content-addressed: its pointers, timestamp   *)
(* and world never change, so they are constants.  The status column is a  *)
(* function st from entities to statuses; NoRow says that the table has no *)
(* row with that id.                                                       *)
(***************************************************************************)
EXTENDS Integers

CONSTANTS
  Entity,       \* ids of the scenes the registry can hear of
  Pointer,      \* coordinates
  World,        \* worlds (metadata.worldConfiguration.name, lower case)
  Genesis,      \* the context of scenes whose metadata names no world
  PointersOf,   \* the pointers of each entity
  TimestampOf,  \* the deployment timestamp of each entity
  ContextOf,    \* the world of each entity, or Genesis
  Platform      \* the supported platforms, windows and mac

ASSUME EntityAssumption ==
  /\ Genesis \notin World
  /\ Platform # {}
  /\ PointersOf \in [Entity -> SUBSET Pointer]
  /\ TimestampOf \in [Entity -> Nat]
  /\ ContextOf \in [Entity -> World \cup {Genesis}]

-----------------------------------------------------------------------------
(* Registry.Status, Registry.SimplifiedStatus and Registry.Bundles          *)

NoRow == "none"

Status == {"complete", "pending", "failed", "obsolete", "fallback"}

\* The statuses under which a registry is returned to clients.
ServedStatus == {"complete", "fallback"}

SimplifiedStatus == {"pending", "complete", "failed"}
BundleType == {"assets", "lods"}
Bundles == [BundleType -> [Platform -> SimplifiedStatus]]

\* Mutant: default bundles without the LODs.
AssetsOnlyPending == [t \in {"assets"} |-> [p \in Platform |-> "pending"]]

\* The bundles a deployment, or the first conversion result, starts from.
PendingBundles == [t \in BundleType |-> [p \in Platform |-> "pending"]]

-----------------------------------------------------------------------------
(* What getRelatedRegistries returns and how it is categorized              *)

\* Mutant: the world filter of the query is forgotten.
OverlapAnyContext(e, f) == e # f /\ PointersOf[e] \cap PointersOf[f] # {}

\* The two scenes share a coordinate of the same world, or of Genesis City.
Overlap(e, f) ==
  /\ e # f
  /\ ContextOf[e] = ContextOf[f]
  /\ PointersOf[e] \cap PointersOf[f] # {}

Related(st, e) ==
  {r \in Entity : Overlap(e, r) /\ st[r] \notin {NoRow, "obsolete"}}

Newer(st, e) == {r \in Related(st, e) : TimestampOf[r] > TimestampOf[e]}

\* What may stand in for e: the related registries older than e being served.
FallbackCandidates(st, e) ==
  {r \in Related(st, e) : TimestampOf[r] < TimestampOf[e] /\ st[r] \in ServedStatus}

(* The reduce keeps the newest candidate.  Rows with the same timestamp come *)
(* in any order and the first one wins, hence a set of choices; each choice  *)
(* is the empty set or a singleton.                                          *)
FallbackChoices(st, e) ==
  IF FallbackCandidates(st, e) = {}
  THEN {{}}
  ELSE {{r} : r \in {c \in FallbackCandidates(st, e) :
                       \A d \in FallbackCandidates(st, e) :
                         TimestampOf[d] <= TimestampOf[c]}}

(* `olderEntities` and the fallback together: everything related that is not *)
(* newer.  A registry with the timestamp of e counts as older.               *)
NotNewer(st, e) == Related(st, e) \ Newer(st, e)

-----------------------------------------------------------------------------
(* determineRegistryStatus                                                   *)

BundlesVerdict(b) ==
  CASE \E p \in Platform : b["assets"][p] = "failed"   -> "failed"
    [] \A p \in Platform : b["assets"][p] = "complete" -> "complete"
    [] OTHER                                           -> "pending"

\* Mutant: the newer registries are not looked at.
StatusIgnoringNewer(st, e, b) == BundlesVerdict(b)

DetermineStatus(st, e, b) ==
  IF \E n \in Newer(st, e) : st[n] \in ServedStatus
  THEN "obsolete"
  ELSE BundlesVerdict(b)

=============================================================================
