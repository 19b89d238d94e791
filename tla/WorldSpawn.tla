----------------------------- MODULE WorldSpawn -----------------------------
(***************************************************************************)
(* The spawn coordinate of a world, beside the registry that triggers its  *)
(* recalculation.                                                          *)
(*                                                                         *)
(* Registry events are the atomic steps of RegistryService; what follows   *)
(* them is a transaction of its own: recalculateSpawnCoordinate reads the  *)
(* bounds of the world, reads the stored coordinate and applies its        *)
(* decision.  At READ COMMITTED other workers and operators commit between *)
(* these three statements.  The queue does not order events: they carry    *)
(* any timestamp, and the guards of the statements compare them.  A failed *)
(* undeployment goes back to the queue and is handled again, after         *)
(* whatever came meanwhile.                                                *)
(***************************************************************************)
EXTENDS RegistryService, FiniteSetsExt

CONSTANTS
  Place,       \* the world under study
  BaseOf,      \* scene.base, or the first parcel, of each scene
  SpawnPoint,  \* the coordinates users choose
  SceneList,   \* the lists of scenes undeployment events carry
  Deniable,    \* the scenes operators put on the denylist and take off it
  Worker,
  MaxRequeued  \* bound: undeployments waiting to be handled again

ASSUME SpawnAssumption ==
  /\ Place \in World
  /\ Pointer \subseteq Int \X Int /\ IsFiniteSet(Pointer)
  /\ BaseOf \in [Entity -> Pointer]
  /\ SpawnPoint \subseteq Int \X Int
  /\ SceneList \subseteq (SUBSET {e \in Entity : ContextOf[e] = Place}) \ {{}}
  /\ Deniable \subseteq Entity
  /\ MaxRequeued \in Nat

VARIABLES
  spawn,     \* the row of world_spawn_coordinates
  denied,    \* entities on the denylist
  task,      \* the recalculation each worker is in
  requeued,  \* undeployments waiting to be handled again
  vacated,   \* history: the newest undeployment since the world has no scenes
  disturbed  \* history: an event was handled again, or a recalculation overtaken

spawnVars == <<spawn, denied, task, requeued, vacated, disturbed>>

allVars == <<vars, spawnVars>>

NoSpawn == [timestamp |-> -1]
Coordinates == [at : Int \X Int, isUserSet : BOOLEAN, timestamp : Nat]

NoBase == <<>>
Idle == [pc |-> "idle"]

\* The undeployments of scenes and of the whole world, as events.
Undeployments ==
  [world : {FALSE}, ids : SceneList, time : EventTime]
    \cup [world : {TRUE}, ids : {{}}, time : EventTime]

WorldSpawnTypeOK ==
  /\ TypeOK
  /\ spawn = NoSpawn \/ spawn \in Coordinates
  /\ denied \subseteq Deniable
  /\ \A w \in Worker : task[w] = Idle \/ task[w].pc \in {"bounds", "spawn", "apply"}
  /\ requeued \subseteq Undeployments
  /\ vacated \in EventTime \cup {0}
  /\ disturbed \in BOOLEAN

WorldSpawnInit ==
  /\ Init
  /\ spawn = NoSpawn
  /\ denied = {}
  /\ task = [w \in Worker |-> Idle]
  /\ requeued = {}
  /\ vacated = 0
  /\ disturbed = FALSE

-----------------------------------------------------------------------------
(* Geometry                                                                  *)

Xs(ps) == {p[1] : p \in ps}
Ys(ps) == {p[2] : p \in ps}

\* The bounding rectangle as the set of its coordinates, empty for no parcels.
Rectangle(ps) ==
  IF ps = {} THEN {} ELSE (Min(Xs(ps))..Max(Xs(ps))) \X (Min(Ys(ps))..Max(Ys(ps)))

\* Mutant: half of the extent, without the offset of the smallest coordinate.
MiddleOfExtent(S) == (Max(S) - Min(S)) \div 2

\* Math.round of half a sum rounds halves up.
Middle(S) == (Min(S) + Max(S) + 1) \div 2

CenterFromBounds(ps) == <<Middle(Xs(ps)), Middle(Ys(ps))>>

-----------------------------------------------------------------------------
(* What the registry and the spawn table say                                 *)

Scenes(st) == {e \in Entity : ContextOf[e] = Place /\ st[e] \in ServedStatus}

Parcels == UNION {PointersOf[e] : e \in Scenes(status) \ denied}

-----------------------------------------------------------------------------
(* recalculateSpawnIfNeeded                                                  *)

Quiet == \A w \in Worker : task[w] = Idle

\* What w has read is no longer so.
Overtaken(w) == task[w].parcels # Parcels \/ task[w].current # spawn

\* `event` is what goes back to the queue if the recalculation fails.
Recalculate(w, t, base, event) ==
  task' = [task EXCEPT ![w] = [pc |-> "bounds", time |-> t, base |-> base,
                               event |-> event, parcels |-> {}, current |-> NoSpawn]]

Finish(w) == task' = [task EXCEPT ![w] = Idle]

\* _upsertSpawnCoordinate and _deleteSpawnCoordinate: newer events only.
Upsert(at, user, t) ==
  spawn' = IF spawn.timestamp < t
           THEN [at |-> at, isUserSet |-> user, timestamp |-> t]
           ELSE spawn

DeleteSpawn(t) == spawn' = IF spawn.timestamp < t THEN NoSpawn ELSE spawn

ReadBounds(w) ==
  /\ task[w].pc = "bounds"
  /\ task' = [task EXCEPT ![w].pc = "spawn", ![w].parcels = Parcels]
  /\ UNCHANGED <<vars, spawn, denied, requeued, vacated, disturbed>>

ReadSpawn(w) ==
  /\ task[w].pc = "spawn"
  /\ task' = [task EXCEPT ![w].pc = "apply", ![w].current = spawn]
  /\ UNCHANGED <<vars, spawn, denied, requeued, vacated, disturbed>>

\* Mutant: the coordinate is recalculated whenever the scenes change.
SpawnActionAlways(j) ==
  IF j.parcels = {} THEN DeleteSpawn(j.time)
  ELSE Upsert(CenterFromBounds(j.parcels), FALSE, j.time)

\* Mutant: a world without scenes keeps its coordinate.
SpawnActionKeeping(j) ==
  IF j.parcels # {} /\ j.current = NoSpawn
  THEN Upsert(CenterFromBounds(j.parcels), FALSE, j.time)
  ELSE UNCHANGED spawn

\* calculateSpawnAction on what was read, and the statement it leads to.
SpawnAction(j) ==
  IF j.parcels = {} THEN DeleteSpawn(j.time)
  ELSE IF j.current = NoSpawn
  THEN Upsert(IF j.base = NoBase THEN CenterFromBounds(j.parcels) ELSE j.base,
              FALSE, j.time)
  ELSE IF j.current.at \in Rectangle(j.parcels)
  THEN UNCHANGED spawn
  ELSE Upsert(CenterFromBounds(j.parcels), FALSE, j.time)

Apply(w) ==
  /\ task[w].pc = "apply"
  /\ SpawnAction(task[w])
  /\ Finish(w)
  /\ disturbed' = (disturbed \/ Overtaken(w))
  /\ UNCHANGED <<vars, denied, requeued, vacated>>

(* The recalculation throws.  The textures handler swallows the error; an    *)
(* undeployment handler fails, and its event is queued again.                *)
FailRecalculation(w) ==
  /\ task[w] # Idle
  /\ requeued' = requeued \cup task[w].event
  /\ Cardinality(requeued') <= MaxRequeued
  /\ Finish(w)
  /\ UNCHANGED <<vars, spawn, denied, vacated, disturbed>>

-----------------------------------------------------------------------------
(* Events, in any order                                                      *)

(* The history of undeployments: one of time t with rows to undeploy (0 is   *)
(* none).                                                                    *)
Vacate(t) ==
  vacated' = IF Scenes(status') # {} THEN 0 ELSE IF t > vacated THEN t ELSE vacated

ProcessDeployment(w, e) ==
  /\ task[w] = Idle
  /\ DeploymentEvent(e)
  /\ Vacate(0)
  /\ UNCHANGED <<spawn, denied, task, requeued, disturbed>>

ProcessConversion(w, e, b, ok, t) ==
  /\ task[w] = Idle
  /\ \/ TextureEvent(e, b[1], b[2], ok)
     \/ TextureEventOnObsolete(e, b[1], b[2], ok)
     \/ TextureEventOnUnknown(e, b[1], b[2], ok)
  /\ IF ContextOf[e] = Place /\ status'[e] \in ServedStatus
     THEN Recalculate(w, t, BaseOf[e], {})
     ELSE UNCHANGED task
  /\ Vacate(0)
  /\ UNCHANGED <<spawn, denied, requeued, disturbed>>

\* What an undeployment event u lists: its scenes, or what is live by now.
Listed(u) ==
  IF u.world
  THEN {e \in Entity : /\ ContextOf[e] = Place
                       /\ status[e] \notin {NoRow, "obsolete"}
                       /\ TimestampOf[e] < u.time}
  ELSE u.ids

(* undeployWorldScenes and undeployWorld: the spawn is recalculated if the   *)
(* UPDATE touched a row, even one that was OBSOLETE already.                 *)
Undeploy(w, u) ==
  LET touched == {e \in Listed(u) : status[e] # NoRow /\ TimestampOf[e] < u.time}
  IN /\ status' = Undeployed(status, Listed(u), Place, u.time)
     /\ IF touched = {}
        THEN UNCHANGED <<task, vacated>>
        ELSE Recalculate(w, u.time, NoBase, {u}) /\ Vacate(u.time)
     /\ UNCHANGED <<bundles, historical, spawn, denied>>

ProcessUndeployment(w, u) ==
  /\ task[w] = Idle
  /\ Undeploy(w, u)
  /\ UNCHANGED <<requeued, disturbed>>

ProcessAgain(w, u) ==
  /\ task[w] = Idle
  /\ u \in requeued
  /\ requeued' = requeued \ {u}
  /\ disturbed' = TRUE
  /\ Undeploy(w, u)

\* setUserSpawnCoordinate stores the coordinate whatever the bounds are.
SetUserSpawn(w, at, t) ==
  /\ task[w] = Idle
  /\ Upsert(at, TRUE, t)
  /\ UNCHANGED <<vars, denied, task, requeued, vacated, disturbed>>

\* POST and DELETE of a denylist entry recalculate nothing.
EditDenylist(e) ==
  /\ denied' = IF e \in denied THEN denied \ {e} ELSE denied \cup {e}
  /\ UNCHANGED <<vars, spawn, task, requeued, vacated, disturbed>>

Worldly(w) ==
  \/ \E e \in Entity : ProcessDeployment(w, e)
  \/ \E e \in Entity, b \in EventBundle, ok \in BOOLEAN, t \in EventTime :
       ProcessConversion(w, e, b, ok, t)
  \/ \E u \in Undeployments : ProcessUndeployment(w, u)
  \/ \E u \in requeued : ProcessAgain(w, u)
  \/ \E at \in SpawnPoint, t \in EventTime : SetUserSpawn(w, at, t)
  \/ ReadBounds(w) \/ ReadSpawn(w) \/ Apply(w) \/ FailRecalculation(w)

WorldSpawnNext ==
  \/ \E w \in Worker : Worldly(w)
  \/ \E e \in Deniable : EditDenylist(e)

WorldSpawnSpec == WorldSpawnInit /\ [][WorldSpawnNext]_allVars

-----------------------------------------------------------------------------
(* Properties                                                                *)

\* The recalculation of w ends with its decision applied.
Applies(w) == task[w].pc = "apply" /\ task'[w] = Idle

(* The coordinate of a world, and a user's choice above all, gives way only  *)
(* to an event later than its own; and while it is within the bounds of the  *)
(* world, only to a user's choice or to a recalculation that was overtaken:  *)
(* one that had read another coordinate, or bounds this one is not in.       *)
(* (logic/coordinates/types.ts: "If spawn exists and IS user-set: keeps it   *)
(* if still within bounds".)                                                 *)
SpawnKeptInBounds ==
  [][spawn # NoSpawn /\ spawn' # spawn =>
       /\ \/ spawn' # NoSpawn /\ spawn'.timestamp > spawn.timestamp
          \/ \E w \in Worker : Applies(w) /\ task[w].time > spawn.timestamp
       /\ \/ spawn' # NoSpawn /\ spawn'.isUserSet
          \/ spawn.at \notin Rectangle(Parcels)
          \/ \E w \in Worker :
               /\ Applies(w)
               /\ \/ task[w].current # spawn
                  \/ spawn.at \notin Rectangle(task[w].parcels)]_allVars

(* What the service puts in the place of a coordinate that has fallen out of *)
(* the bounds lies within the bounds it has read, wherever they are and      *)
(* however the center rounds: the next recalculation will keep it.  Only a   *)
(* recalculation that had found no coordinate may write a scene's base over  *)
(* one that came meanwhile.  (logic/coordinates/component.ts,                *)
(* calculateCenterFromBounds.)                                               *)
SpawnMovedIntoBounds ==
  [][spawn # NoSpawn /\ spawn' \notin {NoSpawn, spawn} /\ ~spawn'.isUserSet =>
       \E w \in Worker :
         /\ Applies(w)
         /\ \/ spawn'.at \in Rectangle(task[w].parcels)
            \/ task[w].current = NoSpawn]_allVars

(* logic/handlers/world-undeployment-handler.ts: "marks all registries       *)
(* belonging to the world as OBSOLETE and recalculates spawn coordinates".   *)
(* Once every event has been handled, a world without scenes has no          *)
(* automatic coordinate left but one stamped later than the undeployments    *)
(* that emptied it, which the guard of the DELETE protects: a later          *)
(* deployment starts afresh.                                                 *)
UndeploymentClearsSpawn ==
  Quiet /\ requeued = {} /\ Scenes(status) = {} =>
    spawn = NoSpawn \/ spawn.isUserSet \/ spawn.timestamp >= vacated

(* As long as no event has had to be handled twice and no recalculation has  *)
(* been overtaken, that is so, whichever deployments, conversions,           *)
(* undeployments and choices of the user led there, in whatever order, and   *)
(* however many consumers handled them at once.                              *)
NoOrphanSpawn == ~disturbed => UndeploymentClearsSpawn

=============================================================================
