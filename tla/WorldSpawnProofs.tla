-------------------------- MODULE WorldSpawnProofs --------------------------
(***************************************************************************)
(* Theorems about the spawn coordinate of a world, for every arrangement   *)
(* of scenes, bases, users' choices, times and workers, with the events in *)
(* any order, recalculations that interleave, fail and are handled again,  *)
(* and operators editing the denylist at any moment.                       *)
(***************************************************************************)
EXTENDS WorldSpawn, RegistryServiceProofs, FiniteSetTheorems

-----------------------------------------------------------------------------
(* What the workers, the table and the queue hold                            *)

Busy(j) ==
  /\ j = [pc |-> j.pc, time |-> j.time, base |-> j.base,
          event |-> j.event, parcels |-> j.parcels, current |-> j.current]
  /\ j.pc \in {"bounds", "spawn", "apply"}
  /\ j.time \in EventTime
  /\ j.base = NoBase \/ j.base \in Pointer
  /\ j.parcels \subseteq Pointer
  /\ j.event \subseteq Undeployments

SpawnInv ==
  /\ IInv
  /\ spawn = NoSpawn \/ spawn \in Coordinates
  /\ denied \subseteq Deniable
  /\ task = [w \in Worker |-> task[w]]
  /\ \A w \in Worker : task[w] = Idle \/ Busy(task[w])
  /\ requeued \subseteq Undeployments
  /\ vacated \in EventTime \cup {0}
  /\ disturbed \in BOOLEAN

LEMMA IdleOrBusy ==
  /\ Idle.pc = "idle"
  /\ \A j : Busy(j) => j # Idle
  BY DEF Busy, Idle

LEMMA UndeploymentShape ==
  ASSUME NEW u \in Undeployments
  PROVE  /\ u.time \in EventTime /\ u.time \in Nat
         /\ u.world \in BOOLEAN
         /\ ~u.world => u.ids # {} /\ u.ids \subseteq {e \in Entity : ContextOf[e] = Place}
<1>1. CASE u \in [world : {FALSE}, ids : SceneList, time : EventTime]
  BY <1>1, SpawnAssumption, EventAssumption
<1>2. CASE u \in [world : {TRUE}, ids : {{}}, time : EventTime]
  BY <1>2, EventAssumption
<1>3. QED
  BY <1>1, <1>2 DEF Undeployments

LEMMA StampType ==
  ASSUME spawn = NoSpawn \/ spawn \in Coordinates
  PROVE  spawn.timestamp \in Int
  BY DEF NoSpawn, Coordinates

-----------------------------------------------------------------------------
(* The registry under the composition                                        *)

\* What an undeployment does to the registry is what its event would do.
LEMMA UndeployIsEvent ==
  ASSUME TypeOK, NEW w \in Worker, NEW u \in Undeployments, Undeploy(w, u)
  PROVE  Undeployment \/ UNCHANGED vars
<1>1. /\ status' = Undeployed(status, Listed(u), Place, u.time)
      /\ UNCHANGED <<bundles, historical>>
  BY DEF Undeploy
<1>2. Place \in World /\ u.time \in EventTime
  BY SpawnAssumption, UndeploymentShape
<1>3. CASE ~u.world
  BY <1>1, <1>2, <1>3, UndeploymentShape DEF Listed, Undeployment, UndeployScenes
<1>4. CASE u.world /\ Listed(u) # {}
  BY <1>1, <1>2, <1>4 DEF Listed, Undeployment, UndeployWorld
<1>5. CASE Listed(u) = {}
  <2>1. status' = status
    BY <1>1, <1>5 DEF Undeployed, TypeOK
  <2>2. QED
    BY <1>1, <2>1 DEF vars
<1>6. QED
  BY <1>3, <1>4, <1>5, UndeploymentShape

LEMMA RegistryStep == SpawnInv /\ [WorldSpawnNext]_allVars => [EventNext]_vars
<1> SUFFICES ASSUME SpawnInv, WorldSpawnNext PROVE [EventNext]_vars
  BY DEF allVars, vars
<1>a. TypeOK /\ requeued \subseteq Undeployments
  BY DEF SpawnInv, IInv
<1>1. ASSUME NEW w \in Worker, NEW e \in Entity, ProcessDeployment(w, e)
      PROVE  [EventNext]_vars
  BY <1>1 DEF ProcessDeployment, EventNext, Deployment
<1>2. ASSUME NEW w \in Worker, NEW e \in Entity, NEW b \in EventBundle,
             NEW ok \in BOOLEAN, NEW t \in EventTime, ProcessConversion(w, e, b, ok, t)
      PROVE  [EventNext]_vars
  BY <1>2 DEF ProcessConversion, EventNext, Conversion
<1>3. ASSUME NEW w \in Worker, NEW u \in Undeployments,
             ProcessUndeployment(w, u) \/ ProcessAgain(w, u)
      PROVE  [EventNext]_vars
  <2>1. Undeploy(w, u)
    BY <1>3 DEF ProcessUndeployment, ProcessAgain
  <2>2. QED
    BY <1>a, <2>1, UndeployIsEvent DEF EventNext
<1>4. ASSUME NEW w \in Worker,
             \/ \E at \in SpawnPoint, t \in EventTime : SetUserSpawn(w, at, t)
             \/ ReadBounds(w) \/ ReadSpawn(w) \/ Apply(w) \/ FailRecalculation(w)
      PROVE  UNCHANGED vars
  BY <1>4 DEF SetUserSpawn, ReadBounds, ReadSpawn, Apply, FailRecalculation
<1>5. ASSUME NEW e \in Deniable, EditDenylist(e) PROVE UNCHANGED vars
  BY <1>5 DEF EditDenylist
<1>6. QED
  BY <1>a, <1>1, <1>2, <1>3, <1>4, <1>5 DEF WorldSpawnNext, Worldly

-----------------------------------------------------------------------------
(* The center of the bounding rectangle lies in it                           *)

\* S has a least and a greatest element.
Bounded(S) ==
  /\ \E m \in S : \A x \in S : m <= x
  /\ \E m \in S : \A x \in S : m >= x

(* Of the unbounded subsets of S take one that is minimal: without any one   *)
(* of its elements it is bounded, and so it is with it.                      *)
LEMMA FiniteBounded ==
  ASSUME NEW S, S \subseteq Int, IsFiniteSet(S), S # {}
  PROVE  Bounded(S)
<1> DEFINE bad == {B \in SUBSET S : B # {} /\ ~Bounded(B)}
<1> SUFFICES ASSUME bad # {} PROVE FALSE
  OBVIOUS
<1>1. PICK B \in bad : \A C \in bad : <<C, B>> \notin StrictSubsetOrdering(S)
  <2>1. IsWellFoundedOn(StrictSubsetOrdering(S), SUBSET S)
    BY FS_StrictSubsetOrderingWellFounded, FS_FiniteSubsetsOfFinite
  <2>2. bad \subseteq SUBSET S
    OBVIOUS
  <2> HIDE DEF bad
  <2>3. QED
    BY <2>1, <2>2, WFMin
<1>2. PICK b \in B : b \in Int
  OBVIOUS
<1> DEFINE C == B \ {b}
<1>3. C = {} \/ Bounded(C)
  <2>1. C \subseteq B /\ C # B /\ C \in SUBSET S /\ B \in SUBSET S
    OBVIOUS
  <2>2. <<C, B>> \in StrictSubsetOrdering(S)
    BY <2>1 DEF StrictSubsetOrdering
  <2>3. QED
    BY <1>1, <2>1, <2>2
<1>4. CASE C = {}
  BY <1>2, <1>4 DEF Bounded
<1>5. CASE Bounded(C)
  <2>1. PICK l \in C, g \in C : \A x \in C : l <= x /\ g >= x
    BY <1>5 DEF Bounded
  <2>2. \A x \in B : x \in Int /\ (x = b \/ x \in C)
    OBVIOUS
  <2>3. \E m \in B : \A x \in B : m <= x
    <3>1. CASE l <= b
      BY <2>1, <2>2, <3>1
    <3>2. CASE b <= l
      BY <1>2, <2>1, <2>2, <3>2
    <3>3. QED
      BY <1>2, <2>1, <2>2, <3>1, <3>2
  <2>4. \E m \in B : \A x \in B : m >= x
    <3>1. CASE g >= b
      BY <2>1, <2>2, <3>1
    <3>2. CASE b >= g
      BY <1>2, <2>1, <2>2, <3>2
    <3>3. QED
      BY <1>2, <2>1, <2>2, <3>1, <3>2
  <2>5. QED
    BY <2>3, <2>4 DEF Bounded
<1>6. QED
  BY <1>3, <1>4, <1>5

LEMMA MiddleWithin ==
  ASSUME NEW S, S \subseteq Int, IsFiniteSet(S), S # {}
  PROVE  Middle(S) \in Min(S)..Max(S)
<1>1. Min(S) \in S /\ Max(S) \in S /\ Min(S) <= Max(S)
  BY FiniteBounded DEF Bounded, Min, Max
<1>2. \A l, g \in Int : l <= g => (l + g + 1) \div 2 \in l..g
  OBVIOUS
<1>3. QED
  BY <1>1, <1>2 DEF Middle

\* However it rounds, the center of the bounds is within them.
LEMMA CenterWithin ==
  ASSUME NEW ps, ps \subseteq Pointer, ps # {}
  PROVE  /\ CenterFromBounds(ps) \in Rectangle(ps)
         /\ CenterFromBounds(ps) \in Int \X Int
<1>1. IsFiniteSet(ps) /\ ps \subseteq Int \X Int
  BY SpawnAssumption, FS_Subset
<1>2. Xs(ps) \subseteq Int /\ Ys(ps) \subseteq Int /\ Xs(ps) # {} /\ Ys(ps) # {}
  BY <1>1 DEF Xs, Ys
<1>3. IsFiniteSet(Xs(ps)) /\ IsFiniteSet(Ys(ps))
  <2>1. [p \in ps |-> p[1]] \in Surjection(ps, Xs(ps))
    BY DEF Surjection, Xs
  <2>2. [p \in ps |-> p[2]] \in Surjection(ps, Ys(ps))
    BY DEF Surjection, Ys
  <2>3. QED
    BY <1>1, <2>1, <2>2, FS_Surjection
<1>4. /\ Middle(Xs(ps)) \in Min(Xs(ps))..Max(Xs(ps))
      /\ Middle(Ys(ps)) \in Min(Ys(ps))..Max(Ys(ps))
  BY <1>2, <1>3, MiddleWithin
<1>5. /\ Min(Xs(ps)) \in Int /\ Max(Xs(ps)) \in Int
      /\ Min(Ys(ps)) \in Int /\ Max(Ys(ps)) \in Int
  BY <1>2, <1>3, FiniteBounded DEF Bounded, Min, Max
<1>6. QED
  BY <1>4, <1>5 DEF CenterFromBounds, Rectangle

-----------------------------------------------------------------------------
(* What a decision writes                                                    *)

LEMMA UpsertType ==
  ASSUME NEW at \in Int \X Int, NEW user \in BOOLEAN, NEW t \in Nat,
         Upsert(at, user, t), spawn = NoSpawn \/ spawn \in Coordinates
  PROVE  spawn' = NoSpawn \/ spawn' \in Coordinates
  BY DEF Upsert, Coordinates

(* What the decision j taken on what was read does to the coordinate: it     *)
(* leaves it, clears it if it had read no bounds, or moves it, and either of *)
(* these only for a later event.                                             *)
LEMMA ActionEffect ==
  ASSUME NEW j, Busy(j), SpawnAction(j), spawn = NoSpawn \/ spawn \in Coordinates
  PROVE  \/ spawn' = spawn
         \/ /\ spawn.timestamp < j.time
            /\ j.parcels = {} /\ spawn' = NoSpawn
         \/ /\ spawn.timestamp < j.time /\ j.parcels # {}
            /\ spawn' \in Coordinates /\ spawn'.timestamp = j.time
            /\ ~spawn'.isUserSet
            /\ j.current = NoSpawn \/ j.current.at \notin Rectangle(j.parcels)
            /\ j.current = NoSpawn \/ spawn'.at \in Rectangle(j.parcels)
<1>a. j.time \in Nat /\ j.parcels \subseteq Pointer /\ (j.base = NoBase \/ j.base \in Pointer)
  BY EventAssumption DEF Busy
<1>1. CASE j.parcels = {}
  BY <1>1 DEF SpawnAction, DeleteSpawn
<1>2. CASE j.parcels # {} /\ j.current = NoSpawn
  <2>1. CASE j.base = NoBase
    <3>1. /\ CenterFromBounds(j.parcels) \in Int \X Int
          /\ Upsert(CenterFromBounds(j.parcels), FALSE, j.time)
      BY <1>2, <1>a, <2>1, CenterWithin DEF SpawnAction
    <3>2. QED
      BY <1>2, <1>a, <3>1 DEF Upsert, Coordinates
  <2>2. CASE j.base # NoBase
    <3>1. j.base \in Int \X Int /\ Upsert(j.base, FALSE, j.time)
      BY <1>2, <1>a, <2>2, SpawnAssumption DEF SpawnAction
    <3>2. QED
      BY <1>2, <1>a, <3>1 DEF Upsert, Coordinates
  <2>3. QED
    BY <2>1, <2>2
<1>3. CASE /\ j.parcels # {} /\ j.current # NoSpawn
           /\ j.current.at \in Rectangle(j.parcels)
  BY <1>3 DEF SpawnAction
<1>4. CASE /\ j.parcels # {} /\ j.current # NoSpawn
           /\ j.current.at \notin Rectangle(j.parcels)
  <2>1. /\ CenterFromBounds(j.parcels) \in Rectangle(j.parcels)
        /\ CenterFromBounds(j.parcels) \in Int \X Int
        /\ Upsert(CenterFromBounds(j.parcels), FALSE, j.time)
    BY <1>4, <1>a, CenterWithin DEF SpawnAction
  <2>2. QED
    BY <1>4, <1>a, <2>1 DEF Upsert, Coordinates
<1>5. QED
  BY <1>1, <1>2, <1>3, <1>4

-----------------------------------------------------------------------------
(* The composition keeps its invariant                                       *)

\* What the workers are in once the worker w has moved to j.
LEMMA TaskStep ==
  ASSUME SpawnInv, NEW w \in Worker, NEW j, j = Idle \/ Busy(j),
         task' = [task EXCEPT ![w] = j]
  PROVE  /\ task' = [v \in Worker |-> task'[v]]
         /\ \A v \in Worker : task'[v] = Idle \/ Busy(task'[v])
         /\ task'[w] = j
         /\ \A v \in Worker : v # w => task'[v] = task[v]
<1>1. task = [v \in Worker |-> task[v]]
  BY DEF SpawnInv
<1>2. /\ task'[w] = j
      /\ \A v \in Worker : v # w => task'[v] = task[v]
      /\ task' = [v \in Worker |-> task'[v]]
  BY <1>1
<1>3. QED
  BY <1>2 DEF SpawnInv

\* A recalculation that begins.
LEMMA Begun ==
  ASSUME NEW w, NEW t \in EventTime, NEW base, base = NoBase \/ base \in Pointer,
         NEW event, event \subseteq Undeployments, Recalculate(w, t, base, event)
  PROVE  \E j : /\ task' = [task EXCEPT ![w] = j]
                /\ Busy(j)
                /\ j.time = t /\ j.event = event
<1> DEFINE j == [pc |-> "bounds", time |-> t, base |-> base,
                 event |-> event, parcels |-> {}, current |-> NoSpawn]
<1>1. task' = [task EXCEPT ![w] = j]
  BY DEF Recalculate
<1>2. Busy(j) /\ j.time = t /\ j.event = event
  BY DEF Busy
<1> HIDE DEF j
<1>3. QED
  BY <1>1, <1>2

\* A recalculation that has read one thing more.
LEMMA ReadStep ==
  ASSUME SpawnInv, NEW w \in Worker, ReadBounds(w) \/ ReadSpawn(w)
  PROVE  \E j : /\ task' = [task EXCEPT ![w] = j]
                /\ Busy(j) /\ Busy(task[w])
                /\ j.time = task[w].time /\ j.event = task[w].event
<1>1. task[w] # Idle
  BY IdleOrBusy DEF ReadBounds, ReadSpawn
<1>2. Busy(task[w])
  BY <1>1 DEF SpawnInv
<1>a. task[w] = [pc |-> task[w].pc, time |-> task[w].time, base |-> task[w].base,
                 event |-> task[w].event, parcels |-> task[w].parcels,
                 current |-> task[w].current]
  BY <1>2 DEF Busy
<1>3. Parcels \subseteq Pointer
  BY EntityAssumption DEF Parcels, Scenes
<1>4. CASE ReadBounds(w)
  <2>1. PICK j : j = [task[w] EXCEPT !.pc = "spawn", !.parcels = Parcels]
    OBVIOUS
  <2>2. task' = [task EXCEPT ![w] = j]
    BY <1>4, <2>1 DEF ReadBounds
  <2>3. j = [pc |-> j.pc, time |-> j.time, base |-> j.base,
             event |-> j.event, parcels |-> j.parcels, current |-> j.current]
    BY <1>a, <2>1
  <2>4. /\ j.pc = "spawn" /\ j.time = task[w].time /\ j.base = task[w].base
        /\ j.event = task[w].event /\ j.parcels = Parcels
    BY <1>a, <2>1
  <2>5. Busy(j)
    BY <1>2, <1>3, <2>3, <2>4 DEF Busy
  <2>6. QED
    BY <1>2, <2>2, <2>4, <2>5
<1>5. CASE ReadSpawn(w)
  <2>1. PICK j : j = [task[w] EXCEPT !.pc = "apply", !.current = spawn]
    OBVIOUS
  <2>2. task' = [task EXCEPT ![w] = j]
    BY <1>5, <2>1 DEF ReadSpawn
  <2>3. j = [pc |-> j.pc, time |-> j.time, base |-> j.base,
             event |-> j.event, parcels |-> j.parcels, current |-> j.current]
    BY <1>a, <2>1
  <2>4. /\ j.pc = "apply" /\ j.time = task[w].time /\ j.base = task[w].base
        /\ j.event = task[w].event /\ j.parcels = task[w].parcels
    BY <1>a, <2>1
  <2>5. Busy(j)
    BY <1>2, <2>3, <2>4 DEF Busy
  <2>6. QED
    BY <1>2, <2>2, <2>4, <2>5
<1>6. QED
  BY <1>4, <1>5

LEMMA VacateType ==
  ASSUME NEW t \in EventTime \cup {0}, Vacate(t), vacated \in EventTime \cup {0}
  PROVE  vacated' \in EventTime \cup {0}
  BY DEF Vacate

(* An undeployment that touches no row changes no scene; one that does       *)
(* recalculates.                                                             *)
LEMMA UndeployEffect ==
  ASSUME TypeOK, NEW w, NEW u, Undeploy(w, u)
  PROVE  /\ UNCHANGED <<spawn, denied>>
         /\ \/ status' = status /\ UNCHANGED <<task, vacated>>
            \/ Recalculate(w, u.time, NoBase, {u}) /\ Vacate(u.time)
<1> DEFINE touched == {e \in Listed(u) : status[e] # NoRow /\ TimestampOf[e] < u.time}
<1>1. CASE touched = {}
  <2>1. /\ status' = Undeployed(status, Listed(u), Place, u.time)
        /\ UNCHANGED <<task, vacated, spawn, denied>>
    BY <1>1 DEF Undeploy
  <2>2. \A x \in Entity : Undeployed(status, Listed(u), Place, u.time)[x] = status[x]
    BY <1>1 DEF Undeployed
  <2>3. status' = status
    BY <2>1, <2>2 DEF TypeOK, Undeployed
  <2>4. QED
    BY <2>1, <2>3
<1>2. CASE touched # {}
  BY <1>2 DEF Undeploy
<1>3. QED
  BY <1>1, <1>2

LEMMA SpawnStep == SpawnInv /\ [WorldSpawnNext]_allVars => SpawnInv'
<1> SUFFICES ASSUME SpawnInv, [WorldSpawnNext]_allVars PROVE SpawnInv'
  OBVIOUS
<1>a. IInv'
  BY RegistryStep, TypeStep, DisjointStep, ReflectsStep DEF SpawnInv, IInv
<1>b. /\ spawn = NoSpawn \/ spawn \in Coordinates
      /\ denied \subseteq Deniable
      /\ requeued \subseteq Undeployments
      /\ vacated \in EventTime \cup {0}
      /\ disturbed \in BOOLEAN
      /\ TypeOK
  BY DEF SpawnInv, IInv
<1>c. ASSUME \/ UNCHANGED task
             \/ \E w \in Worker : \E j :
                  (j = Idle \/ Busy(j)) /\ task' = [task EXCEPT ![w] = j],
             spawn' = NoSpawn \/ spawn' \in Coordinates,
             denied' \subseteq Deniable,
             requeued' \subseteq Undeployments,
             vacated' \in EventTime \cup {0},
             disturbed' \in BOOLEAN
      PROVE  SpawnInv'
  <2>1. /\ task' = [v \in Worker |-> task'[v]]
        /\ \A v \in Worker : task'[v] = Idle \/ Busy(task'[v])
    <3>1. CASE UNCHANGED task
      BY <3>1 DEF SpawnInv
    <3>2. ASSUME NEW w \in Worker, NEW j, j = Idle \/ Busy(j),
                 task' = [task EXCEPT ![w] = j]
          PROVE  /\ task' = [v \in Worker |-> task'[v]]
                 /\ \A v \in Worker : task'[v] = Idle \/ Busy(task'[v])
      BY <3>2, TaskStep
    <3>3. QED
      BY <1>c, <3>1, <3>2
  <2>2. QED
    BY <1>a, <1>c, <2>1 DEF SpawnInv
<1>1. ASSUME NEW w \in Worker, NEW e \in Entity, ProcessDeployment(w, e)
      PROVE  SpawnInv'
  BY <1>1, <1>b, <1>c, VacateType DEF ProcessDeployment
<1>2. ASSUME NEW w \in Worker, NEW e \in Entity, NEW b \in EventBundle,
             NEW ok \in BOOLEAN, NEW t \in EventTime, ProcessConversion(w, e, b, ok, t)
      PROVE  SpawnInv'
  <2>1. BaseOf[e] \in Pointer /\ {} \subseteq Undeployments
    BY SpawnAssumption
  <2>2. UNCHANGED task \/ Recalculate(w, t, BaseOf[e], {})
    BY <1>2 DEF ProcessConversion
  <2>5. \/ UNCHANGED task
        \/ \E j : Busy(j) /\ task' = [task EXCEPT ![w] = j]
    BY <2>1, <2>2, Begun
  <2>3. UNCHANGED <<spawn, denied, requeued, disturbed>> /\ Vacate(0)
    BY <1>2 DEF ProcessConversion
  <2>4. QED
    BY <1>b, <1>c, <2>3, <2>5, VacateType
<1>3. ASSUME NEW w \in Worker, NEW u \in Undeployments,
             ProcessUndeployment(w, u) \/ ProcessAgain(w, u)
      PROVE  SpawnInv'
  <2>1. /\ Undeploy(w, u) /\ u.time \in EventTime /\ {u} \subseteq Undeployments
        /\ requeued' \subseteq requeued /\ disturbed' \in BOOLEAN
    BY <1>3, <1>b, UndeploymentShape DEF ProcessUndeployment, ProcessAgain
  <2>2. UNCHANGED <<spawn, denied>> /\ vacated' \in EventTime \cup {0}
    BY <1>b, <2>1, UndeployEffect, VacateType
  <2>3. \/ UNCHANGED task
        \/ \E j : Busy(j) /\ task' = [task EXCEPT ![w] = j]
    <3>1. UNCHANGED task \/ Recalculate(w, u.time, NoBase, {u})
      BY <1>b, <2>1, UndeployEffect
    <3>2. QED
      <4> DEFINE event == {u}
      <4>1. /\ event \subseteq Undeployments
            /\ UNCHANGED task \/ Recalculate(w, u.time, NoBase, event)
        BY <3>1
      <4> HIDE DEF event
      <4>2. QED
        BY <2>1, <4>1, Begun
  <2>4. QED
    BY <1>b, <1>c, <2>1, <2>2, <2>3
<1>4. ASSUME NEW w \in Worker, NEW at \in SpawnPoint, NEW t \in EventTime,
             SetUserSpawn(w, at, t)
      PROVE  SpawnInv'
  <2>1. Upsert(at, TRUE, t) /\ UNCHANGED <<denied, task, requeued, vacated, disturbed>>
    BY <1>4 DEF SetUserSpawn
  <2>2. spawn' = NoSpawn \/ spawn' \in Coordinates
    BY <1>b, <2>1, SpawnAssumption, EventAssumption, UpsertType
  <2>3. QED
    BY <1>b, <1>c, <2>1, <2>2
<1>5. ASSUME NEW w \in Worker, ReadBounds(w) \/ ReadSpawn(w) PROVE SpawnInv'
  <2>1. UNCHANGED <<spawn, denied, requeued, vacated, disturbed>>
    BY <1>5 DEF ReadBounds, ReadSpawn
  <2>2. \E j : Busy(j) /\ task' = [task EXCEPT ![w] = j]
    BY <1>5, ReadStep
  <2>3. QED
    BY <1>b, <1>c, <2>1, <2>2
<1>6. ASSUME NEW w \in Worker, Apply(w) \/ FailRecalculation(w) PROVE SpawnInv'
  <2>1. /\ task[w] # Idle /\ task' = [task EXCEPT ![w] = Idle]
        /\ UNCHANGED <<denied, vacated>> /\ disturbed' \in BOOLEAN
    BY <1>6, <1>b, IdleOrBusy DEF Apply, FailRecalculation, Finish
  <2>2. Busy(task[w])
    BY <2>1 DEF SpawnInv
  <2>3. requeued' \subseteq Undeployments
    BY <1>6, <1>b, <2>2 DEF Apply, FailRecalculation, Busy
  <2>4. spawn' = NoSpawn \/ spawn' \in Coordinates
    <3>1. CASE Apply(w)
      BY <1>b, <2>2, <3>1, ActionEffect DEF Apply
    <3>2. CASE FailRecalculation(w)
      BY <1>b, <3>2 DEF FailRecalculation
    <3>3. QED
      BY <1>6, <3>1, <3>2
  <2>5. QED
    BY <1>c, <1>b, <2>1, <2>3, <2>4
<1>7. ASSUME NEW e \in Deniable, EditDenylist(e) PROVE SpawnInv'
  BY <1>7, <1>b, <1>c DEF EditDenylist
<1>8. CASE UNCHANGED allVars
  BY <1>8, <1>b, <1>c DEF allVars, spawnVars
<1>9. QED
  BY <1>b, <1>1, <1>2, <1>3, <1>4, <1>5, <1>6, <1>7, <1>8 DEF WorldSpawnNext, Worldly

LEMMA SpawnBegins == WorldSpawnInit => SpawnInv
<1> SUFFICES ASSUME WorldSpawnInit PROVE SpawnInv
  OBVIOUS
<1>1. IInv
  BY InitInv, PendingBundlesType DEF WorldSpawnInit, IInv, Init, TypeOK
<1>2. task = [w \in Worker |-> task[w]] /\ \A w \in Worker : task[w] = Idle
  BY DEF WorldSpawnInit
<1>3. QED
  BY <1>1, <1>2 DEF SpawnInv, WorldSpawnInit

LEMMA SpawnHolds == WorldSpawnSpec => []SpawnInv
  BY SpawnBegins, SpawnStep, PTL DEF WorldSpawnSpec

(* The registry that is composed with the spawn coordinate is the registry   *)
(* of RegistryService: its theorems hold of the composition, whatever the    *)
(* number of consumers and whatever fails.                                   *)
THEOREM WorldRunsRegistry == WorldSpawnSpec => EventSpec
<1>1. WorldSpawnInit => Init
  BY DEF WorldSpawnInit
<1>2. QED
  BY <1>1, SpawnHolds, RegistryStep, PTL DEF WorldSpawnSpec, EventSpec

(* The types of the composition hold whatever the number of consumers: the   *)
(* coordinate stored is always a coordinate, the center of the bounds, a     *)
(* base or a user's choice, stamped with the time of an event.               *)
THEOREM WorldSpawnTypesHold == WorldSpawnSpec => []WorldSpawnTypeOK
<1>1. SpawnInv => WorldSpawnTypeOK
  BY DEF SpawnInv, IInv, Busy, WorldSpawnTypeOK
<1>2. QED
  BY <1>1, SpawnHolds, PTL

-----------------------------------------------------------------------------
(* A world without scenes                                                    *)

(* What a deployment or a conversion takes out of service is superseded by a *)
(* scene that is served: a world that has scenes keeps some.                 *)
LEMMA ScenesKept ==
  ASSUME IInv, NEW e \in Entity,
         \/ DeploymentEvent(e)
         \/ \E b \in EventBundle, ok \in BOOLEAN :
              \/ TextureEvent(e, b[1], b[2], ok)
              \/ TextureEventOnObsolete(e, b[1], b[2], ok)
              \/ TextureEventOnUnknown(e, b[1], b[2], ok),
         Scenes(status) # {}
  PROVE  Scenes(status') # {}
<1>1. PICK f \in Entity : ContextOf[f] = Place /\ status[f] \in ServedStatus
  BY DEF Scenes
<1>2. CASE status'[f] \in ServedStatus
  BY <1>1, <1>2 DEF Scenes
<1>3. CASE status'[f] \notin ServedStatus
  <2>1. ASSUME DeploymentEvent(e)
        PROVE  \E n \in Entity : ContextOf[n] = Place /\ status'[n] \in ServedStatus
    <3>1. PICK interrupted \in Interruption : Persist(e, PendingBundles, interrupted)
      BY <2>1 DEF DeploymentEvent
    <3>2. status[e] = NoRow /\ status \in StatusColumn
      BY <2>1 DEF DeploymentEvent, IInv, TypeOK, StatusColumn
    <3>3. \E n \in Entity :
            Overlap(e, f) /\ Overlap(n, e) /\ status'[n] \in ServedStatus
      BY <1>1, <1>3, <3>1, <3>2, PersistEffect, InsertionSupersedes DEF IInv
    <3>4. QED
      BY <1>1, <3>3 DEF Overlap
  <2>2. ASSUME NEW b \in EventBundle, NEW ok \in BOOLEAN,
               \/ TextureEvent(e, b[1], b[2], ok)
               \/ TextureEventOnUnknown(e, b[1], b[2], ok)
        PROVE  \E n \in Entity : ContextOf[n] = Place /\ status'[n] \in ServedStatus
    <3>1. b[1] \in BundleType /\ b[2] \in Platform
      BY EventAssumption
    <3>2. Superseded(status', f)
      BY <1>1, <1>3, <2>2, <3>1, ConversionSupersedes DEF Served
    <3>3. QED
      BY <1>1, <3>2 DEF Superseded, Overlap
  <2>3. ASSUME NEW b \in EventBundle, NEW ok \in BOOLEAN,
               TextureEventOnObsolete(e, b[1], b[2], ok)
        PROVE  FALSE
    BY <1>1, <1>3, <2>3 DEF TextureEventOnObsolete
  <2>4. QED
    BY <2>1, <2>2, <2>3 DEF Scenes
<1>4. QED
  BY <1>2, <1>3

(* An undeployment that will clear the coordinate the world was left with,   *)
(* or be queued again.                                                       *)
Clearing(j) == j # Idle /\ j.event # {} /\ j.time >= vacated

\* A coordinate the service has computed, before the world was emptied.
Orphan == ~(spawn = NoSpawn \/ spawn.isUserSet \/ spawn.timestamp >= vacated)

ClearingInv ==
  /\ SpawnInv
  /\ Scenes(status) # {} => vacated = 0
  /\ ~disturbed /\ requeued = {} /\ Scenes(status) = {} /\ Orphan =>
       \E w \in Worker : Clearing(task[w])

LEMMA ClearingStep == ClearingInv /\ [WorldSpawnNext]_allVars => ClearingInv'
<1> SUFFICES ASSUME ClearingInv, [WorldSpawnNext]_allVars PROVE ClearingInv'
  OBVIOUS
<1> DEFINE Left == ~disturbed /\ requeued = {} /\ Scenes(status) = {} /\ Orphan
<1>a. SpawnInv /\ SpawnInv'
  BY SpawnStep DEF ClearingInv
<1>b. /\ Scenes(status) # {} => vacated = 0
      /\ Left => \E w \in Worker : Clearing(task[w])
  BY DEF ClearingInv
<1>c. /\ IInv /\ TypeOK /\ requeued \subseteq Undeployments
      /\ vacated \in Nat /\ spawn.timestamp \in Int
      /\ spawn = NoSpawn \/ spawn \in Coordinates
  BY <1>a, EventAssumption, StampType DEF SpawnInv, IInv
<1>d. ASSUME Scenes(status') # {} => vacated' = 0,
             Left' => \E w \in Worker : Clearing(task[w])'
      PROVE  ClearingInv'
  BY <1>a, <1>d DEF ClearingInv
<1> HIDE DEF Left
<1>1. ASSUME NEW w \in Worker, task[w] = Idle, NEW e \in Entity,
             \/ DeploymentEvent(e)
             \/ \E b \in EventBundle, ok \in BOOLEAN :
                  \/ TextureEvent(e, b[1], b[2], ok)
                  \/ TextureEventOnObsolete(e, b[1], b[2], ok)
                  \/ TextureEventOnUnknown(e, b[1], b[2], ok),
             Vacate(0), UNCHANGED <<spawn, requeued, disturbed>>,
             UNCHANGED task \/ \E j : task' = [task EXCEPT ![w] = j]
      PROVE  ClearingInv'
  <2>1. Scenes(status) # {} => Scenes(status') # {}
    BY <1>1, <1>c, ScenesKept
  <2>2. /\ Scenes(status') # {} => vacated' = 0
        /\ Scenes(status') = {} => vacated' = vacated
    BY <1>1, <1>c DEF Vacate
  <2>3. Left' => Left /\ vacated' = vacated
    BY <1>1, <2>1, <2>2 DEF Left, Orphan
  <2>4. \A v \in Worker : Clearing(task[v]) => task'[v] = task[v]
    BY <1>1, <1>a DEF Clearing, SpawnInv
  <2>5. Left' => \E v \in Worker : Clearing(task[v])'
    BY <1>b, <2>3, <2>4 DEF Clearing
  <2>6. QED
    BY <1>d, <2>2, <2>5
<1>2. ASSUME NEW w \in Worker, NEW e \in Entity, ProcessDeployment(w, e)
      PROVE  ClearingInv'
  BY <1>1, <1>2 DEF ProcessDeployment
<1>3. ASSUME NEW w \in Worker, NEW e \in Entity, NEW b \in EventBundle,
             NEW ok \in BOOLEAN, NEW t \in EventTime, ProcessConversion(w, e, b, ok, t)
      PROVE  ClearingInv'
  <2>1. UNCHANGED task \/ \E j : task' = [task EXCEPT ![w] = j]
    BY <1>3 DEF ProcessConversion, Recalculate
  <2>2. /\ task[w] = Idle /\ Vacate(0) /\ UNCHANGED <<spawn, requeued, disturbed>>
        /\ \E c \in EventBundle, k \in BOOLEAN :
             \/ TextureEvent(e, c[1], c[2], k)
             \/ TextureEventOnObsolete(e, c[1], c[2], k)
             \/ TextureEventOnUnknown(e, c[1], c[2], k)
    BY <1>3 DEF ProcessConversion
  <2>3. QED
    BY <1>1, <2>1, <2>2
<1>4. ASSUME NEW w \in Worker, NEW u \in Undeployments, ProcessUndeployment(w, u)
      PROVE  ClearingInv'
  <2>1. /\ task[w] = Idle /\ Undeploy(w, u) /\ UNCHANGED <<requeued, disturbed>>
        /\ u.time \in EventTime /\ u.time \in Nat
    BY <1>4, UndeploymentShape DEF ProcessUndeployment
  <2>2. UNCHANGED spawn
    BY <2>1, <1>c, UndeployEffect
  <2>3. CASE status' = status /\ UNCHANGED <<task, vacated>>
    BY <1>b, <1>d, <2>1, <2>2, <2>3 DEF Left, Orphan, Clearing
  <2>4. CASE Recalculate(w, u.time, NoBase, {u}) /\ Vacate(u.time)
    <3>1. PICK j : /\ task' = [task EXCEPT ![w] = j] /\ Busy(j)
                   /\ j.time = u.time /\ j.event = {u}
      <4>1. {u} \subseteq Undeployments /\ u.time \in EventTime
        BY <2>1
      <4> DEFINE j == [pc |-> "bounds", time |-> u.time, base |-> NoBase,
                       event |-> {u}, parcels |-> {}, current |-> NoSpawn]
      <4>2. Busy(j) /\ j.time = u.time /\ j.event = {u}
        BY <4>1 DEF Busy
      <4>3. task' = [task EXCEPT ![w] = j]
        BY <2>4 DEF Recalculate
      <4> HIDE DEF j
      <4>4. QED
        BY <4>2, <4>3
    <3>2. /\ task'[w] = j /\ j # Idle
          /\ \A v \in Worker : v # w => task'[v] = task[v]
      BY <1>a, <3>1, TaskStep, IdleOrBusy
    <3>3. /\ Scenes(status') # {} => vacated' = 0
          /\ Scenes(status') = {} =>
               vacated' = IF u.time > vacated THEN u.time ELSE vacated
      BY <2>4 DEF Vacate
    <3>4. ASSUME Left' PROVE \E v \in Worker : Clearing(task[v])'
      <4>1. Scenes(status') = {}
        BY <3>4 DEF Left
      <4>2. CASE u.time >= vacated'
        BY <3>1, <3>2, <4>2 DEF Clearing
      <4>3. CASE u.time < vacated'
        <5>1. vacated' = vacated /\ Scenes(status) = {}
          BY <1>b, <1>c, <2>1, <3>3, <4>1, <4>3
        <5>2. PICK v \in Worker : Clearing(task[v])
          BY <1>b, <2>1, <2>2, <3>4, <5>1 DEF Left, Orphan
        <5>3. v # w
          BY <2>1, <5>2 DEF Clearing
        <5>4. QED
          BY <3>2, <5>1, <5>2, <5>3 DEF Clearing
      <4>4. QED
        BY <1>c, <2>1, <3>3, <4>1, <4>2, <4>3
    <3>5. QED
      BY <1>d, <3>3, <3>4
  <2>5. QED
    BY <1>c, <2>1, <2>3, <2>4, UndeployEffect
<1>5. ASSUME NEW w \in Worker, NEW u \in Undeployments, ProcessAgain(w, u)
      PROVE  ClearingInv'
  <2>1. Undeploy(w, u) /\ disturbed'
    BY <1>5 DEF ProcessAgain
  <2>2. Scenes(status') # {} => vacated' = 0
    <3>1. \/ status' = status /\ UNCHANGED vacated
          \/ Vacate(u.time)
      BY <1>c, <2>1, UndeployEffect
    <3>2. QED
      BY <1>b, <3>1 DEF Vacate
  <2>3. QED
    BY <1>d, <2>1, <2>2 DEF Left
<1>6. ASSUME NEW w \in Worker, NEW at \in SpawnPoint, NEW t \in EventTime,
             SetUserSpawn(w, at, t)
      PROVE  ClearingInv'
  <2>1. UNCHANGED <<status, task, requeued, vacated, disturbed>> /\ Upsert(at, TRUE, t)
    BY <1>6 DEF SetUserSpawn, vars
  <2>2. Left' => UNCHANGED spawn
    BY <2>1 DEF Upsert, Left, Orphan
  <2>3. QED
    BY <1>b, <1>d, <2>1, <2>2 DEF Left, Orphan, Clearing
<1>7. ASSUME NEW w \in Worker, ReadBounds(w) \/ ReadSpawn(w) PROVE ClearingInv'
  <2>1. UNCHANGED <<status, spawn, requeued, vacated, disturbed>>
    BY <1>7 DEF ReadBounds, ReadSpawn, vars
  <2>2. PICK j : /\ task' = [task EXCEPT ![w] = j]
                 /\ Busy(j)
                 /\ j.time = task[w].time /\ j.event = task[w].event
    BY <1>a, <1>7, ReadStep
  <2>3. task'[w] = j /\ j # Idle /\ \A v \in Worker : v # w => task'[v] = task[v]
    BY <1>a, <2>2, TaskStep, IdleOrBusy
  <2>4. \A v \in Worker : Clearing(task[v]) => Clearing(task[v])'
    BY <2>1, <2>2, <2>3 DEF Clearing
  <2>5. QED
    BY <1>b, <1>d, <2>1, <2>4 DEF Left, Orphan
<1>8. ASSUME NEW w \in Worker, Apply(w) PROVE ClearingInv'
  <2>1. /\ UNCHANGED <<status, denied, requeued, vacated>>
        /\ task' = [task EXCEPT ![w] = Idle] /\ task[w] # Idle
        /\ SpawnAction(task[w])
        /\ disturbed' = (disturbed \/ Overtaken(w))
    BY <1>8, IdleOrBusy DEF Apply, Finish, vars
  <2>2. Busy(task[w]) /\ task[w].time \in Nat
    BY <1>a, <2>1, EventAssumption DEF SpawnInv, Busy
  <2>3. \A v \in Worker : v # w => task'[v] = task[v]
    BY <1>a, <2>1, TaskStep
  <2>4. ASSUME Left' PROVE \E v \in Worker : Clearing(task[v])'
    <3>1. /\ ~disturbed /\ task[w].parcels = Parcels
          /\ requeued = {} /\ Scenes(status) = {}
      BY <2>1, <2>4 DEF Left, Overtaken
    <3>2. task[w].parcels = {}
      BY <3>1 DEF Parcels
    <3>3. /\ spawn' = IF spawn.timestamp < task[w].time THEN NoSpawn ELSE spawn
          /\ spawn' # NoSpawn
      BY <2>1, <2>4, <3>2 DEF SpawnAction, DeleteSpawn, Left, Orphan
    <3>4. spawn' = spawn /\ ~(spawn.timestamp < task[w].time)
      BY <3>3
    <3>5. Orphan
      BY <2>1, <2>4, <3>4 DEF Left, Orphan
    <3>6. PICK v \in Worker : Clearing(task[v])
      BY <1>b, <3>1, <3>5 DEF Left
    <3>7. v # w
      BY <1>c, <2>2, <3>4, <3>5, <3>6 DEF Clearing, Orphan
    <3>8. QED
      BY <2>1, <2>3, <3>6, <3>7 DEF Clearing
  <2>5. QED
    BY <1>b, <1>d, <2>1, <2>4
<1>9. ASSUME NEW w \in Worker, FailRecalculation(w) PROVE ClearingInv'
  <2>1. /\ UNCHANGED <<status, spawn, vacated, disturbed>>
        /\ task' = [task EXCEPT ![w] = Idle]
        /\ requeued' = requeued \cup task[w].event
    BY <1>9 DEF FailRecalculation, Finish, vars
  <2>2. \A v \in Worker : v # w => task'[v] = task[v]
    BY <1>a, <2>1, TaskStep
  <2>3. Left' => Left /\ task[w].event = {}
    BY <2>1 DEF Left, Orphan
  <2>4. Left' => \E v \in Worker : Clearing(task[v])'
    BY <1>b, <2>1, <2>2, <2>3 DEF Clearing
  <2>5. QED
    BY <1>b, <1>d, <2>1, <2>4
<1>10. ASSUME \/ \E e \in Deniable : EditDenylist(e)
              \/ UNCHANGED allVars
       PROVE  ClearingInv'
  <2>1. UNCHANGED <<status, spawn, task, requeued, vacated, disturbed>>
    BY <1>10 DEF EditDenylist, allVars, spawnVars, vars
  <2>2. QED
    BY <1>b, <1>d, <2>1 DEF Left, Orphan, Clearing
<1>11. QED
  BY <1>c, <1>2, <1>3, <1>4, <1>5, <1>6, <1>7, <1>8, <1>9, <1>10
     DEF WorldSpawnNext, Worldly

(* A world left without scenes keeps no coordinate of theirs, whatever the   *)
(* scenes, the number of consumers and the order of the events, as long as   *)
(* no event is handled twice and no recalculation is overtaken.              *)
THEOREM OrphanHolds == WorldSpawnSpec => []NoOrphanSpawn
<1>1. WorldSpawnInit => ClearingInv
  BY SpawnBegins DEF WorldSpawnInit, ClearingInv, Orphan
<1>2. ClearingInv => NoOrphanSpawn
  BY DEF ClearingInv, Clearing, Orphan, NoOrphanSpawn, UndeploymentClearsSpawn, Quiet
<1>3. QED
  BY <1>1, <1>2, ClearingStep, PTL DEF WorldSpawnSpec

-----------------------------------------------------------------------------
(* What a coordinate gives way to                                            *)

\* A step that changes the coordinate is a user's choice, or applies a decision.
LEMMA SpawnChange ==
  ASSUME SpawnInv, WorldSpawnNext, spawn' # spawn
  PROVE  \/ /\ spawn' # NoSpawn /\ spawn'.isUserSet
            /\ spawn'.timestamp > spawn.timestamp
         \/ \E w \in Worker : Applies(w) /\ Busy(task[w]) /\ SpawnAction(task[w])
<1>1. ASSUME NEW w \in Worker, NEW at \in SpawnPoint, NEW t \in EventTime,
             SetUserSpawn(w, at, t)
      PROVE  /\ spawn' # NoSpawn /\ spawn'.isUserSet
             /\ spawn'.timestamp > spawn.timestamp
  <2>1. /\ spawn' = [at |-> at, isUserSet |-> TRUE, timestamp |-> t]
        /\ spawn.timestamp < t /\ t \in Nat /\ spawn.timestamp \in Int
    BY <1>1, EventAssumption, StampType DEF SetUserSpawn, Upsert, SpawnInv
  <2>2. QED
    BY <2>1 DEF NoSpawn
<1>2. ASSUME NEW w \in Worker, Apply(w)
      PROVE  Applies(w) /\ Busy(task[w]) /\ SpawnAction(task[w])
  <2>1. /\ task[w].pc = "apply" /\ SpawnAction(task[w])
        /\ task' = [task EXCEPT ![w] = Idle]
    BY <1>2 DEF Apply, Finish
  <2>2. task'[w] = Idle /\ Busy(task[w])
    BY <2>1, TaskStep, IdleOrBusy DEF SpawnInv
  <2>3. QED
    BY <2>1, <2>2 DEF Applies
<1>3. ASSUME NEW w \in Worker, NEW e \in Entity,
             \/ ProcessDeployment(w, e)
             \/ \E b \in EventBundle, ok \in BOOLEAN, t \in EventTime :
                  ProcessConversion(w, e, b, ok, t)
      PROVE  FALSE
  BY <1>3 DEF ProcessDeployment, ProcessConversion
<1>4. ASSUME NEW w \in Worker, NEW u, ProcessUndeployment(w, u) \/ ProcessAgain(w, u)
      PROVE  FALSE
  BY <1>4 DEF ProcessUndeployment, ProcessAgain, Undeploy
<1>5. ASSUME NEW w \in Worker, ReadBounds(w) \/ ReadSpawn(w) \/ FailRecalculation(w)
      PROVE  FALSE
  BY <1>5 DEF ReadBounds, ReadSpawn, FailRecalculation
<1>6. ASSUME NEW e \in Deniable, EditDenylist(e) PROVE FALSE
  BY <1>6 DEF EditDenylist
<1>7. QED
  BY <1>1, <1>2, <1>3, <1>4, <1>5, <1>6 DEF WorldSpawnNext, Worldly

(* The coordinate gives way only to a later event, and while it is within    *)
(* the bounds only to a user's choice or to a recalculation that was         *)
(* overtaken, however many consumers recalculate at once.                    *)
THEOREM KeptHolds == WorldSpawnSpec => SpawnKeptInBounds
<1> DEFINE Kept ==
      spawn # NoSpawn /\ spawn' # spawn =>
        /\ \/ spawn' # NoSpawn /\ spawn'.timestamp > spawn.timestamp
           \/ \E w \in Worker : Applies(w) /\ task[w].time > spawn.timestamp
        /\ \/ spawn' # NoSpawn /\ spawn'.isUserSet
           \/ spawn.at \notin Rectangle(Parcels)
           \/ \E w \in Worker :
                /\ Applies(w)
                /\ \/ task[w].current # spawn
                   \/ spawn.at \notin Rectangle(task[w].parcels)
<1>1. SpawnInv /\ [WorldSpawnNext]_allVars => [Kept]_allVars
  <2> SUFFICES ASSUME SpawnInv, WorldSpawnNext, spawn # NoSpawn, spawn' # spawn
               PROVE  Kept
    OBVIOUS
  <2>1. CASE /\ spawn' # NoSpawn /\ spawn'.isUserSet
             /\ spawn'.timestamp > spawn.timestamp
    BY <2>1
  <2>2. ASSUME NEW w \in Worker, Applies(w), Busy(task[w]), SpawnAction(task[w])
        PROVE  Kept
    <3>1. /\ task[w].time \in Nat /\ spawn.timestamp \in Int
          /\ spawn = NoSpawn \/ spawn \in Coordinates
      BY <2>2, EventAssumption, StampType DEF Busy, SpawnInv
    <3>2. /\ task[w].time > spawn.timestamp
          /\ \/ task[w].parcels = {}
             \/ task[w].current = NoSpawn
             \/ task[w].current.at \notin Rectangle(task[w].parcels)
      BY <2>2, <3>1, ActionEffect
    <3>3. spawn.at \notin Rectangle({})
      BY DEF Rectangle
    <3>4. task[w].current # spawn \/ spawn.at \notin Rectangle(task[w].parcels)
      BY <3>2, <3>3
    <3>5. QED
      BY <2>2, <3>2, <3>4
  <2>3. QED
    BY <2>1, <2>2, SpawnChange
<1>2. QED
  BY <1>1, SpawnHolds, PTL DEF WorldSpawnSpec, SpawnKeptInBounds

(* What the service puts in the place of a coordinate lies within the bounds *)
(* it has read, wherever the parcels are, unless it had found none.          *)
THEOREM MovedHolds == WorldSpawnSpec => SpawnMovedIntoBounds
<1> DEFINE Moved ==
      spawn # NoSpawn /\ spawn' \notin {NoSpawn, spawn} /\ ~spawn'.isUserSet =>
        \E w \in Worker :
          /\ Applies(w)
          /\ \/ spawn'.at \in Rectangle(task[w].parcels)
             \/ task[w].current = NoSpawn
<1>1. SpawnInv /\ [WorldSpawnNext]_allVars => [Moved]_allVars
  <2> SUFFICES ASSUME SpawnInv, WorldSpawnNext,
                      spawn' \notin {NoSpawn, spawn}, ~spawn'.isUserSet
               PROVE  \E w \in Worker :
                        /\ Applies(w)
                        /\ \/ spawn'.at \in Rectangle(task[w].parcels)
                           \/ task[w].current = NoSpawn
    OBVIOUS
  <2>1. PICK w \in Worker : Applies(w) /\ Busy(task[w]) /\ SpawnAction(task[w])
    BY SpawnChange
  <2>2. spawn'.at \in Rectangle(task[w].parcels) \/ task[w].current = NoSpawn
    BY <2>1, ActionEffect DEF SpawnInv
  <2>3. QED
    BY <2>1, <2>2
<1>2. QED
  BY <1>1, SpawnHolds, PTL DEF WorldSpawnSpec, SpawnMovedIntoBounds

=============================================================================
