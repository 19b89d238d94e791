-------------------------- MODULE RegistryHandlers --------------------------
(***************************************************************************)
(* The registry operations as the statements they send to the database.    *)
(*                                                                         *)
(* Workers are the consumers of the events queue, of every instance of the *)
(* service, and the requests to POST /registry; each handles one event at  *)
(* a time, and an await lets any other worker run.  A statement outside a  *)
(* transaction is atomic.  updateBundleAndRotateStates is a transaction at *)
(* READ COMMITTED, PostgreSQL's default: each of its statements sees what  *)
(* has been committed, the rows it has updated are locked until it ends,   *)
(* and its updates become visible at once.  The purger is a process of its *)
(* own.                                                                    *)
(*                                                                         *)
(* `status`, `bundles` and `historical` are the committed tables, so the   *)
(* properties of RegistryService are read on them unchanged.               *)
(***************************************************************************)
EXTENDS RegistryService, FiniteSets

CONSTANTS
  Worker,
  Operation,  \* the operations in play
  Deployed,   \* entities whose deployment has been handled at the start
  Fault,      \* whether a statement, or a fetch, may fail at any point
  BatchSize,  \* BATCH_SIZE of the purger
  Request     \* requests for the status of entities, see EntityStatus

ASSUME HandlersAssumption ==
  /\ Deployed \subseteq Entity
  /\ Fault \in BOOLEAN
  /\ BatchSize \in Nat \ {0}

VARIABLES
  job,    \* what each worker is doing
  purge,  \* the batch of the purger: ids still to copy, and ids copied
  request \* what each request is doing, which no handler touches

handlerVars == <<status, bundles, historical, job, purge>>

(* A job starts with the first statement of its handler; a handler of one    *)
(* statement needs no job.  The fields are the local variables: `previous`   *)
(* is a snapshot, `bundles` and `next` are what the handler will write,      *)
(* `rows` the ids it has still to update, and `held` the rows locked by its  *)
(* transaction.                                                              *)
Job ==
  [ pc       : {"readHistorical", "readRelated", "insert", "updateFallback",
                "storeBundle", "begin", "readRelatedInTx", "rotate", "undeploy"},
    op       : {"deployment", "conversion", "backfill", "undeployment"},
    entity   : Entity,
    result   : (BundleType \X Platform \X BOOLEAN) \cup {<<>>},
    world    : World \cup {Genesis},
    time     : Nat,
    previous : SimplifiedStatus,
    bundles  : Bundles,
    next     : Status,
    rows     : SUBSET Entity,
    held     : SUBSET Entity ]

Idle == [pc |-> "idle"]

NewJob(op, pc) ==
  [ pc |-> pc, op |-> op,
    entity   |-> CHOOSE e \in Entity : TRUE,
    result   |-> <<>>, world |-> Genesis, time |-> 0,
    previous |-> "pending", bundles |-> PendingBundles, next |-> "pending",
    rows     |-> {}, held |-> {} ]

HandlersTypeOK ==
  /\ TypeOK
  /\ job \in [Worker -> Job \cup {Idle}]
  /\ purge \in [batch : SUBSET Entity, copied : SUBSET Entity]

NoRequest == [op |-> "owned", about |-> {}, unread |-> {}, owed |-> {}, archived |-> {}]

HandlersInit ==
  /\ status = [e \in Entity |-> IF e \in Deployed THEN "pending" ELSE NoRow]
  /\ bundles = [e \in Entity |-> PendingBundles]
  /\ historical = {}
  /\ job = [w \in Worker |-> Idle]
  /\ purge = [batch |-> {}, copied |-> {}]
  /\ request = [q \in Request |-> NoRequest]

-----------------------------------------------------------------------------
(* Steps of a worker                                                         *)

At(w, pc) == job[w].pc = pc

Goto(w, j) == job' = [job EXCEPT ![w] = j]

Finish(w) == Goto(w, Idle)

\* The rows these workers' transactions have updated and not yet committed.
HeldBy(ws) ==
  UNION {job[v].held : v \in {u \in ws : At(u, "readRelatedInTx") \/ At(u, "rotate")}}

LockedFor(w) == HeldBy(Worker \ {w})

Exists(e) == status[e] # NoRow

Tables == <<status, bundles, historical>>

\* A deployment starts with db.getRegistryById; a known entity ends it there.
TakeDeployment(w, e) ==
  /\ At(w, "idle")
  /\ ~Exists(e)
  /\ Goto(w, [NewJob("deployment", "readRelated") EXCEPT !.entity = e])
  /\ UNCHANGED <<Tables, purge, request>>

(* A conversion result starts with db.getRegistryById too: whether the       *)
(* registry was originally OBSOLETE and its previous bundle status are taken *)
(* from this row.                                                            *)
TakeConversion(w, e, t, p, ok) ==
  /\ At(w, "idle")
  /\ Goto(w, [NewJob("conversion",
                     CASE status[e] = NoRow      -> "readHistorical"
                       [] status[e] = "obsolete" -> "storeBundle"
                       [] OTHER                  -> "begin")
              EXCEPT !.entity = e, !.result = <<t, p, ok>>,
                     !.previous = bundles[e][t][p]])
  /\ UNCHANGED <<Tables, purge, request>>

\* POST /registry, once the CDN has answered with bundles b.
TakeBackfill(w, e, b) ==
  /\ At(w, "idle")
  /\ ContextOf[e] = Genesis
  /\ Goto(w, [NewJob("backfill", "readRelated") EXCEPT !.entity = e, !.bundles = b])
  /\ UNCHANGED <<Tables, purge, request>>

-----------------------------------------------------------------------------

\* db.getHistoricalRegistryById: a purged entity ignores conversions.
ReadHistorical(w) ==
  /\ At(w, "readHistorical")
  /\ IF job[w].entity \in historical
     THEN Finish(w)
     ELSE Goto(w, [job[w] EXCEPT !.pc = "readRelated"])
  /\ UNCHANGED <<Tables, purge, request>>

-----------------------------------------------------------------------------
(* persistAndRotateStates: three statements and no transaction               *)

ReadRelated(w) ==
  /\ At(w, "readRelated")
  /\ LET e == job[w].entity
     IN \E fb \in FallbackChoices(status, e) :
          Goto(w, [job[w] EXCEPT
                     !.pc = "insert", !.rows = fb,
                     !.next = DetermineStatus(status, e, job[w].bundles)])
  /\ UNCHANGED <<Tables, purge, request>>

\* The caller goes on: the textures handler with its bundle, others are done.
Persisted(w) ==
  IF job[w].op = "conversion"
  THEN Goto(w, [job[w] EXCEPT !.pc = "begin", !.rows = {}])
  ELSE Finish(w)

\* INSERT ... ON CONFLICT DO UPDATE: a row inserted meanwhile is overwritten.
Insert(w) ==
  /\ At(w, "insert")
  /\ LET e == job[w].entity
     IN /\ e \notin LockedFor(w)
        /\ status' = Inserted(status, e, job[w].next)
        /\ bundles' = [bundles EXCEPT ![e] = job[w].bundles]
  /\ IF job[w].rows = {}
     THEN Persisted(w)
     ELSE Goto(w, [job[w] EXCEPT !.pc = "updateFallback"])
  /\ UNCHANGED <<historical, purge, request>>

UpdateFallback(w) ==
  /\ At(w, "updateFallback")
  /\ job[w].rows \cap LockedFor(w) = {}
  /\ status' = FallbackUpdated(status, {x \in job[w].rows : Exists(x)}, job[w].next)
  /\ Persisted(w)
  /\ UNCHANGED <<bundles, historical, purge, request>>

-----------------------------------------------------------------------------
(* The conversion result itself                                              *)

ResultBundles(w) ==
  LET r == job[w].result
  IN WithBundle(bundles[job[w].entity], r[1], r[2],
                ConversionStatus(r[3], job[w].previous))

\* Mutant: upsertRegistryBundle writes the status it is given, whatever it is.
StoreBundleAndStatus(w) ==
  /\ At(w, "storeBundle")
  /\ LET e == job[w].entity
     IN /\ e \notin LockedFor(w)
        /\ bundles' = [bundles EXCEPT ![e] = IF Exists(e) THEN ResultBundles(w) ELSE @]
        /\ status' = [status EXCEPT ![e] =
                        IF Exists(e) THEN BundlesVerdict(bundles'[e]) ELSE @]
  /\ Finish(w)
  /\ UNCHANGED <<historical, purge, request>>

(* db.upsertRegistryBundle, for a row that was OBSOLETE when it was read.  A *)
(* row deleted meanwhile makes the handler fail.                             *)
StoreBundle(w) ==
  /\ At(w, "storeBundle")
  /\ LET e == job[w].entity
     IN /\ e \notin LockedFor(w)
        /\ bundles' = [bundles EXCEPT ![e] = IF Exists(e) THEN ResultBundles(w) ELSE @]
  /\ Finish(w)
  /\ UNCHANGED <<status, historical, purge, request>>

\* Mutant: step 1 reads the row without locking it.
BeginUnlocked(w) ==
  /\ At(w, "begin")
  /\ IF Exists(job[w].entity)
     THEN Goto(w, [job[w] EXCEPT !.pc = "readRelatedInTx", !.bundles = ResultBundles(w)])
     ELSE Finish(w)
  /\ UNCHANGED <<Tables, purge, request>>

(* db.persistRegistryInTransaction.  Step 1 locks the row of the entity...   *)
Begin(w) ==
  /\ At(w, "begin")
  /\ LET e == job[w].entity
     IN /\ e \notin LockedFor(w)
        /\ IF Exists(e)
           THEN Goto(w, [job[w] EXCEPT !.pc = "readRelatedInTx", !.held = {e},
                                       !.bundles = ResultBundles(w)])
           ELSE Finish(w)
  /\ UNCHANGED <<Tables, purge, request>>

\* Mutant: the related registries are rotated only once COMPLETE.
RotateCompleteOnly(w) ==
  /\ At(w, "readRelatedInTx")
  /\ LET e == job[w].entity
         s == DetermineStatus(status, e, job[w].bundles)
     IN Goto(w, [job[w] EXCEPT
          !.pc = "rotate", !.next = s,
          !.rows = {x \in NotNewer(status, e) : s = "complete" /\ status[x] = "complete"}])
  /\ UNCHANGED <<Tables, purge, request>>

\* ... steps 3 and 4 read the related registries and decide...
ReadRelatedInTx(w) ==
  /\ At(w, "readRelatedInTx")
  /\ LET e == job[w].entity
         s == DetermineStatus(status, e, job[w].bundles)
     IN Goto(w, [job[w] EXCEPT
          !.pc = "rotate", !.next = s,
          !.rows = IF s \in {"complete", "obsolete"} THEN NotNewer(status, e) ELSE {}])
  /\ UNCHANGED <<Tables, purge, request>>

\* ... steps 6 and 7 update, one row after the other, those that still exist...
RotateRow(w, x) ==
  /\ At(w, "rotate")
  /\ x \in job[w].rows \ LockedFor(w)
  /\ Goto(w, [job[w] EXCEPT !.rows = @ \ {x},
                            !.held = IF Exists(x) THEN @ \cup {x} ELSE @])
  /\ UNCHANGED <<Tables, purge, request>>

\* ... and COMMIT makes the updates visible together.
Commit(w) ==
  /\ At(w, "rotate") /\ job[w].rows = {}
  /\ LET e == job[w].entity
     IN /\ status' = [x \in Entity |-> IF x = e THEN job[w].next
                                       ELSE IF x \in job[w].held THEN "obsolete"
                                       ELSE status[x]]
        /\ bundles' = [bundles EXCEPT ![e] = job[w].bundles]
  /\ Finish(w)
  /\ UNCHANGED <<historical, purge, request>>

-----------------------------------------------------------------------------
(* Undeployments                                                             *)

\* _undeployRegistries, one UPDATE, waits for the rows it changes.
UndeployRows(w, ids, c, t) ==
  /\ status' = Undeployed(status, ids, c, t)
  /\ {x \in Entity : status'[x] # status[x]} \cap LockedFor(w) = {}
  /\ UNCHANGED <<bundles, historical, purge, request>>

\* undeployWorldScenes: that statement alone.
UndeployScenesRows(w, ids, c, t) ==
  /\ At(w, "idle")
  /\ ids # {} /\ ids \subseteq {e \in Entity : ContextOf[e] = c}
  /\ UndeployRows(w, ids, c, t)
  /\ UNCHANGED job

\* undeployWorldByName first lists the live registries of the world...
TakeWorldUndeployment(w, c, t) ==
  /\ At(w, "idle")
  /\ LET ids == {e \in Entity : /\ ContextOf[e] = c
                                /\ status[e] \notin {NoRow, "obsolete"}
                                /\ TimestampOf[e] < t}
     IN /\ ids # {}
        /\ Goto(w, [NewJob("undeployment", "undeploy") EXCEPT
                      !.world = c, !.time = t, !.rows = ids])
  /\ UNCHANGED <<Tables, purge, request>>

\* ... and then undeploys them.
UndeployWorldRows(w) ==
  /\ At(w, "undeploy")
  /\ UndeployRows(w, job[w].rows, job[w].world, job[w].time)
  /\ Finish(w)

-----------------------------------------------------------------------------
(* Failures                                                                  *)

(* Workers each waiting for a row that another of them has locked: the       *)
(* database aborts one of the transactions.                                  *)
Deadlocked(w) ==
  \E S \in SUBSET Worker :
    /\ w \in S
    /\ \A v \in S : /\ At(v, "rotate") /\ job[v].rows # {}
                    /\ job[v].rows \subseteq HeldBy(S \ {v})

(* A query or a fetch throws, or the process stops: a transaction rolls      *)
(* back, what was committed before it stays.  The event may come back.       *)
Fail(w) ==
  /\ job[w] # Idle
  /\ Fault \/ Deadlocked(w)
  /\ Finish(w)
  /\ UNCHANGED <<Tables, purge, request>>

-----------------------------------------------------------------------------
(* The purger: select a batch, copy its rows in any order, delete the copied *)
(* ones by id.  A row whose copy fails is left out.                          *)

PurgeSelect(ids) ==
  /\ purge = [batch |-> {}, copied |-> {}]
  /\ ids # {} /\ ids \subseteq {e \in Entity : status[e] = "obsolete"}
  /\ purge' = [batch |-> ids, copied |-> {}]
  /\ UNCHANGED <<Tables, job, request>>

\* Mutant: a row counts as copied although its copy failed.
PurgeCopyRowAlways(e) ==
  /\ e \in purge.batch
  /\ purge' = [purge EXCEPT !.batch = @ \ {e}, !.copied = @ \cup {e}]
  /\ historical' \in {historical \cup {e}, historical}
  /\ UNCHANGED <<status, bundles, job, request>>

PurgeCopyRow(e) ==
  /\ e \in purge.batch
  /\ \/ /\ historical' = historical \cup {e}
        /\ purge' = [purge EXCEPT !.batch = @ \ {e}, !.copied = @ \cup {e}]
     \/ /\ Fault
        /\ purge' = [purge EXCEPT !.batch = @ \ {e}]
        /\ UNCHANGED historical
  /\ UNCHANGED <<status, bundles, job, request>>

PurgeDeleteRows ==
  /\ purge.batch = {} /\ purge.copied # {}
  /\ purge' = [purge EXCEPT !.copied = {}]
  /\ \/ /\ purge.copied \cap HeldBy(Worker) = {}
        /\ status' = [e \in Entity |-> IF e \in purge.copied THEN NoRow ELSE status[e]]
        /\ bundles' = [e \in Entity |->
                         IF e \in purge.copied THEN PendingBundles ELSE bundles[e]]
     \/ Fault /\ UNCHANGED <<status, bundles>>
  /\ UNCHANGED <<historical, job, request>>

-----------------------------------------------------------------------------

Take(w) ==
  \/ "deployment" \in Operation /\ \E e \in Entity : TakeDeployment(w, e)
  \/ "conversion" \in Operation
     /\ \E e \in Entity, b \in EventBundle, ok \in BOOLEAN :
          TakeConversion(w, e, b[1], b[2], ok)
  \/ "backfill" \in Operation
     /\ \E e \in Entity, b \in BackfillBundles : TakeBackfill(w, e, b)
  \/ "undeployment" \in Operation
     /\ \E c \in World, t \in EventTime :
          \/ TakeWorldUndeployment(w, c, t)
          \/ \E ids \in SUBSET Entity : UndeployScenesRows(w, ids, c, t)

OtherStatement(w) ==
  \/ ReadHistorical(w) \/ ReadRelated(w) \/ UpdateFallback(w)
  \/ StoreBundle(w) \/ Begin(w) \/ ReadRelatedInTx(w) \/ Commit(w)
  \/ \E x \in Entity : RotateRow(w, x)
  \/ UndeployWorldRows(w)
  \/ Fail(w)

Statement(w) == Insert(w) \/ OtherStatement(w)

Purger ==
  \/ "purge" \in Operation
     /\ \E ids \in SUBSET Entity : Cardinality(ids) <= BatchSize /\ PurgeSelect(ids)
  \/ \E e \in Entity : PurgeCopyRow(e)
  \/ PurgeDeleteRows

HandlersNext == (\E w \in Worker : Take(w) \/ Statement(w)) \/ Purger

HandlersSpec == HandlersInit /\ [][HandlersNext]_<<handlerVars, request>>

-----------------------------------------------------------------------------

(* logic/registry/component.ts: without atomicity, events for two platforms  *)
(* could interleave, "causing a stale thread to overwrite a correct COMPLETE *)
(* status back to PENDING".                                                  *)
CompleteNeverPending ==
  [][\A e \in Entity : status[e] = "complete" => status'[e] # "pending"]_handlerVars

(* logic/handlers/textures-handler.ts: "If reconversion fails but previous   *)
(* bundles were COMPLETE, keep them as COMPLETE".  The bundles of a row that *)
(* have been converted stay converted, whoever else is at work.              *)
CompleteBundlesKept ==
  [][\A e \in Entity, t \in BundleType, p \in Platform :
       bundles[e][t][p] = "complete" /\ status'[e] # NoRow
         => bundles'[e][t][p] = "complete"]_handlerVars

=============================================================================
