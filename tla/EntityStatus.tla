---------------------------- MODULE EntityStatus ----------------------------
(***************************************************************************)
(* The requests for the status of entities, beside the operations of       *)
(* RegistryHandlers and the purger.                                        *)
(*                                                                         *)
(* An entity is in one of two tables, and the purger moves it from the one *)
(* to the other in two statements.  A request reads both tables, each with *)
(* a query of its own: GET /entities/status/:id one after the other, until *)
(* it finds the entity, and GET /entities/status, which lists what a user  *)
(* has deployed, both at once.                                             *)
(*                                                                         *)
(* A list is made of the rows that carry the user's address.  Only a       *)
(* deployment knows the deployer: a conversion result and a backfill       *)
(* insert a row without one, and the deployment that comes after them      *)
(* finds the row and leaves it alone.                                      *)
(***************************************************************************)
EXTENDS RegistryHandlers

CONSTANTS
  User,        \* who asks for what they have deployed
  Deployments  \* the entities each of them has deployed

ASSUME UserAssumption ==
  /\ Deployments \in [User -> SUBSET Entity]
  /\ \A u, v \in User : u # v => Deployments[u] \cap Deployments[v] = {}

VARIABLE
  signed \* the rows that carry their deployer, of either table and of the purger's batch

statusVars == <<handlerVars, request, signed>>

Table == {"registries", "historical"}

(* A request asks about some entities and has still to read the tables       *)
(* `unread`; it is answered when there is none.  The other two are history   *)
(* variables: `owed` are the entities asked for that the tables could answer *)
(* with when the request came and that were not found so far, `archived`     *)
(* those of them that the historical table could answer with by then.        *)
RequestState ==
  [op : {"status", "owned"}, about : SUBSET Entity, unread : SUBSET Table,
   owed : SUBSET Entity, archived : SUBSET Entity]

StatusTypeOK ==
  /\ HandlersTypeOK
  /\ request \in [Request -> RequestState]
  /\ signed \in [registries : SUBSET Entity, batch : SUBSET Entity, historical : SUBSET Entity]

StatusInit ==
  /\ HandlersInit
  /\ signed = [registries |-> Deployed, batch |-> {}, historical |-> {}]

-----------------------------------------------------------------------------
(* The deployer column                                                       *)

\* Mutant: the row takes the deployer of whoever writes it, known or not.
SigningAnew(w) ==
  LET e == job[w].entity
  IN IF job[w].op = "deployment" THEN signed.registries \cup {e} ELSE signed.registries \ {e}

\* ON CONFLICT keeps the deployer of a row unless the new one is known.
Signing(w) ==
  IF job[w].op = "deployment"
  THEN signed.registries \cup {job[w].entity}
  ELSE signed.registries

(* The purger copies a row as it was when it was selected, and the row of an *)
(* entity purged before keeps the deployer it has.                           *)
PurgerSigns ==
  signed' = [ registries |-> {e \in signed.registries : status'[e] # NoRow},
              batch      |-> purge'.batch \cap
                               (IF purge.batch = {} THEN signed.registries ELSE signed.batch),
              historical |-> signed.historical \cup (signed.batch \cap (historical' \ historical)) ]

\* HandlersNext, and what becomes of the column.
ServiceNext ==
  \/ \E w \in Worker :
       \/ /\ Take(w) \/ OtherStatement(w)
          /\ UNCHANGED signed
       \/ /\ Insert(w)
          /\ signed' = [signed EXCEPT !.registries = Signing(w)]
  \/ Purger /\ PurgerSigns

-----------------------------------------------------------------------------
(* Requests                                                                  *)

\* The rows of a table that a query can answer with.
Rows(op, t) ==
  CASE op = "owned"                         -> signed[t]
    [] op = "status" /\ t = "registries"    -> {e \in Entity : Exists(e)}
    [] op = "status" /\ t = "historical"    -> historical

Answered(q) == request[q].unread = {}

Ask(q, op, ids) ==
  /\ Answered(q)
  /\ request' = [request EXCEPT
       ![q] = [op |-> op, about |-> ids, unread |-> Table,
               owed |-> ids \cap (Rows(op, "registries") \cup Rows(op, "historical")),
               archived |-> ids \cap Rows(op, "historical")]]
  /\ UNCHANGED <<handlerVars, signed>>

\* GET /entities/status/:id.  What is asked for by a pointer takes a third query,
\* which finds nothing for an id.
AskStatus(q) == \E e \in Entity : Ask(q, "status", {e})

\* GET /entities/status
AskOwned(q) == \E u \in User : Ask(q, "owned", Deployments[u])

\* Mutant: the historical table is read first.
HistoricalFirst(q, t) ==
  request[q].op = "status" /\ "historical" \in request[q].unread => t = "historical"

\* The query a request sends next: of an id the registries first; of an owner any.
NextTable(q, t) ==
  request[q].op = "status" /\ "registries" \in request[q].unread => t = "registries"

\* An id that was found is looked for no further.
Settles(q, found) == request[q].op = "status" /\ found # {}

Query(q, t) ==
  /\ t \in request[q].unread
  /\ NextTable(q, t)
  /\ LET found == request[q].about \cap Rows(request[q].op, t)
         left  == IF Settles(q, found) THEN {} ELSE request[q].unread \ {t}
     IN  request' = [request EXCEPT
           ![q].unread = left,
           ![q].about = IF left = {} THEN {} ELSE @,
           ![q].owed = @ \ found, ![q].archived = @ \ found]
  /\ UNCHANGED <<handlerVars, signed>>

\* A query fails, and with it the request.
RequestFails(q) ==
  /\ Fault
  /\ ~Answered(q)
  /\ request' = [request EXCEPT ![q] = NoRequest]
  /\ UNCHANGED <<handlerVars, signed>>

RequestNext ==
  \E q \in Request :
    \/ AskStatus(q) \/ AskOwned(q)
    \/ \E t \in Table : Query(q, t)
    \/ RequestFails(q)

StatusNext == ServiceNext \/ RequestNext

StatusSpec == StatusInit /\ [][StatusNext]_statusVars

-----------------------------------------------------------------------------
(* An entity that the registry knew of when its status was asked for is      *)
(* found, although the purger may move it between the two queries of         *)
(* getEntityStatusHandler: it is copied before it is deleted, and looked for *)
(* in the same direction.                                                    *)
StatusFound == \A q \in Request : Answered(q) /\ request[q].op = "status" => request[q].owed = {}

(* The two queries of getEntitiesStatusHandler come in any order, so that an *)
(* entity which the purger moves meanwhile may be missing from the list; but *)
(* of the rows that carry the user's address no other is, whatever handlers, *)
(* backfills and failures do at the time: no write without a deployer wipes  *)
(* one out.                                                                  *)
ListMissesOnlyPurged ==
  \A q \in Request : Answered(q) => /\ request[q].owed \subseteq historical
                                  /\ request[q].archived = {}

=============================================================================
