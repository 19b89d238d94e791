--------------------------- MODULE RegistrySerial ---------------------------
(***************************************************************************)
(* One consumer at a time, with the purger running beside it, implements   *)
(* RegistryService: the statements of a handler amount to one atomic       *)
(* change of the tables, whatever statement fails.                         *)
(*                                                                         *)
(* The refinement mapping hides the effects of the operation in flight: it *)
(* reads the tables as they were when the worker was last idle.  What the  *)
(* purger does meanwhile shows once the operation has ended: a row that    *)
(* the operation itself has made OBSOLETE can be copied and deleted before *)
(* the operation does the rest.                                            *)
(***************************************************************************)
EXTENDS RegistryHandlers

(* One consumer, no operator backfilling entities, tables empty at the start; *)
(* where a statement may fail, RegistryService interrupts its handlers.       *)
ASSUME SerialAssumption ==
  /\ \E w \in Worker : Worker = {w}
  /\ "backfill" \notin Operation
  /\ Deployed = {}
  /\ FALSE \in Interruption
  /\ Fault => TRUE \in Interruption

VARIABLES
  settledStatus,      \* `status` as the last operation that ended left it
  settledBundles,     \* `bundles`, likewise
  settledHistorical,  \* `historical`, likewise
  purged              \* rows deleted by the purger and settled as OBSOLETE

settled == <<settledStatus, settledBundles, settledHistorical>>

serialVars == <<handlerVars, settled, purged>>

SerialInit ==
  /\ HandlersInit
  /\ settledStatus = status
  /\ settledBundles = bundles
  /\ settledHistorical = historical
  /\ purged = {}

Resting == \A w \in Worker : job[w] = Idle

\* Status column st with the rows ids, deleted by the purger, back in it.
Restored(st, ids) == [x \in Entity |-> IF x \in ids THEN "obsolete" ELSE st[x]]

\* Between two operations: nothing is hidden any more.
ShowTables ==
  /\ settledStatus' = status'
  /\ settledBundles' = bundles'
  /\ settledHistorical' = historical'
  /\ purged' = {}

\* The end of an operation: what it did shows, the work of the purger does not.
ShowOperation ==
  /\ settledStatus' = Restored(status', purged)
  /\ settledBundles' =
       [x \in Entity |-> IF x \in purged THEN settledBundles[x] ELSE bundles'[x]]
  /\ UNCHANGED <<settledHistorical, purged>>

\* During an operation: nothing shows.
Hide ==
  /\ purged' = purged \cup {x \in Entity : status[x] # NoRow /\ status'[x] = NoRow}
  /\ UNCHANGED settled

\* Only the steps of the purger change `purge`.
Settle ==
  IF Resting' /\ purge' = purge THEN ShowOperation
  ELSE IF Resting THEN ShowTables
  ELSE Hide

SerialNext == HandlersNext /\ Settle

SerialSpec == SerialInit /\ [][SerialNext]_serialVars

-----------------------------------------------------------------------------

Service == INSTANCE RegistryService
             WITH status <- settledStatus, bundles <- settledBundles,
                  historical <- settledHistorical

(* With one consumer, every handler is atomic for the clients of the         *)
(* registry: any schedule of statements, failures and purger steps is a      *)
(* behaviour of RegistryService, whose properties therefore hold of the code.*)
ImplementsService == Service!EventSpec

=============================================================================
