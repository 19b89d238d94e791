------------------------ MODULE RegistryConversions ------------------------
(***************************************************************************)
(* What the transaction of a conversion keeps of the promises of           *)
(* RegistryService when several consumers convert overlapping scenes.      *)
(*                                                                         *)
(* Whether a registry is OBSOLETE is read before the transaction, whose    *)
(* query of related registries passes over the OBSOLETE ones.  A registry  *)
(* superseded in between is rotated like any other: it may come back, and  *)
(* beside one that did not see it.  The variable `revived` remembers which *)
(* registries came back, and changes nothing else.                         *)
(***************************************************************************)
EXTENDS RegistryHandlers

VARIABLE revived  \* registries a step took from OBSOLETE to another status

conversionVars == <<handlerVars, request, revived>>

ConversionsInit == HandlersInit /\ revived = {}

Revive ==
  revived' = revived \cup
    {e \in Entity : status[e] = "obsolete" /\ status'[e] \notin {"obsolete", NoRow}}

ConversionsNext == HandlersNext /\ Revive

ConversionsSpec == ConversionsInit /\ [][ConversionsNext]_conversionVars

-----------------------------------------------------------------------------

\* The registries not newer than any of es.
OldestOf(es) == {r \in es : \A e \in es : TimestampOf[r] <= TimestampOf[e]}

(* ServedDisjoint of RegistryService, but for the one way around it: two     *)
(* registries served at a coordinate are an older one that was revived, and  *)
(* the newer one that had replaced it, or did not see it.                    *)
DisjointUnlessRevived ==
  \A e, f \in Entity :
    Served(e) /\ Served(f) /\ Overlap(e, f) => OldestOf({e, f}) \cap revived # {}

=============================================================================
