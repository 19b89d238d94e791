-------------------------- MODULE MCProfileServing --------------------------
(* One after the other, two profiles of alice.                               *)
EXTENDS ProfileServing

CONSTANTS first, second, alice, r1

MCPointerOf == [e \in Profile |-> alice]
MCTimestampOf == [e \in Profile |-> IF e = first THEN 1 ELSE 3]
NoTimes == [s \in {} |-> 0]
MCPersister == {"sync", "retrier", "validator"} \cup Reader

=============================================================================
