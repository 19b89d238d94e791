--------------------------- MODULE MCEntityStatus ---------------------------
(* Two scenes of MCRegistryHandlers in Genesis City, the newer of which      *)
(* replaces the older, and one request at a time, of their deployer.         *)
EXTENDS EntityStatus, MCRegistryHandlers

CONSTANTS q1, alice

MCDeployments == [u \in User |-> {old, mid}]

=============================================================================
