-------------------------- MODULE MCRegistrySerial --------------------------
(* RegistrySerial with the entities of MCRegistryHandlers and one platform,  *)
(* on which everything is converted; the scenes are all in one world, where  *)
(* they can be undeployed.                                                   *)
EXTENDS RegistrySerial

CONSTANTS old, mid, new, world, windows, w1

MCPointersOf ==
  [e \in Entity |-> CASE e = old -> {1} [] e = mid -> {1, 2} [] OTHER -> {2}]

MCTimestampOf == [e \in Entity |-> CASE e = old -> 1 [] e = mid -> 2 [] OTHER -> 3]

WorldContext == [e \in Entity |-> world]

MCEventBundle == {"assets"} \X Platform

=============================================================================
