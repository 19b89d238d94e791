------------------------- MODULE MCRegistryHandlers -------------------------
(* Instances of RegistryHandlers: the chain of three scenes of               *)
(* MCRegistryService in Genesis City, or its first two.                      *)
EXTENDS RegistryHandlers, TLC

CONSTANTS old, mid, new, world, windows, mac, w1, w2

MCPointersOf ==
  [e \in Entity |-> CASE e = old -> {1} [] e = mid -> {1, 2} [] OTHER -> {2}]

MCTimestampOf == [e \in Entity |-> CASE e = old -> 1 [] e = mid -> 2 [] OTHER -> 3]

\* Every scene is in Genesis City.
MCContextOf == [e \in Entity |-> Genesis]

MCEventBundle == {"assets"} \X Platform

\* The code treats the platforms alike, and the workers.
MCSymmetry == Permutations(Platform) \cup Permutations(Worker)

=============================================================================
