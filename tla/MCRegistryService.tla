-------------------------- MODULE MCRegistryService --------------------------
(* Instances of RegistryService: three scenes of one context, an old one and *)
(* a new one that do not overlap and one in between that covers both, and a  *)
(* fourth at the same coordinate in another context.                         *)
EXTENDS RegistryService, TLC

CONSTANTS old, mid, new, other, world, windows, mac

MCPointersOf ==
  [e \in Entity |->
     CASE e = old -> {1} [] e = mid -> {1, 2} [] e = new -> {2} [] OTHER -> {1}]

MCTimestampOf ==
  [e \in Entity |-> CASE e = old -> 1 [] e = mid -> 2 [] e = new -> 3 [] OTHER -> 2]

\* The scene that covers both coordinates is the newest.
WideLastTimestampOf ==
  [e \in Entity |-> CASE e = old -> 1 [] e = new -> 2 [] OTHER -> 3]

\* The chain of scenes is in a world, the fourth scene in Genesis City.
WorldChain == [e \in Entity |-> IF e = other THEN Genesis ELSE world]

\* Every scene is in Genesis City, where operators may backfill.
GenesisChain == [e \in Entity |-> Genesis]

MCEventBundle == {"assets"} \X Platform

\* The code treats the two platforms alike.
PlatformSymmetry == Permutations(Platform)

=============================================================================
