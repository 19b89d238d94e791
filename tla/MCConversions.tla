--------------------------- MODULE MCConversions ---------------------------
(* RegistryConversions with two scenes at one coordinate, the one replacing  *)
(* the other, and three consumers: with two, no scene comes back beside      *)
(* another unless four overlap.                                              *)
EXTENDS RegistryConversions, TLC

CONSTANTS old, new, windows, mac, w1, w2, w3

MCPointersOf == [e \in Entity |-> {1}]

MCTimestampOf == [e \in Entity |-> IF e = old THEN 1 ELSE 2]

MCContextOf == [e \in Entity |-> Genesis]

MCEventBundle == {"assets"} \X Platform

\* The code treats the platforms alike, and the workers.
MCSymmetry == Permutations(Platform) \cup Permutations(Worker)

=============================================================================
