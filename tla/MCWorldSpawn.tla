---------------------------- MODULE MCWorldSpawn ----------------------------
(* A world of two scenes: a column of three parcels, and a wing that         *)
(* replaces it from its top.  The bounds of the one exclude most of the      *)
(* other's, so that a coordinate comes to lie outside.                       *)
EXTENDS WorldSpawn, TLC

CONSTANTS column, wing, world, windows, w1, w2

MCPointersOf ==
  [e \in Entity |-> IF e = column THEN {<<0, 0>>, <<0, 1>>, <<0, 2>>}
                    ELSE {<<0, 2>>, <<1, 2>>, <<2, 2>>}]

MCPointer == UNION {MCPointersOf[e] : e \in Entity}

MCBaseOf == [e \in Entity |-> IF e = column THEN <<0, 0>> ELSE <<2, 2>>]

MCTimestampOf == [e \in Entity |-> IF e = column THEN 1 ELSE 2]

MCContextOf == [e \in Entity |-> world]

MCSceneList == {{column}}

MCSpawnPoint == {<<0, 1>>}

MCEventBundle == {<<"assets", windows>>}

\* The two consumers are interchangeable.
MCSymmetry == Permutations({w1, w2})

=============================================================================
