---------------------------- MODULE MCProfileSync ----------------------------
(* Three profiles of alice, the second of them rejected, and one of a        *)
(* malicious address, whose content is gone. Two have the same timestamp.    *)
(* The snapshots follow each other without a gap. Two rows that stay in the  *)
(* table of failed fetches hide the others from the retrier.                 *)
EXTENDS ProfileSync

CONSTANTS first, broken, second, bait, alice, mallory, early, late

MCPointerOf == [e \in Profile |-> IF e = bait THEN mallory ELSE alice]

MCTimestampOf ==
  [e \in Profile |-> CASE e = first -> 1 [] e = broken -> 2 [] e \in {second, bait} -> 3]

MCInitOf == [s \in Snapshot |-> IF s = early THEN 1 ELSE 2]
MCEndOf == [s \in Snapshot |-> IF s = early THEN 2 ELSE 4]

ASSUME MCGapless == SnapshotsGapless

=============================================================================
