--------------------------- MODULE MCPendingJobs ---------------------------
(* PendingJobs with one scene on two platforms and two consumers.            *)
EXTENDS PendingJobs, TLC

CONSTANTS scene, windows, mac, w1, w2

MCSymmetry == Permutations(Platform) \cup Permutations(Worker)

=============================================================================
