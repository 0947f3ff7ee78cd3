------------------------- MODULE MCLeaderElection -------------------------
(* Instances of LeaderElection for TLC. *)
EXTENDS LeaderElection, TLC
CONSTANTS i1, i2
Symmetric == Permutations({i1, i2})
============================================================================
