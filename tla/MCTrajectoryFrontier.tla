------------------------- MODULE MCTrajectoryFrontier -------------------------
(* Three trajectories compete for two places over four insertion orders. *)
EXTENDS TrajectoryFrontier, TLC

CONSTANTS t1, t2, t3

MCIds == {t1, t2, t3}
MCValues == {0, 1}
MCBonuses == {0, 1}

Symmetry == Permutations(MCIds)
=============================================================================
