---------------------------- MODULE MCGoalDriver ----------------------------
EXTENDS GoalDriver, TLC

Symmetry == Permutations(Session)
=============================================================================
