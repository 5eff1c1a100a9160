--------------------------- MODULE MCScheduledRun ---------------------------
\* Small instances of ScheduledRun for TLC.
EXTENDS ScheduledRun, TLC

Symmetry == Permutations(Target)
=============================================================================
