--------------------------- MODULE MCOutcomeLedger ---------------------------
EXTENDS OutcomeLedger, TLC

CONSTANTS p1, p2, speed, probeA, probeB

\* One criterion, measured by one command or by another.
OneCriterion == { speed :> probeA, speed :> probeB }

Symmetry == Permutations(Proc) \cup Permutations(Command)
==============================================================================
