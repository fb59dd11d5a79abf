----------------------------- MODULE MCReadiness -----------------------------
EXTENDS Readiness, TLC

CONSTANTS p1, p2, none, build, tests, lockfile

\* Two steps of one state.
TwoSteps == [s \in 1 .. 2 |-> "verify"]

\* One rule from the first step on, one from the second.
DueSteps == [r \in Rule |-> IF r = tests THEN 1 ELSE 2]
\* The processes are interchangeable.
Symmetry == Permutations(Proc)
=============================================================================
