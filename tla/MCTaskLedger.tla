---------------------------- MODULE MCTaskLedger ----------------------------
EXTENDS TaskLedger, TLC

CONSTANTS p1, p2, ta, tb, unit, e2e

Task(verify, depends) == [verify |-> verify, depends |-> depends]

\* No tasks; one task; two, one after the other, of which the first has another
\* command; and two that wait for each other.
Documents ==
    { << >>,
      ta :> Task(e2e, {}),
      (ta :> Task(unit, {})) @@ (tb :> Task(unit, {ta})),
      (ta :> Task(unit, {tb})) @@ (tb :> Task(unit, {ta})) }

Symmetry == Permutations(Proc)
==============================================================================
