----------------------------- MODULE MCWorkflow -----------------------------
EXTENDS Workflow, TLC

CONSTANTS p1, p2, p3

At(stateId, stepId) == [stateId |-> stateId, stepId |-> stepId]

\* The beginnings of the bundled profiles 0.1.0 and 0.2.0, between which
\* step_scope moves from one state to the next, and of a profile like 0.3.0
\* that inserts a step.
Profiles ==
    << << At("discovery", "brief"), At("discovery", "scope"), At("spec", "prd") >>,
       << At("discovery", "brief"), At("spec", "scope"), At("spec", "prd") >>,
       << At("discovery", "brief"), At("spec", "scope"), At("spec", "logic"),
          At("spec", "prd") >> >>

Brief == At("discovery", "brief")

Symmetry == Permutations(Proc)
==============================================================================
