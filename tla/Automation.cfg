SPECIFICATION Spec
CONSTANTS
    p1 = p1  p2 = p2
    Proc = {p1, p2}
    LastStep = 2
    PhaseOf <- TwoPhases
    BuildPlan = 1
    Threshold = 2
    Edit <- Edits
INVARIANTS OffMeansOff TripIsEarned
PROPERTIES AgentActsGranted SuspensionLasts BreakerStopsFailing
