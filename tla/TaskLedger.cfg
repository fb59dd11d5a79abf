SPECIFICATION Spec
CONSTANTS
    p1 = p1  p2 = p2  ta = ta  tb = tb  unit = unit  e2e = e2e
    Proc = {p1, p2}
    TaskId = {ta, tb}
    VerifyCommand = {unit, e2e}
    Document <- Documents
    EmptyPlanAllowed = TRUE
    NoLedger = NoLedger
    NoTask = NoTask
    NoStage = NoStage
INVARIANTS DoneWasJudged ReadyTaskExists BuildLeftJudged
PROPERTY DoneStaysDoneUnlessRaced
SYMMETRY Symmetry
