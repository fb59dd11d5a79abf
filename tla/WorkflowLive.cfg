SPECIFICATION FairSpec
CONSTANTS
    p1 = p1  p2 = p2  p3 = p3
    Proc = {p1, p2}
    Version = {1, 2}
    StepsOf <- Profiles
    Start <- Brief
    Command = {"init", "advance", "stop", "upgrade", "setup"}
    CanCrash = TRUE
    IoCanFail = TRUE
    MaxRounds = 0
    NoState = NoState
    NoVersion = NoVersion
    NoLocation = NoLocation
    Nobody = Nobody
INVARIANT GateBacked
PROPERTY CommandReturns
CHECK_DEADLOCK FALSE
