SPECIFICATION Spec
CONSTANTS
    p1 = p1  p2 = p2  p3 = p3
    Proc = {p1, p2}
    Version = {1, 2}
    StepsOf <- Profiles
    Start <- Brief
    Command = {"init", "advance", "rewind", "cycle", "stop", "upgrade", "setup"}
    CanCrash = TRUE
    IoCanFail = TRUE
    MaxRounds = 1
    NoState = NoState
    NoVersion = NoVersion
    NoLocation = NoLocation
    Nobody = Nobody
PROPERTIES NoLostUpdate
SYMMETRY Symmetry
CHECK_DEADLOCK FALSE
