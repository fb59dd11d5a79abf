SPECIFICATION Spec
CONSTANTS
    p1 = p1  p2 = p2  p3 = p3
    Proc = {p1, p2}
    Version = {1, 3}
    StepsOf <- Profiles
    Start <- Brief
    Command = {"init", "advance", "rewind", "cycle", "stop"}
    CanCrash = FALSE
    IoCanFail = FALSE
    MaxRounds = 2
    NoState = NoState
    NoVersion = NoVersion
    NoLocation = NoLocation
    Nobody = Nobody
INVARIANTS CursorInProfile AdvanceFollowsPin SnapshotMatchesPin RoundContinues ArchivesWhole
SYMMETRY Symmetry
CHECK_DEADLOCK FALSE
