SPECIFICATION Spec
CONSTANTS
    c1 = c1  c2 = c2  c3 = c3
    p1 = p1  p2 = p2  p3 = p3
    Caller = {c1, c2, c3}
    Pid = {p1, p2, p3}
    PidOf <- OwnProcess
    NoPid = NoPid
    Nobody = Nobody
    Recoverer = c1
    MaxRetries = 1
    IoCanFail = TRUE
INVARIANTS ExclusiveUnlessStolen
PROPERTY ImplementsMutex
SYMMETRY Renaming
CHECK_DEADLOCK FALSE
