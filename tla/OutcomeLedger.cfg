SPECIFICATION Spec
CONSTANTS
    p1 = p1  p2 = p2  speed = speed  probeA = probeA  probeB = probeB
    Proc = {p1, p2}
    Criterion = {speed}
    Command = {probeA, probeB}
    Document <- OneCriterion
    Result = {"MEASURED_PASS", "MEASURED_FAIL"}
    NoLedger = NoLedger
    NoEntry = NoEntry
    NoProjection = NoProjection
    NoCriterion = NoCriterion
    Nobody = Nobody
    MaxMeasured = 2
    MaxStarted = 1
    MaxReading = 1
INVARIANTS LogNotBehind ChainUnbroken AlarmOnlyAcrossRounds RefereeUnlessStale ShipBacked
PROPERTY HistoryAppendOnlyUnlessStale
SYMMETRY Symmetry
