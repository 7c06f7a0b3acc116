SPECIFICATION FairSpec
CONSTANTS
    Row = {r1, r2}
    Code = {c1}
    None = None
    Every = 2
    Margin = 2
    MaxPending = 1
    MaxPress = 1
    MaxSeq = 4
    MaxFaults = 1
INVARIANTS TelemetryIsFresh ButtonCounts OnePressOneWaking
CHECK_DEADLOCK FALSE
PROPERTIES OffReachesTheBoard RevocationReachesTheBoard
