SPECIFICATION Spec
CONSTANTS
    Row = {r1}
    Code = {c1}
    None = None
    Every = 2
    Margin = 2
    MaxPending = 1
    MaxPress = 1
    MaxSeq = 4
    MaxFaults = 1
PROPERTIES RevokedIsTerminal
CHECK_DEADLOCK FALSE
