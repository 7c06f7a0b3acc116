SPECIFICATION Spec
CONSTANTS
    laptop = laptop
    pi = pi
    Core = {laptop, pi}
    IdRank <- MCIdRank
    Peers <- MCPeers
    MaxEpoch = 3
    MaxCrashes = 0
INVARIANT EpochNeverReused
