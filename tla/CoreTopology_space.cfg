SPECIFICATION FairSpec
CONSTANTS
    laptop = laptop
    pi = pi
    Core = {laptop, pi}
    IdRank <- MCIdRank
    Peers <- MCPeers
    MaxEpoch = 4
    MaxCrashes = 1
INVARIANTS StrongestStands
PROPERTIES NeverReplays OneVoice
