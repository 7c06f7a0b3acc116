SPECIFICATION FairTurnSpec
CONSTANTS
  camera = camera
  alice = alice
  bob = bob
  Name <- OneSource
  Handler <- TwoRequests
  FastAttempts = 2
  Overlap = TRUE
INVARIANTS
  NoLeakedTask
  CurrentIsLive
  OneInstanceInTurn
  OffIsDeadInTurn
  HonestInTurn
PROPERTIES
  Recovers
