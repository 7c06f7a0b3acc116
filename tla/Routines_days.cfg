SPECIFICATION Spec
CONSTANTS
  hall = hall
  den = den
  Routine = {r1}
  Room = {hall, den}
  Shape <- Triggers
  Nobody = Nobody
  Grace = 2
  MaxDay = 2
  MaxEdges = 1
  MaxFaults = 1
CHECK_DEADLOCK FALSE
INVARIANTS
  OnceADay
  NoDaySkipped
PROPERTIES
  StillOnce
