SPECIFICATION FairSpec
CONSTANTS
  camera = camera
  radar = radar
  empty = empty
  one = one
  two = two
  Source = {camera, radar}
  Tick = Tick
  Value <- RoomValues
  Class <- RoomClass
  Empty = empty
  NoValue = NoValue
  MaxSeq = 2
  MaxFaults = 1
CHECK_DEADLOCK FALSE
INVARIANTS
  LastIsLogged
PROPERTIES
  ScreenIsABoard

