SPECIFICATION Spec
CONSTANTS
  camera = camera
  radar = radar
  ble = ble
  Sensor = {camera, radar, ble}
  Counting = {camera, radar}
  Trusted = {camera}
  Weight <- RoomWeight
  Reliability <- RoomReliability
  Level = {9}
  Count = {1}
  Arrival <- RoomArrival
  Fresh = 0
  Stale = 2
  Vacate = 2
  Skew = 1
  Threshold = 5
  Interval = 1
INVARIANTS
  RoomsFade
  CountsExpire
PROPERTIES
  VacatesSlowly
  NeverResurfaces
