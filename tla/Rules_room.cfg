SPECIFICATION FairRulesSpec
CONSTANTS
  Size = 2
  Interval = 2
  Heartbeat = 1
  Fade = 3
  MaxFailures = 1
PROPERTIES
  FadingIsNoDeparture
  TopicSettles
  DepartureIsTold
