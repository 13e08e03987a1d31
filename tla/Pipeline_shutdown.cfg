SPECIFICATION Spec
CONSTANTS
  Sensors = {s1, s2}
  Processors = {p1, p2}
  NoSensor = NoSensor
  ReadingsCap = 1
  AlertsCap = 1
  MaxReadings = 2
INVARIANTS NoSendAfterClose NothingLost
PROPERTIES ShutdownCompletes
