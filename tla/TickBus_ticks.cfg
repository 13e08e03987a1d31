SPECIFICATION FairSpec
CONSTANTS
  Intersections = {i1}
  Updater = u
  Vehicles = {v1}
  MaxTicks = 3
  ChanCap = 1
CHECK_DEADLOCK FALSE
INVARIANTS QuietAfterStop
PROPERTIES EveryTickHanded 
