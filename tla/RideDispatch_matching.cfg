SPECIFICATION FairSpec
CONSTANTS
  r1 = r1
  r2 = r2
  r3 = r3
  p1 = p1
  p2 = p2
  Riders = {p1, p2}
  Rider <- MCRider
  Requests <- MCRequests
  Drivers = {d1, d2}
  Locations <- MCLocations
  Block <- MCBlock
  Near <- MCNear
  Distance <- MCDistance
  Pickup <- MCPickup
  Dropoff <- MCDropoff
  MaxPickup = 1
  Timeout = 1
CHECK_DEADLOCK FALSE
INVARIANTS StoresAgree
PROPERTIES ImplementsRideService EveryRequestSettled
