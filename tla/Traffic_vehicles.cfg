SPECIFICATION FairSpec
CONSTANTS
  v1 = v1
  v2 = v2
  MinGreenTicks = 2
  MaxGreenTicks = 2
  YellowTicks = 1
  PreemptionTicks = 1
  NumIntersections = 3
  RoadOf <- MCRoadOf
  InitCongestion <- MCInitCongestion
  TravelTicks <- MCTravelTicks
  OccPerLevel = 1
  Vehicles = {v1, v2}
  Emergencies = {v1}
  Trips <- MCTrips
  MaxLag = 1
  LateStarts = TRUE
INVARIANTS  CountsExact
PROPERTIES EveryoneArrives
