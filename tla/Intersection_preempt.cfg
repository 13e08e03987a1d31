SPECIFICATION FairSpec
CONSTANTS
  MinGreenTicks = 1
  MaxGreenTicks = 4
  YellowTicks = 2
  PreemptionTicks = 3
  MaxQueue = 2
  MaxPreempts = 2
INVARIANTS RedBounded
PROPERTIES ImplementsTrafficLight PreemptionExact NoDirectionStarves
