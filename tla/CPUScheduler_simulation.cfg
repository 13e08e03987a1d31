SPECIFICATION SimSpec
CONSTANTS
  NumTasks = 5
  MaxPriority = 3
  RRTasks = 3
  HighQuantum = 1
  MediumQuantum = 2
  LowQuantum = 3
  MaxBurst = 4
CHECK_DEADLOCK FALSE
INVARIANT PreemptionBound
PROPERTIES TakesFirst SimulationEnds
