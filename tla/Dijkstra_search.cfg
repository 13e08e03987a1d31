SPECIFICATION FairSpec
CONSTANTS
  Nodes <- MCNodes
  Roads <- MCRoads
  From <- MCFrom
  To <- MCTo
  Length <- MCLength
  Src = 1
  Avoid = TRUE
  Levels = {1, 10}
CHECK_DEADLOCK FALSE
INVARIANTS ShortestFound KeepsOffCorridor
PROPERTIES SearchEnds
