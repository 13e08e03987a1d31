SPECIFICATION DailySpec
CONSTANTS
  Samples = {1, 2, 3}
  Zero = 1
  Cap = 4
  WindowSize = 3
  InitialCapacity = 4
  FirstPrice = 2
  MaxPrice = 3
  SizeClass = 1
  Users = {"u", "v"}
  Limit = 2
  Period = 2
  MaxTime = 4
  MaxRequests = 5
  Typed <- MCTyped
  IndianPlates <- MCIndianPlates
  Floors = 2
  PerFloor = 2
  HourTicks = 2
  HourlyRate = 20
  MaxClock = 3
  Inputs <- MCInputs
  PriorityLevels = 3
  InitialSlots = 2
  MaxPackets = 5
  Domains <- MCDomains
  Added <- MCAdded
  TTLs = {1}
  DefaultTTL = 2
  BucketCount = 2
  Hash <- MCHash
  MaxNow = 3
  MaxCalls = 3
  Alphabet = {"a", "b"}
  Texts <- MCTexts
  Styles = {"bold"}
  MaxText = 2
  MaxOps = 3
INVARIANTS  AnswersRight
PROPERTIES ImplementsWindow StockWindow ImplementsHistory ImplementsForwarding CacheExact ImplementsLedger ProgramsEnd
CHECK_DEADLOCK FALSE
