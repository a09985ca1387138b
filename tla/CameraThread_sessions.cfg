SPECIFICATION FairSpec
CONSTANTS
  Modes = {"acq", "continuous", "center", "guide", "search"}
  Drivers = {FALSE, TRUE}
  Fails = TRUE
  MaxSessions = 4
  MaxStops = 3
INVARIANTS
  TypeOK
  EveryChainAnswers
  ChainsBounded
  WaitsForExposure
PROPERTIES
  OneMoreEach
  StopEnds
CHECK_DEADLOCK FALSE
