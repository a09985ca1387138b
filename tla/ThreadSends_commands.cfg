SPECIFICATION FairSpec
CONSTANTS
  MaxCommands = 3
INVARIANTS
  TypeOK
  WaitsAreOneWay
PROPERTIES
  CommandReturns
  TelescopeReplies
CHECK_DEADLOCK FALSE
