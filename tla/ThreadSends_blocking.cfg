SPECIFICATION FairSpec
CONSTANTS
  MaxCommands = 2
PROPERTIES
  BlockingAcqReturns
CHECK_DEADLOCK FALSE
