SPECIFICATION FairSpec
CONSTANTS
  MaxAcq = 3
INVARIANTS
  TypeOK
  OneBlockingWait
  ExposureHasTimer
  ReplyAfterEnd
  ErrorIsMine
  StatusTellsExposure
PROPERTIES
  KeepsContract
  BlockingReturns
CHECK_DEADLOCK FALSE
