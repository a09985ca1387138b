SPECIFICATION FairSpec
CONSTANTS
  MaxAcq = 3
INVARIANTS
  TypeOK
  StatusSettles
  ImageIsOwn
  LostImageWasWoken
PROPERTIES
  StatusCycles
  AcquisitionEnds
CHECK_DEADLOCK FALSE
