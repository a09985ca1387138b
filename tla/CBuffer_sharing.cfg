SPECIFICATION FairSpec
CONSTANTS
  MaxOps = 4
INVARIANTS
  TypeOK
  ReadersSeeOneImage
  
PROPERTIES
  ReadOutEnds
CHECK_DEADLOCK FALSE
