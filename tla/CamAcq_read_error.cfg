SPECIFICATION Spec
CONSTANTS
  MaxAcq = 2
INVARIANTS
  ReadErrorReplied
CHECK_DEADLOCK FALSE
