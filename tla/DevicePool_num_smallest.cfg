SPECIFICATION Spec
CONSTANTS
  MaxDev = 3
  Libs = {audine, ethernaude}
  Ports = {lpt1}
  Imposed = {1, 2, 3}
PROPERTIES
  NumbersAllocated
CHECK_DEADLOCK FALSE
