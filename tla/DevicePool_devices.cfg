SPECIFICATION Spec
CONSTANTS
  MaxDev = 4
  Libs = {audine, ethernaude}
  Ports = {lpt1, com1}
  Imposed = {0, 2, 3}
INVARIANTS
  TypeOK
  CommandsServe
  ThreadsServe
  PortsDistinct
PROPERTIES
  NumbersAllocatedInOrder
CHECK_DEADLOCK FALSE
