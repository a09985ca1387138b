SPECIFICATION FairSpec
CONSTANTS
  Clients = {main, cam}
  Pulsers = {main, cam}
  MaxPulses = 2
  MaxRequests = 0
PROPERTIES
  MovementEnds
CHECK_DEADLOCK FALSE
