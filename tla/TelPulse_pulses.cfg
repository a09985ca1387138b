SPECIFICATION FairSpec
CONSTANTS
  Clients = {main, cam, cam2}
  Pulsers = {main, cam}
  MaxPulses = 3
  MaxRequests = 3
INVARIANTS
  TypeOK
  MovementHasOwner
  FullDuration
  SurveyAlive
  WaitIsServed
PROPERTIES
  PulseEnds
  SurveyEnds
CHECK_DEADLOCK FALSE
