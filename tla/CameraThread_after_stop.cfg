SPECIFICATION Spec
CONSTANTS
  Modes = {"continuous"}
  Drivers = {FALSE}
  Fails = FALSE
  MaxSessions = 1
  MaxStops = 1
PROPERTIES
  NoExposureAfterStop
CHECK_DEADLOCK FALSE
