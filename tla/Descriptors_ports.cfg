\* Nothing fails and no connection is lost.
SPECIFICATION Spec
CONSTANTS
  MaxFd = 8
  MaxFaults = 0
  Faults = {}
  Aftermath = TRUE
INVARIANT
  PortsKeptApart
CHECK_DEADLOCK FALSE
