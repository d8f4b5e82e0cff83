\* One file that cannot be opened or one lost connection, and any number of ports
\* that cannot be opened again; after the first fault only low numbers of ports.
SPECIFICATION Spec
CONSTANTS
  MaxFd = 8
  MaxFaults = 1
  Faults = {"open", "port", "hangup"}
  Aftermath = FALSE
CONSTRAINT
  LowPorts
INVARIANTS
  TypeOK
  NoLeak
  OwnConnection
  OnlyTheseStray
\* A thread may be left without a port, the process may have ended, and what comes
\* after the first mistake is left out.
CHECK_DEADLOCK FALSE
