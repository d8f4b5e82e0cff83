SPECIFICATION Spec
CONSTANTS
  MaxReports = 3
  MaxMisses = 2
  MaxAtOnce = 1
INVARIANTS
  TypeOK
  RightField
  RightSim
  WholeBoot
  OneReport
PROPERTY
  AcceptsBoot
CHECK_DEADLOCK FALSE
