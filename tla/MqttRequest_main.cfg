\* Answers are late and the broker fails, or not.
SPECIFICATION FairSpec
CONSTANTS
  Topics = {2, 4}
  Faults = {"late", "broker"}
  TooLong = {2}
  MaxRequests = 3
INVARIANTS
  TypeOK
  OwnAnswer
PROPERTY
  CommandEnds
CHECK_DEADLOCK FALSE
