\* Answers may be late.
SPECIFICATION Spec
CONSTANTS
  Topics = {2, 4}
  Faults = {"late"}
  TooLong = {}
  MaxRequests = 3
INVARIANT
  SuccessIsOwn
CHECK_DEADLOCK FALSE
