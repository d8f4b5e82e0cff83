\* Every quantity is asked for after every other; one answer may be late.
SPECIFICATION FairSpec
CONSTANTS
  Asked = {"mdl", "mfn", "sn", "fmwv", "csq", "paTmp", "pcTmp", "imsi", "ccid", "spn", "rat", "slt"}
  Rounds = 2
  MaxLate = 1
  MaxMixed = 1
INVARIANTS
  TypeOK
  RightWhenCaughtUp
  RightByLabel
PROPERTY
  CallEnds
CHECK_DEADLOCK FALSE
