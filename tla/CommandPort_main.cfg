\* Everything may fail, and th_port2 cuts lines at any time.
SPECIFICATION FairSpec
CONSTANTS
  Texts <- AllTexts
  Numbers <- SmallNumbers
  Lines <- Answers
  MaxMixed = 2
  Faults = {"server", "drop", "reboot"}
INVARIANTS
  TypeOK
  ArgumentsIfAlone
  RightOperation
  RightAnswer
PROPERTY
  CommandEnds
CHECK_DEADLOCK FALSE
