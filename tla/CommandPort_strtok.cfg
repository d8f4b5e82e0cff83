\* Nothing fails; th_port2 cuts lines at any time.
SPECIFICATION Spec
CONSTANTS
  Texts <- FewTexts
  Numbers <- SmallNumbers
  Lines <- Answers
  MaxMixed = 2
  Faults = {}
INVARIANT
  ArgumentsStored
CHECK_DEADLOCK FALSE
