\* Both SIMs are asked for and every kind of failure may happen.  One line a
\* section: the lines of a section are packed the same way.
SPECIFICATION Spec
CONSTANTS
  NFields = 1
  SimCommands <- BothSims
  Faults <- AllFaults
INVARIANTS
  TypeOK
  ModemExclusive
  LinesTruthful
  TruthfulReply
PROPERTY
  ImplementsService
