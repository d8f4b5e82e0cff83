\* Every failure but a crash may happen, any number of times.  The sections of
\* a boot report have no lines here: packing a line has no branch that the
\* threads' progress depends on.
SPECIFICATION FairSpec
CONSTANTS
  NFields = 0
  SimCommands <- BothSims
  Faults <- SwitchFaults
PROPERTIES
  CommandAnswered
  ReportsGoOn
