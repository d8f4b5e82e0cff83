\* Everything may fail.
SPECIFICATION FairSpec
CONSTANTS
  Faults = {"build", "partial", "port", "drop", "clientRestart", "serverRestart"}
  MaxTrouble = 3
  MaxQueue = 2
INVARIANTS
  TypeOK
  BootFirst
  RequestsBounded
PROPERTIES
  Resynchronised
  ImplementsService
