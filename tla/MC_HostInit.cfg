SPECIFICATION FairSpec
CONSTANTS
  Settings <- HostSettings
  MaxFaults = 2
  MaxEdits = 1
INVARIANTS
  TypeOK
  NeverInterrupted
  SuccessMeansReady
  StaticInitSucceeds
PROPERTY
  AlwaysEnds
