SPECIFICATION FairSpec
CONSTANTS
  Fields <- FieldNames
  Required <- Addresses
  Values <- FieldValues
  Blank = ""
  NotAList = "False"
  Unmanaged = "unmanaged"
  Default <- Defaults
  Requests <- Pillars
  MaxFaults = 2
  MaxEdits = 2
INVARIANTS
  TypeOK
  TruthfulSuccess
  KeepsUnmanaged
PROPERTY
  KeepsContract
  EventuallyApplied
