SPECIFICATION FairSpec
CONSTANTS
  Fields <- Names
  Nested <- OfProxy
  Lists <- OfLists
  Values <- FieldValues
  None = "none"
  Unmanaged = "unmanaged"
  Arrives <- OnArrival
  Breaks <- Breaking
  Wrecks <- Wreckage
  Default <- Defaults
  Initial <- Found
  Requests <- Pillars
  MaxFaults = 2
  MaxEdits = 2
INVARIANTS
  TypeOK
  TruthfulSuccess
  KeepsUnmanaged
PROPERTY
  KeepsContract
  EventuallyConfigured
