SPECIFICATION FairSpec
CONSTANTS
  Options <- OptionNames
  SoaFields <- SoaNames
  FwdFields <- FwdNames
  Validation = "dnssecValidation"
  SentAtCreation <- Named
  Renamed <- Addressing
  Values <- FieldValues
  Unmanaged = Unmanaged
  Unread = Unread
  DefaultOptions <- MadeOptions
  DefaultSoa <- MadeSoa
  DefaultFwd <- MadeFwd
  MaxSerial = 2
  Requests <- Pillars
  MaxFaults = 2
  MaxEdits = 2
INVARIANTS
  TypeOK
  TruthfulSuccess
  KeepsUnmanaged
PROPERTY
  KeepsContract
  EventuallyManaged
