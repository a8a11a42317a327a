SPECIFICATION FairSpec
CONSTANTS
  Records <- Plain
  Addressed <- APlain
  Servers <- NameServers
  Glues <- GlueLists
  NoGlue = "noglue"
  NoRecord = "norecord"
  SoaFields <- Fields
  Values <- FieldValues
  Unmanaged = Unmanaged
  SoaDefault <- MadeSoa
  MaxSerial = 3
  Requests <- Pillars
  MaxFaults = 2
  MaxEdits = 2
INVARIANTS
  TypeOK
  TruthfulPresent
  KeepsOthers
PROPERTY
  KeepsContract
  EventuallyPresent
