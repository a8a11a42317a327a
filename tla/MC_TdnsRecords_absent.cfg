SPECIFICATION Spec
CONSTANTS
  Records <- Plain
  Addressed <- APlain
  Servers <- NameServers
  Glues <- GlueLists
  NoGlue = "noglue"
  NoRecord = "norecord"
  SoaFields <- Fields
  Values <- FieldValues
  Unmanaged = Unmanaged
  SoaDefault <- MadeSoa
  MaxSerial = 3
  Requests <- AbsentPillars
  MaxFaults = 0
  MaxEdits = 1
INVARIANT
  AbsentMeansGone
