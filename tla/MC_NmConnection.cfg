SPECIFICATION FairSpec
CONSTANTS
  Fields <- Options4
  Aliases <- Alias
  AutoConnect = "connection.autoconnect"
  Values <- AllValues
  Yes = "yes"
  No = "no"
  Null = Null
  Unmanaged = Unmanaged
  Shown <- Display
  Foreign <- Others
  Requests <- Pillars
  MaxFaults = 2
  MaxEdits = 2
INVARIANTS
  TypeOK
  TruthfulSuccess
  HonestSuccess
  KeepsUnmanaged
PROPERTY
  Settles
