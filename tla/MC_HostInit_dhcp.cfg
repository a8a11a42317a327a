SPECIFICATION Spec
CONSTANTS
  Settings <- DhcpSettings
  MaxFaults = 0
  MaxEdits = 0
INVARIANT
  InitSucceeds
