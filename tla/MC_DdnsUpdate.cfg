SPECIFICATION FairSpec
CONSTANTS
  Addresses <- TwoAddresses
  Loopback = "127.0.0.1"
  Runs <- ThreeRuns
  InHighstate = "highstate"
  Hosters <- AllHosters
  MaxChanges = 2
  MaxFaults = 2
INVARIANTS
  TypeOK
  

  
