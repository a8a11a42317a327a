SPECIFICATION OnceFairSpec
CONSTANTS
  Setups <- EverySetup
  MaxSlips = 4
CHECK_DEADLOCK FALSE
INVARIANTS
  OnceTypeOK
  FlagIsTrue
PROPERTY
  EventuallySet
