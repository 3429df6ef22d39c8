SPECIFICATION FairSpec
CONSTANTS
  RestartLimit = 2
  MaxDeaths = 3
  MaxInterrupts = 2
CHECK_DEADLOCK FALSE
INVARIANT SupervisorInv
PROPERTIES ExitsAreDealtWith
