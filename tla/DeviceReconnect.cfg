SPECIFICATION FairSpec
CONSTANTS
  MaxActions = 0
  MaxLaunches = 0
  MaxCrashes = 2
  MaxTries = 3
PROPERTY
  Reconnects
CHECK_DEADLOCK FALSE
