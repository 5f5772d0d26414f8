SPECIFICATION FairSpec
CONSTANTS
  Kind = "wine"
  Pids = {p1, p2}
  NoPid = NoPid
  External = External
  MaxCrashes = 2
  Window = 3
  InitialDelay = 0
  FirstDelay = 1
  BackoffFactor = 2
  MaxDelay = 2
  RetryDelay = 1
  PidReuse = FALSE
  AttachToExited = "lost"

PROPERTIES EveryExitIsHandled
