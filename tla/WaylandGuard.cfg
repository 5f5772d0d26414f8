SPECIFICATION Spec
CONSTANTS
  Kind = "wayland"
  Pids = {p1, p2}
  NoPid = NoPid
  External = External
  MaxCrashes = 2
  Window = 3
  InitialDelay = 1
  FirstDelay = 1
  BackoffFactor = 2
  MaxDelay = 1
  RetryDelay = 1
  PidReuse = TRUE
  AttachToExited = "lost"
PROPERTY ImplementsAbstractGuard
