SPECIFICATION FairSpec
CONSTANTS
  Callers = {c1}
  Servers = {s1}
  Watchers = {w1}
  Names = {"settings"}
  Builtin = {"settings"}
  Capacity = 1
  MaxStamp = 1
CHECK_DEADLOCK FALSE
INVARIANTS PushesAreContiguous
PROPERTIES RequestsEnd WatchersCatchUp
