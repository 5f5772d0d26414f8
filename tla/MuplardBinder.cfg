SPECIFICATION Spec
CONSTANTS
  Callers = {c1, c2}
  Servers = {s1, s2}
  Watchers = {}
  Names = {"settings"}
  Builtin = {"settings"}
  Capacity = 1
  MaxStamp = 0
CHECK_DEADLOCK FALSE
INVARIANTS TypeOK NoStaleDescriptor AnswersAreMine RegistrationHolds TransactionConserved
SYMMETRY Symmetry
