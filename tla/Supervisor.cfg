SPECIFICATION FairSpec
CONSTANTS
  main = main
  quit = quit
  Threads = {main, quit}
  Main = main
  Poll = Poll
  Free = Free
  Calls <- AppCalls
  Prefixes = {a, b}
  MaxEdits = 1
INVARIANTS TypeOK PollThreadNotOverwritten StoppedIsClean
PROPERTIES CallsComplete GuardsFollowPrefixes
