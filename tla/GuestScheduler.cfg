SPECIFICATION FairSpec
CONSTANTS
  CallbackSets = {{"create", "start", "input", "window", "inputGone", "destroy"},
                  {"create", "resume", "pause"}}
  MaxDrainRounds = 3
  QueueLimit = 2
  MaxFrames = 2
  MaxEvents = 1
INVARIANTS
  TypeOK
  NoLostWakeup
  JoinDelivers
  DeliveredInOrder
  DestroySeen
PROPERTIES
  InputServed
  AppEnds
