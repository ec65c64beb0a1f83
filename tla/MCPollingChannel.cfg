CONSTANTS
  c1 = c1
  c2 = c2
  o1 = o1
  Consumers <- MCConsumers
  Optional <- MCOptional
  MaxLoops = 3
  MaxBreaks = 2
SPECIFICATION FairSpec
INVARIANTS
  TypeOK
  PauseMatchesConsumers
  PolledWhileWatched
PROPERTIES
  FedWhileWatched
  QuietWhenUnwatched
  StopEndsPolling
CHECK_DEADLOCK FALSE
