SPECIFICATION Spec
CONSTANTS
  time = time
  data = data
  idle = idle
  signal = signal
  clockConsumer = clockConsumer
  source = source
  strategy = strategy
  watcher = watcher
  newcomer = newcomer
  rival = rival
  Producers <- Order
  TimeChannel = time
  Consumers <- All
  Late <- Newcomers
  ChannelOf <- Listens
  PriorityOf <- Priorities
  Forwards <- Outputs
  Interval = 1
  Finish = 3
  Whitelists <- Sparse
  MaxPushes = 0
  MaxErrors = 0
INVARIANT WhitelistedAreTriggered
CHECK_DEADLOCK FALSE
