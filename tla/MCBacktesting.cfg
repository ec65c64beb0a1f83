SPECIFICATION FairSpec
CONSTANTS
  time = time
  data = data
  idle = idle
  signal = signal
  clockConsumer = clockConsumer
  source = source
  strategy = strategy
  watcher = watcher
  newcomer = newcomer
  rival = rival
  Producers <- Order
  TimeChannel = time
  Consumers <- All
  Late <- Newcomers
  ChannelOf <- Listens
  PriorityOf <- Priorities
  Forwards <- Outputs
  Interval = 1
  Finish = 3
  Whitelists <- Dense
  MaxPushes = 2
  MaxErrors = 1
INVARIANTS TypeOK NothingLeftBehind TasksRunInTime WhitelistedAreTriggered
PROPERTIES HigherFirst BacktestingEnds
CHECK_DEADLOCK FALSE
