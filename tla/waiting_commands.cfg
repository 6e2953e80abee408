SPECIFICATION CliSpec
CONSTANTS
  None = None
  NoEvent = NoEvent
  Never = Never
  Intervals = {0, 2}
  Lifetimes = {12}
  OpenTime = 1
  Timeout = 2
  MaxSlowDowns = 1
  WaitTimeouts = {0, 7, 12}
  ExchangeTime = 1
  Limit = 2
  MaxEvents = 6
  MaxStops = 2
  Calls = {a1}
  AsyncCalls = {a1}
  Keys = {k1}
  Bodies = {b1}
  MaxRetries = 4
  RetryAfters = {0, 600, 601}
  MaxVersion = 1
INVARIANTS PollsAtPace GrantIsUsed WaitIsTruthful PollingEndsInTime RetriesAsAsked
PROPERTIES CommandsEnd WatchIsStream CallsAreBounded
CHECK_DEADLOCK FALSE
