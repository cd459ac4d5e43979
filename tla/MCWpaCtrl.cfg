SPECIFICATION MCSpec
CONSTANTS
  Socks = {s1}
  Timeouts = {h1}
  Tables <- MCTables
  Signals <- MCSignals
  MaxTime = 1
  MaxCalls = 3
  MaxSignals = 2
  NETWORK_ID_MAX = 1
  MaxNumber = 2
  MaxRuns = 3
  CommandLines <- MCCommandLines
  QueueLen = 2
INVARIANTS NotCalledForAnother TimeoutsInOrder AlarmGuardsInterrupt SetsItsOwnNetwork
PROPERTIES TimeoutsGoOff InterruptIsHandled
CHECK_DEADLOCK FALSE
