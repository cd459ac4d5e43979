SPECIFICATION MCSpec
CONSTANTS
  Clients = {c1, c2}
  MaxBlocks = 2
  Room = 1
  ReqRoom = 1
  NoQueue = NoQueue
  Faults = {"fork", "kill", "kill_child", "kill_server"}
  Threads = {t1, t2}
  MaxLines = 2
  MaxFailed = 1
  NoLog = NoLog
  THRESHOLD = 5
  Variants = {"busy", "signal", "test"}
  BUFFER_SIZE = 10
  Processes = {p1, p2}
  MaxStarts = 4
  MESSAGES = 3
  MaxMessages = 4
  MaxLoads = 3
  Pieces = 2
  MaxTyped = 2
CHECK_DEADLOCK FALSE
INVARIANTS EndMeansComplete LinesAreKept BufferIsKept OneHolder PrintsInOrder CanBeLoadedAgain NeverBothWait ExitIsOrderly
PROPERTIES EveryChildIsReaped ClientIsAnswered HandlerWaitsForOthers EverythingGoesOn
