SPECIFICATION FairSpec
CONSTANTS
  MaxFd = 3
  MaxUnread = 2
  MaxBacklog = 1
INVARIANTS MasterIsMine NeverBlocks
PROPERTY EveryoneIsHeard
CHECK_DEADLOCK FALSE
