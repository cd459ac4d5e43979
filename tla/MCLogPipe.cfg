SPECIFICATION FairSpec
CONSTANTS
  MaxLines = 4
  Room = 2
INVARIANT LogIsWhole
PROPERTIES ChildFollows WriteReturns ChildIsReaped
CHECK_DEADLOCK FALSE
