SPECIFICATION FairSpec
CONSTANTS
  Nodes = {n1, n2}
  Data = {buffer}
  NULL = NULL
  max_size = 2
  Buf = buffer
  Texts = {a, b}
  NoText = NoText
  Zero = Zero
  BufLen = 1
  Parts = {1}
PROPERTIES PushReturns BothCatchUp
