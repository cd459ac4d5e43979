SPECIFICATION Spec
CONSTANTS
  Nodes = {n1, n2, n3}
  Data = {buffer}
  NULL = NULL
  max_size = 2
  Buf = buffer
  Texts = {a, b}
  NoText = NoText
  Zero = Zero
  BufLen = 2
  Parts = {1, 2}
SYMMETRY GatewaySymmetry
INVARIANTS CountMatchesList NodeUntilBothHaveIt
PROPERTY FollowsProtocol
