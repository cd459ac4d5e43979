SPECIFICATION Spec
CONSTANTS
  Nodes = {n1, n2}
  Data = {buffer}
  NULL = NULL
  max_size = 2
  Buf = buffer
  Texts = {a, b}
  NoText = NoText
  Zero = Zero
  BufLen = 2
  Parts = {2}
INVARIANT RecordsWhatWasSent
