SPECIFICATION FairSpec
CONSTANTS
  Nodes = {n1, n2, n3}
  Data = {a, b}
  NULL = NULL
  max_size = 2
  Producers = {p1, p2}
  Readers = {r1, r2}
INVARIANTS WellFormed NoUseAfterFree
PROPERTIES ImplementsFifo IsServed
CHECK_DEADLOCK FALSE
