SPECIFICATION MCSpec
CONSTANTS
  senIDs <- MCSenIDs
  SensorIDs = {2, 5}
  OtherIDs = {7}
  Temps <- MCTemps
  Missing = Missing
  WindowLen = 2
  Chunks = 3
  MaxRecords = 3
  Faults = {"open", "schema", "read", "write", "close", "step", "crash"}
  Items = {i1, i2, i3, i4}
  NULL = NULL
  MaxStrings = 2
  Types = {"object", "text"}
  CJSON_NESTING_LIMIT = 2
  DefaultSize = 6
  INT_MAX = 32
  MaxSize = 48
SYMMETRY ItemSymmetry
INVARIANTS OnlyRoomsAreHeard RecordsSurvive OpenedHasTable EveryItemHasOneOwner TextsArePrintedAndRead
PROPERTY ImplementsAverage
