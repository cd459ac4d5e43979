SPECIFICATION Spec
CONSTANTS
  senIDs <- MCSenIDs
  SensorIDs = {2, 5}
  OtherIDs = {7}
  Temps <- MCTemps
  Missing = Missing
  WindowLen = 5
INVARIANT ReadingIsTheMessages
CHECK_DEADLOCK FALSE
