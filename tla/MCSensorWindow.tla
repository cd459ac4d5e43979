--------------------------- MODULE MCSensorWindow ---------------------------
(* Averages on both sides of both thresholds and below zero.                 *)
EXTENDS SensorWindow

MCSenIDs == <<1, 2, 3, 4, 5>>
MCTemps == {-300, 240, 260}
=============================================================================
