--------------------------- MODULE MCAlarmReport ---------------------------
\* A sensor with a bit of its own, and one that shares the camera's bit.
EXTENDS AlarmReport

CONSTANTS smoke, spd, camera

SourceBits == [s \in {smoke, spd, camera} |-> IF s = smoke THEN 1 ELSE 8]
=============================================================================
