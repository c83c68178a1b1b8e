-------------------------- MODULE MCSensorStatus --------------------------
\* A sensor with a bit of its own, and one that shares the camera's bit.
EXTENDS SensorStatus

CONSTANTS smoke, spd, camera

SensorOrder == <<smoke, spd>>
SourceBits == [s \in {smoke, spd, camera} |-> IF s = smoke THEN 1 ELSE 8]
=============================================================================
