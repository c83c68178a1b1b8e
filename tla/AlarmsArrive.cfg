SPECIFICATION Spec
CONSTANTS
  smoke = smoke
  spd = spd
  camera = camera
  CAMERA = camera
  NONE = NONE
  Sensors = {smoke, spd}
  BitOf <- SourceBits
  Losses = FALSE
  MaxEvents = 2
INVARIANTS AlarmsArrive
