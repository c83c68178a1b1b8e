SPECIFICATION FairSpec
CONSTANTS
  smoke = smoke
  spd = spd
  camera = camera
  CAMERA = camera
  NONE = NONE
  Order <- SensorOrder
  BitOf <- SourceBits
  Debounce = 3
  CamLimit = 2
INVARIANTS TypeOK BitIsFlag BuzzerIsAlarm
PROPERTIES Heard ImplementsSource
