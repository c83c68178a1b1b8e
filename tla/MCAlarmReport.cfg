SPECIFICATION FairSpec
CONSTANTS
  smoke = smoke
  spd = spd
  camera = camera
  CAMERA = camera
  NONE = NONE
  Sensors = {smoke, spd}
  BitOf <- SourceBits
  Losses = TRUE
  MaxEvents = 3
INVARIANTS TypeOK ChangeIsPending ToldUnlessDisturbed
PROPERTIES Learnt
