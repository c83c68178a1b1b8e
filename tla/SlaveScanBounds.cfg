SPECIFICATION Spec
CONSTANTS
  QueryMax = 3
  SlotMax = 3
  Boards = {0, 1}
  TimesMax = 1
  Unused = Unused
  Torn = Torn
  MaxPresses = 1
  MaxLate = 0
  MaxFailures = 0
INVARIANTS SlotsInBounds
