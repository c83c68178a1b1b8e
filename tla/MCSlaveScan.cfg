SPECIFICATION FairSpec
CONSTANTS
  QueryMax = 3
  SlotMax = 6
  Boards = {0, 2}
  TimesMax = 1
  Unused = Unused
  Torn = Torn
  MaxPresses = 1
  MaxLate = 1
  MaxFailures = 1
INVARIANTS TypeOK StoredListIntact ListMatchesFlash
PROPERTIES NoSealedOverwrite AllFound ScanEnds
