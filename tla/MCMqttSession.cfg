SPECIFICATION FairSpec
CONSTANTS
  Tasks = {t1, t2}
  NULL = NULL
  CheckTurns = 2
  DownTurns = 2
  MaxFaults = 6
INVARIANTS TypeOK OneClient SoleReader DeletesItself
PROPERTIES Reconnects LinkLossReleases
