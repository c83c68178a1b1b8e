SPECIFICATION Spec
CONSTANTS
  Tasks = {t1, t2}
  NULL = NULL
  CheckTurns = 2
  DownTurns = 2
  MaxFaults = 2
INVARIANTS NoTaskReturns
