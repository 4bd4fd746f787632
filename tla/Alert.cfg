SPECIFICATION Spec
CONSTANTS
  Alert <- OneAlert
  Evaluator = {e1, e2}
  For <- ForPeriod
  Silence = {s1}
  Window <- Windows
  LockTime = 2
  Gap = 1
  MaxRun = 2
  MaxTime = 4
  MaxThrows = 1
  MaxLockFaults = 1
SYMMETRY Runs
INVARIANTS OneEvaluatorAtATime EventsTellState SilencedIsQuiet NeverSkipped
PROPERTY FiresAfterFor
CHECK_DEADLOCK FALSE
