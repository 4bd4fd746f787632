SPECIFICATION Spec
CONSTANTS
  Message <- Messages
  Trace <- TraceOf
  Spans <- SpansOf
  Day <- OneDay
  Consumer = {w1, w2}
  Eraser = {e1}
  BatchSize = 2
  MaxFaults = 1
  MaxErasures = 2
INVARIANTS NeverUndercounted HistogramLosesOnlyToRaces SettledTraceIsStored
SYMMETRY Consumers
CHECK_DEADLOCK FALSE
