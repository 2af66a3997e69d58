SPECIFICATION Spec
CONSTANTS
  Iters = 2
  Faults = TRUE
INVARIANT ReportIsMeasured
CHECK_DEADLOCK FALSE
