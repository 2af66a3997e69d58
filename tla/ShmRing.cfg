SPECIFICATION Spec
CONSTANTS
  Iters = 6
  Stop = 99
  Faults = TRUE
INVARIANTS IInv ReportIsMeasured
PROPERTIES LoadIsStable Implements EndsUnlessLost
