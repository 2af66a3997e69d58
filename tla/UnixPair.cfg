SPECIFICATION Spec
CONSTANTS
  Iters = 4
  Faults = TRUE
INVARIANTS IInv OneInFlight
PROPERTIES Implements CompletesUnlessLost ParentReturns NoOrphan
\* The program ends: both processes are gone, by themselves or by a signal.
CHECK_DEADLOCK FALSE
