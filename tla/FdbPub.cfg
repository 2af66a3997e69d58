SPECIFICATION Spec
CONSTANTS
  COMMITS = 3
  Fires = 3
  WATCHES_TRY = 4
  Limit = 2
  MaxFaults = 3
  Nothing = Nothing
INVARIANT IInv
PROPERTIES HeldIsTheLimit SamplesAreWakeups Ends
\* The program ends.
CHECK_DEADLOCK FALSE
