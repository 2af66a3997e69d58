SPECIFICATION Spec
CONSTANTS
  Nothing = Nothing
  Names <- ProperNames
  Numbers <- MCNumbers
  MaxDirs = 2
INVARIANTS GateExact SelfTestWatches TypeOK
\* The command exits.
CHECK_DEADLOCK FALSE
