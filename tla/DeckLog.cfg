SPECIFICATION Spec
CONSTANTS
  Dates = {1, 2, 3}
  Bad = Bad
  Placeholder = Placeholder
  Missing = Missing
  Styles <- BothStyles
  Crashes = TRUE
INVARIANTS TypeOK SpoiledByCutRuns
PROPERTY PastUntouched
