SPECIFICATION Spec
CONSTANTS
  Nothing = Nothing
  PRs = {p1, p2}
  Additions <- MCForgotten
  FirstTree <- MCFirstTree
  Jobs <- TwoJobs
  Required <- PrekOnly
  Strict = TRUE
  MaxTip = 2
PROPERTY FailingCannotMerge
\* Every pull request may have merged.
CHECK_DEADLOCK FALSE
