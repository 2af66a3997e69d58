SPECIFICATION DeliverySpec
CONSTANTS
  Nothing = Nothing
  PRs = {p1, p2}
  Additions <- MCAdditions
  FirstTree <- MCFirstTree
  Jobs <- TwoJobs
  Required <- NumberJob
  Strict = TRUE
  MaxTip = 3
  MaxPushes = 3
INVARIANTS TypeOK MainFollowsRule VerdictsStand QuietIsListed
PROPERTIES TestedAgainstTip ListedNumbersStay NeverOlder CatchesUp MergedIsListed
\* Every pull request may have merged, and nobody pushes.
CHECK_DEADLOCK FALSE
