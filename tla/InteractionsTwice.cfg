SPECIFICATION Spec
CONSTANTS
  p1 = p1
  p2 = p2
  Polls <- TwoPolls
  MaxTweet = 3
  Own <- MCOwn
  Parent <- MCParent
  Ancestors <- MCAncestors
  SearchCount = 3
  MaxRestarts = 0
  DatabaseFails = FALSE
CHECK_DEADLOCK FALSE
INVARIANT AnsweredOnce
