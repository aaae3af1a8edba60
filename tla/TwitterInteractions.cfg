SPECIFICATION FairSpec
CONSTANTS
  p1 = p1
  p2 = p2
  Polls <- TwoPolls
  MaxTweet = 3
  Own <- MCOwn
  Parent <- MCParent
  Ancestors <- MCAncestors
  SearchCount = 2
  MaxRestarts = 1
  DatabaseFails = TRUE
CHECK_DEADLOCK FALSE
INVARIANTS AnsweredOnceInTurn RecordedFirst NoSelfReply CheckedAreRecorded
PROPERTY EveryMentionConsidered
