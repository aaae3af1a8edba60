SPECIFICATION FairSpec
CONSTANTS
  Tweets <- MCTweets
  MaxRestarts = 2
INVARIANT SaidOnce
PROPERTY EveryTweetRecorded
