SPECIFICATION FairSpec
CONSTANTS
  MinDelay = 2
  MaxDelay = 3
  PostTime = 1
  PostImmediately = {TRUE, FALSE}
  Fails = TRUE
  MaxRestarts = 2
INVARIANTS QuietBounded NoBurst
PROPERTY KeepsTweeting
