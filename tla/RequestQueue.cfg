SPECIFICATION FairSpec
CONSTANTS
  r1 = r1
  r2 = r2
  r3 = r3
  r4 = r4
  None = None
  Requests <- MCRequests
PROPERTIES Paced IsSerialQueue Answered
CHECK_DEADLOCK FALSE
