SPECIFICATION FairSpec
CONSTANTS
  c1 = c1
  c2 = c2
  u1 = u1
  r1 = r1
  a = a
  Agent = a
  Calls <- MCCalls
  Users <- MCUsers
  Rooms <- MCRooms
  Unlucky <- MCUnlucky
  MaxFaults = 1
INVARIANT ConnectedMeansPresent
PROPERTY EveryoneConnects
