SPECIFICATION FairSpec
CONSTANTS
  u1 = u1
  u2 = u2
  Nobody = Nobody
  Users <- TwoUsers
  Utterances <- ThreeAndTwo
  MaxUnderWay = 2
INVARIANTS OneConversation OneVoice InOrder
PROPERTY LoneSpeakerHeard
