CONSTANTS
  Byte = 64
  MaxMessageSize = 64
  MaxRegions = 2
  MaxNackFragments = 3
  Sample <- MCSample
  Followers <- MCFollowers
SPECIFICATION Spec
INVARIANTS
  EndsAgree
  ReceivedAsSent
  PacketsSurvive
CHECK_DEADLOCK FALSE
