CONSTANTS
  MaxUpdate = 2
  Fragments = 2
  CacheMax = 1
  InFlightMax = 1
  Window = 1
  MaxNackRounds = 2
  NackCapacity = 1
  Losses = {}
SPECIFICATION Spec
INVARIANTS
  TypeOK
PROPERTIES
  IsLossyLane
CHECK_DEADLOCK FALSE
