CONSTANTS
  MaxUpdate = 1
  Fragments = 2
  CacheMax = 1
  InFlightMax = 1
  Window = 1
  MaxNackRounds = 2
  NackCapacity = 4
  Losses = {0}
SPECIFICATION PatientSpec
PROPERTIES
  RepairedOrRefreshed
CHECK_DEADLOCK FALSE
