CONSTANTS
  Base = 4
  AccessUnit <- MCUnits
  PayloadSize = 2
  InFlightMax = 2
  MaxSequence = 3
SPECIFICATION Spec
INVARIANTS
  TypeOK
  NothingHeldBack
PROPERTIES
  IsOrderedLane
CHECK_DEADLOCK FALSE
