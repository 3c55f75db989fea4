CONSTANTS
  Base = 4
  AccessUnit <- AvccUnits
  PayloadSize = 2
  InFlightMax = 2
  MaxSequence = 2
SPECIFICATION Spec
INVARIANTS
  SplitIsLossless
CHECK_DEADLOCK FALSE
