CONSTANTS
  Desktop <- MCDesktop
  Placeholder <- MCPlaceholder
  Screen <- MCScreen
  Windows <- MCWindows
  UserButton = {2}
  UserKey <- MCKeys
  Scrolls <- MCScrolls
  Fraction = 2
  MaxWheel = 1
  MaxActs = 3
  MaxStream = 0
  None = None
  Faults = {"LinkBreaks", "HostFails"}
SPECIFICATION FairSpec
INVARIANTS
  TypeOK
  NothingStaysHeld
  OwnInputIsAccepted
  DrainedWheelIsConserved
PROPERTIES
  ClickHasItsModifiers
  HostAgrees
CHECK_DEADLOCK FALSE
