CONSTANTS
  Desktop <- MCDesktop
  Placeholder <- MCPlaceholder
  Screen <- MCScreen
  Windows <- MCWindows
  UserButton = {1, 2}
  UserKey <- MCKeys
  Scrolls <- MCScrolls
  Fraction = 2
  MaxWheel = 1
  MaxActs = 3
  MaxStream = 0
  None = None
  Faults = {"SendInputFails"}
SPECIFICATION FairSpec
INVARIANTS
  NothingStaysHeld
CHECK_DEADLOCK FALSE
