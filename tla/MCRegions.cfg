CONSTANTS
  Layouts <- Desktops
  Pixel = {0, 1}
  TileSizes = {1, 2}
  RegionLimit = 2
  RunLimit = 5
SPECIFICATION Spec
INVARIANTS
  UpdatesAreAccepted
  PackingIsLossless
  WindowIsExact
