CONSTANTS
  MinRate = 0
  MaxRate = 0
  Faults = {"WindowClosed"}
  Tile = {t1}
  Pixel <- OnePixel
  Cursor = {c1}
  NoCursor = NoCursor
  NoPicture = NoPicture
  QueueCapacity = 1
  ReliableWindow = 1
  ControlWindow = 2
  Hybrid = TRUE
  ViewerHybrid = TRUE
  Optimized = TRUE
  FullCanvas = FALSE
  MaxSequence = 3
  LossHorizon = 0
SPECIFICATION FairSpec
PROPERTIES
  HostStops
CHECK_DEADLOCK FALSE
