CONSTANTS
  MinRate = 0
  MaxRate = 0
  Faults = {"ConnectionLoss", "TaskCancelled"}
  Tile = {t1}
  Pixel <- OnePixel
  Cursor = {}
  NoCursor = NoCursor
  NoPicture = NoPicture
  QueueCapacity = 3
  ReliableWindow = 1
  ControlWindow = 2
  Hybrid = TRUE
  ViewerHybrid = TRUE
  Optimized = FALSE
  FullCanvas = FALSE
  MaxSequence = 3
  LossHorizon = 1
SPECIFICATION FairSpec
PROPERTIES
  HostStops
CHECK_DEADLOCK FALSE
