CONSTANTS
  MinRate = 0
  MaxRate = 0
  Faults = {"KeyDecodeError"}
  Tile = {t1}
  Pixel <- OnePixel
  Cursor = {}
  NoCursor = NoCursor
  NoPicture = NoPicture
  QueueCapacity = 1
  ReliableWindow = 1
  ControlWindow = 2
  Hybrid = TRUE
  ViewerHybrid = TRUE
  Optimized = TRUE
  FullCanvas = TRUE
  MaxSequence = 3
  LossHorizon = 0
SPECIFICATION FairSpec
PROPERTIES
  ViewerRecovers
CHECK_DEADLOCK FALSE
