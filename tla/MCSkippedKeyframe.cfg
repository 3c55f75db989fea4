CONSTANTS
  MinRate = 0
  MaxRate = 0
  Faults = {"EncoderSkip"}
  Tile = {t1}
  Pixel <- OnePixel
  Cursor = {}
  NoCursor = NoCursor
  NoPicture = NoPicture
  QueueCapacity = 1
  ReliableWindow = 1
  ControlWindow = 2
  Hybrid = TRUE
  ViewerHybrid = TRUE
  Optimized = TRUE
  FullCanvas = TRUE
  MaxSequence = 4
  LossHorizon = 0
SPECIFICATION FairSpec
PROPERTIES
  BarrierCleared
CHECK_DEADLOCK FALSE
