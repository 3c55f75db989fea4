CONSTANTS
  MinRate = 0
  MaxRate = 1
  Faults = {"Loss", "InterDecodeError"}
  Tile = {t1}
  Pixel <- OnePixel
  Cursor = {}
  NoCursor = NoCursor
  NoPicture = NoPicture
  QueueCapacity = 1
  ReliableWindow = 1
  ControlWindow = 2
  Hybrid = TRUE
  ViewerHybrid = TRUE
  Optimized = TRUE
  FullCanvas = FALSE
  MaxSequence = 5
  LossHorizon = 2
SPECIFICATION Spec
PROPERTIES
  BarrierHolds
CHECK_DEADLOCK FALSE
