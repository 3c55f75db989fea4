CONSTANTS
  MinRate = 0
  MaxRate = 0
  Faults = {"NaturalKeyframe"}
  Tile = {t1}
  Pixel <- OnePixel
  Cursor = {}
  NoCursor = NoCursor
  NoPicture = NoPicture
  QueueCapacity = 1
  ReliableWindow = 1
  ControlWindow = 2
  Hybrid = TRUE
  ViewerHybrid = TRUE
  Optimized = TRUE
  FullCanvas = TRUE
  MaxSequence = 5
  LossHorizon = 0
SPECIFICATION Spec
PROPERTIES
  BarrierHolds
CHECK_DEADLOCK FALSE
