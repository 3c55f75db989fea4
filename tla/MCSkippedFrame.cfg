CONSTANTS
  MinRate = 0
  MaxRate = 0
  Faults = {"EncoderSkip", "OversizedRegion"}
  Tile = {t1, t2}
  Pixel <- Pixels
  Cursor = {}
  NoCursor = NoCursor
  NoPicture = NoPicture
  QueueCapacity = 1
  ReliableWindow = 1
  ControlWindow = 2
  Hybrid = TRUE
  ViewerHybrid = TRUE
  Optimized = TRUE
  FullCanvas = FALSE
  MaxSequence = 4
  LossHorizon = 0
SPECIFICATION Spec
INVARIANTS
  PictureMatchesSequence
CHECK_DEADLOCK FALSE
