CONSTANTS
  MinRate = 0
  MaxRate = 0
  Faults = {"Loss", "OversizedRegion", "InterDecodeError", "KeyDecodeError", "EarlyAck", "RetransmitMiss", "ConnectionLoss", "TaskCancelled"}
  Tile = {t1, t2}
  Pixel <- Pixels
  Cursor = {}
  NoCursor = NoCursor
  NoPicture = NoPicture
  QueueCapacity = 1
  ReliableWindow = 1
  ControlWindow = 2
  Hybrid = TRUE
  ViewerHybrid = TRUE
  Optimized = TRUE
  FullCanvas = FALSE
  MaxSequence = 3
  LossHorizon = 3
SPECIFICATION Spec
INVARIANTS
  TypeOK
  PictureMatchesSequence
  PictureInv
  RegionsFollowFirstFrame
PROPERTIES
  BarrierHolds
CHECK_DEADLOCK FALSE
SYMMETRY TileSymmetry
