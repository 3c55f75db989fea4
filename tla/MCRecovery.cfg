CONSTANTS
  MinRate = 0
  MaxRate = 1
  Faults = {"Loss", "InterDecodeError", "NaturalKeyframe", "OversizedFrame"}
  Tile = {t1}
  Pixel <- Pixels
  Cursor = {c1}
  NoCursor = NoCursor
  NoPicture = NoPicture
  QueueCapacity = 1
  ReliableWindow = 1
  ControlWindow = 2
  Hybrid = TRUE
  ViewerHybrid = TRUE
  Optimized = TRUE
  FullCanvas = FALSE
  MaxSequence = 3
  LossHorizon = 2
SPECIFICATION FairSpec
INVARIANTS
  BarrierHasOwner
  AnchorNeverStale
PROPERTIES
  BarrierCleared
  ViewerRecovers
CHECK_DEADLOCK FALSE
