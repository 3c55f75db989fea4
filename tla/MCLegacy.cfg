CONSTANTS
  MinRate = 0
  MaxRate = 0
  Faults = {"Loss", "EncoderSkip", "WindowClosed", "CaptureError", "InputError", "ConnectionLoss"}
  Tile = {t1}
  Pixel <- OnePixel
  Cursor = {}
  NoCursor = NoCursor
  NoPicture = NoPicture
  QueueCapacity = 1
  ReliableWindow = 1
  ControlWindow = 2
  Hybrid = FALSE
  ViewerHybrid = FALSE
  Optimized = FALSE
  FullCanvas = FALSE
  MaxSequence = 3
  LossHorizon = 1
SPECIFICATION FairSpec
PROPERTIES
  HostStops
CHECK_DEADLOCK FALSE
