SPECIFICATION SpecPart
CONSTANTS
  Past = 1
  Forecast = 1
  LastTime = 4
  MaxShifting = 2
  LayerIds = {1, 2, 3, 4, 5, 6, 7}
  Chain = TRUE
  Motion = TRUE
  Refresh = TRUE
  ThinLoop = FALSE
  StaleOwed = FALSE
  NumFrames = 3
  MaxViews = 1
  MaxJobs = 2
  Configs <- EitherConfig
  Shows <- FourLayers
  Null = Null
VIEW Now
INVARIANTS LoopIntact MotionFits
PROPERTIES
  PlaybackKeepsPlace
  OneFrameKept
CHECK_DEADLOCK FALSE
