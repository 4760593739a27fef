SPECIFICATION Spec
CONSTANTS
  Past = 1
  Forecast = 1
  LastTime = 5
  MaxShifting = 3
  LayerIds = {1, 2, 3, 4, 5, 6}
  Chain = TRUE
  Motion = FALSE
  Refresh = FALSE
  ThinLoop = FALSE
  StaleOwed = FALSE
INVARIANTS
  OneFrameShown
