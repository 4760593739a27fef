SPECIFICATION Spec
CONSTANTS
  Past = 1
  Forecast = 2
  LastTime = 2
  MaxShifting = 1
  LayerIds = {1, 2, 3, 4, 5, 6, 7, 8}
  Chain = TRUE
  Motion = FALSE
  Refresh = TRUE
  ThinLoop = TRUE
  StaleOwed = FALSE
INVARIANTS
  StagedStillThere
