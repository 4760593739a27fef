SPECIFICATION SpecPart
CONSTANTS
  ZoneCount = 2
  ZonePoolSize = 2
  ZonePoolMin = 1
  Popups = TRUE
  Alerts <- ThreeAlerts
  ZoneAt <- CoastAndSea
  Views <- SeaOrBoth
  Zooms = {5, 9}
  LastTime = 3
  None = None
INVARIANTS RenderOwed ShapesDue
PROPERTIES RefreshChained ZonesHeal
CHECK_DEADLOCK FALSE
