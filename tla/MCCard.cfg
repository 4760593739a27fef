SPECIFICATION SpecPart
CONSTANTS
  Overlays = {"wind"}
  OfRest <- OneOfTwo
  Speeds = {slow, fast}
  Nonces = {n1}
  None = None
  Nothing = Nothing
  MaxCalls = 2
  Views = {"here", "abroad"}
  NdfdViews = {"here"}
  MaxSlice = 1
  MaxRequests = 2
VIEW Now
SYMMETRY AnySpeed
INVARIANTS ChoicesApplied PausedExactly RebuildOwed WindCurrent OneLoop
CHECK_DEADLOCK FALSE
