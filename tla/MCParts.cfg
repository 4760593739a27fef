SPECIFICATION SpecPart
CONSTANTS
  None = None
  Nothing = Nothing
  Elements = {e1, e2}
  Nonces = {n1}
  Keys = {k1, k2}
  Switched = {}
  Values = {"off"}
  MaxCalls = 2
  MaxResets = 1
  Strikes = {s1, s2}
  Frames = {"near", "far"}
  MaxAge = 1
  MaxTime = 3
  EndTime = 18
  Places = {"home", "town"}
  Home = "home"
  Aside = "aside"
  Car = "car"
  Boat = "boat"
  Fixes <- CarAndBoat
  Presets <- TownAndBoat
  TimesOut = TRUE
  Absent = Absent
  MaxPresets = 2
  Tracked = Tracked
  Default = Default
VIEW Now
SYMMETRY AnyKey
INVARIANTS RecordKept StormDrawn LoopFollows MapInPlace
PROPERTIES ChoiceKept EditorInStep
CHECK_DEADLOCK FALSE
