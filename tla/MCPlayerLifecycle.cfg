SPECIFICATION FairSpec
CONSTANTS
  MaxFrames = 3
  MaxShift = 1
  MaxGen = 4
  UpdateSlots <- MCUpdateSlots
  ShiftSlots <- MCShiftSlots
  TimerIds <- MCTimerIds
  NoTimer = NoTimer
  Motion = TRUE
  Preload = FALSE
  u1 = u1
  u2 = u2
  s1 = s1
  t1 = t1
  t2 = t2
CHECK_DEADLOCK FALSE
INVARIANTS RefreshCarried PlayingMeansTicking
PROPERTIES BlankHeals RefreshesForever
