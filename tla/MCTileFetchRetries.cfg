SPECIFICATION PlayingSpec
CONSTANTS
  Frames = 3
  LoadedSlots <- LastOfThree
  Places = {"a"}
  Views <- OneView
  FrameFetchWindow = 1
  MaxRetries = 2
  MaxServerErrorRetries = 2
  MaxRateLimitRetries = 1
  Errors = {"statusless", "timeout"}
  Filter = FALSE
INVARIANTS WindowKept
PROPERTIES TilesSettle HeldTilesStart
