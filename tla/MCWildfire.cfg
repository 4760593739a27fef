SPECIFICATION LiveSpec
CONSTANTS
  Fires = {f}
  Large = {}
  Looks = {"below", "active", "contained"}
  MaxEdits = 1
INVARIANTS DrawnMatchesData DetailOwed
PROPERTIES PopupKept FeedShown
CHECK_DEADLOCK FALSE
