SPECIFICATION Spec
CONSTANTS
  Fires = {f}
  Large = {}
  Looks = {"below", "active"}
  MaxEdits = 1
INVARIANTS NoOrphanFires
CHECK_DEADLOCK FALSE
