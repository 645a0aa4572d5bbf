SPECIFICATION Spec
CONSTANTS
  NeedsData = FALSE
  Slot = {s1}
  MaxAttempts = 2
  QaFolder = FALSE
  DirectWired = FALSE
INVARIANT EarlySignalStops
CHECK_DEADLOCK FALSE
