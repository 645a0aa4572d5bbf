SPECIFICATION Spec
CONSTANTS
  NeedsData = FALSE
  Slot = {s1}
  MaxAttempts = 2
  QaFolder = FALSE
  DirectWired = FALSE
INVARIANT SuccessStands
CHECK_DEADLOCK FALSE
