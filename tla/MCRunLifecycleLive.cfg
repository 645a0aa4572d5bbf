SPECIFICATION OneBodySpec
CONSTANTS
  NeedsData = TRUE
  Slot = {s1}
  MaxAttempts = 2
  QaFolder = TRUE
  DirectWired = TRUE
PROPERTY EveryRunEnds
CHECK_DEADLOCK FALSE
