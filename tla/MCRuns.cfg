SPECIFICATION RunsSpec
CONSTANTS
  NeedsData = FALSE
  Slot = {s1, s2}
  MaxAttempts = 2
  QaFolder = FALSE
  DirectWired = FALSE
  Run = {1}
  Published = {"manifest", "instruction", "attachment"}
  TTL = 2
  MaxVersion = 2
  MaxClock = 2
SYMMETRY SlotSymmetry
INVARIANTS CleanExitReported PinnedAsSeen
PROPERTIES ImplementsOutcome FreshRouting
CHECK_DEADLOCK FALSE
