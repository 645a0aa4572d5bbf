SPECIFICATION BothSpec
CONSTANTS
  NeedsData = TRUE
  Slot = {s1, s2}
  Run = {1, 2, 3}
  MaxClock = 1
  ConfiguredCap = 2
  FallbackCap = 2
SYMMETRY SlotSymmetry
INVARIANTS SuccessJustified LatestNeverOutruns NoOrphanEvidence
PROPERTY PriorityOrder
CHECK_DEADLOCK FALSE
