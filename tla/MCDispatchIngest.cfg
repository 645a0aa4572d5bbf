CONSTANTS
  Run = {1, 2}
  MaxClock = 1
  MaxReceive = 2
SPECIFICATION OneValidSpec
INVARIANTS NothingDropped GroupOrder
PROPERTIES NeverRequeued EveryDispatchLeaves
CHECK_DEADLOCK FALSE
