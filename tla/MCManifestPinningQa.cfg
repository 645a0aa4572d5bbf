CONSTANTS
  Run = {1}
  Published = {"manifest", "instruction", "qa"}
  TTL = 2
  MaxVersion = 2
  MaxClock = 3
SPECIFICATION PinningSpec
INVARIANT QaPinned
CHECK_DEADLOCK FALSE
