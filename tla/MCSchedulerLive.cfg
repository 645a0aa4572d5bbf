SPECIFICATION FairSpec
CONSTANTS
  Run = {1}
  MaxClock = 0
  ConfiguredCap = 1
  FallbackCap = 1
PROPERTY NoLeak
