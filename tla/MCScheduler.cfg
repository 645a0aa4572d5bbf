SPECIFICATION Spec
CONSTANTS
  Run = {1, 2}
  MaxClock = 0
  ConfiguredCap = 1
  FallbackCap = 1
INVARIANTS NotifiedBeforeFailed  FailedNeverLive OneVerdict CapRespected IInv
