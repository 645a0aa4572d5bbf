SPECIFICATION EndingsSpec
CONSTANTS
  FetchRequest = {1, 2}
  MaxConcurrent = 2
  LastBatch = 2
  MaxConcurrentBatches = 2
  MaxAttempts = 2
  RateDelay = 10
  DelayCap = 30
  Record = {1, 2, 3}
  Workers = 1
  MaxFound = 1
  DetTimeout = 2
  AgentTimeout = 2
  FinalizeTimeout = 2
  ExitGrace = 1
  Budgets = {0, 2, 3, 4, 5, 6, 7, 8}
  Session = {1}
  MaxAge = 1
  MaxHours = 3
  MaxCrashes = 1
  Message = {1}
  MaxReceiveCount = 3
  Redrive = 3
  MaxKills = 1
INVARIANTS BatchInv MatcherInv GateInv  LambdaInv
PROPERTIES EndingsForward 
CHECK_DEADLOCK FALSE
