SPECIFICATION ServicesSpec
CONSTANTS
  Token = {1, 2}
  BrokerRequest = {1, 2}
  TicketTTL = 1
  MaxTicketNow = 2
  MaxCount = 2
  FetchRequest = {1, 2, 3}
  MaxConcurrent = 2
  Label = {1}
  BotSlot = {1, 2}
  ClaimTTL = 1
  MarkerWindow = 1
  MaxNow = 2
  MaxDeliveries = 2
  Caller = {1, 2}
  MaxRetries = 2
  MaxServed = 1
  Budget <- Budgets
  Today = {400, 700}
  DaysAhead <- Days
  MaxPlanTasks = 2
  MaxTokens = 1
  Day = {1, 2}
  State = {"CA"}
  MaxCacheSize = 2
  MaxDdhq = 2
  GoldState = {"de", "hi"}
  Position = {1, 2}
  RegionOf <- StateOf
  Permit = 1
  ServedState = {"ca"}
  AssessAttempts = 5
  SelectAttempts = 9
  LambdaTimeout = 300
  MaxVersion = 2
  MaxRequests = 2
  User = {1, 2}
  BatchSize = 1
  MaxRuns = 2
  MaxOthers = 1
  Poll = {"a", "b"}
  PollRow = {1, 2}
  Phone = {"p", "q"}
  MinRespondents = 1
  TopN = 1
  MaxPollTasks = 1
  RawMessage = {1, 2}
  MaxParts = 2
  MaxAtoms = 4
  MaxGroups = 2
  MaxFileRuns = 2
  PhoneNumber = {"p", "q"}
  MessageText <- Texts
  IssueAnswer <- Answers
  MaxSurveyed = 2
  Sender = {"p", "q"}
  SourceText <- SourceTexts
  MaxSource = 3
  MaxClassifyRuns = 2
INVARIANTS
  TicketsInv  BotInv  ScheduleInv SectionsInv
  PartitionInv StatesInv  UsersInv  
PROPERTY ServicesForward
CHECK_DEADLOCK FALSE
