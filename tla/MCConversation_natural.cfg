SPECIFICATION ConversationSpec
CONSTANTS
  None = None
  Mode = "natural"
  Timeout = 4
  MaxTurns = 3
  MaxTotalTokens = 5
  MaxInvalidTurns = 2
  MaxRetries = 2
  BaseDelay = 1
  MaxDelay = 2
  Factor = 2
  HintMax = 2
  JitterPercent = 100
  ProviderTimeout = 2
  Punctual = FALSE
  Latency = 0
  TurnBound = 2
  TimeBound = 4
  Responses <- NaturalResponses
  Failures <- SomeFailures
INVARIANTS
  AttemptsCounted
  ToldIsSent
  RequestsTaken
  TranscriptRules
  OnlyStartedSent
  ReasonHolds
  RetryAnnounced
  BudgetHolds
PROPERTIES
  RecordSpec
