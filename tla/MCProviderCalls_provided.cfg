SPECIFICATION ProviderSpec
CONSTANTS
  None = None
  Mode = "explicit"
  Timeout = 4
  MaxTurns = 2
  MaxTotalTokens = 3
  MaxInvalidTurns = 2
  MaxRetries = 2
  BaseDelay = 1
  MaxDelay = 2
  Factor = 2
  HintMax = 2
  JitterPercent = 100
  ProviderTimeout = 2
  Punctual = FALSE
  Latency = 0
  TurnBound = 2
  TimeBound = 4
  MaxBodyBytes = 1
  Answers <- ServerAnswers
  Script <- PlayedScript
  Responses <- HeardResponses
  Failures <- HeardFailures
INVARIANTS
  ServerHeeded
  CutShortEndsRun
  EntryPerAttempt
PROPERTIES
  CancelStops
