SPECIFICATION FairSpec
CONSTANTS
  None = None
  Mode = "natural"
  Timeout = 5
  MaxTurns = None
  MaxTotalTokens = None
  MaxInvalidTurns = None
  MaxRetries = 2
  BaseDelay = 1
  MaxDelay = 2
  Factor = 2
  HintMax = 2
  JitterPercent = 100
  ProviderTimeout = 3
  Punctual = TRUE
  Latency = 1
  TurnBound = 6
  TimeBound = 7
  Responses <- FewResponses
  Failures <- FewFailures
INVARIANTS
  WithinTimeout
PROPERTIES
  RunEnds
