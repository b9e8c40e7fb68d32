SPECIFICATION OfferedSpec
CONSTANTS
  None = None
  Mode = "explicit"
  Timeout = 2
  MaxTurns = None
  MaxTotalTokens = None
  MaxInvalidTurns = None
  MaxConcurrent = 2
  Punctual = TRUE
  TimeBound = 3
  Phases <- ManyPhases
  Toolings <- ManyToolings
  Turns <- ManyTurns
INVARIANTS
  ToolsAsListed
  GroupsHold
  NoLaterGroup
PROPERTIES
  CancelEndsPhase
  AnswersAsPromised
