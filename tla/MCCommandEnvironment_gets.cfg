SPECIFICATION Spec
CONSTANTS
  NoName = NoName
  NoDefault = NoDefault
  Absent = Absent
  MinBytes = 16
  Size <- MCSize
  Decodes <- MCDecodes
  Configs <- MCConfigs
  Contents <- MCContents
  ContextVariables <- MCContextVariables
  Fields <- MCFields
  TraceContext <- MCTraceContext
CHECK_DEADLOCK FALSE
INVARIANTS
  SaidOfCommands
  CarriedIsCut
  OwnStaysOut
  DroppedStayDropped
  ReadAsWritten
  ShownHoldsNone
