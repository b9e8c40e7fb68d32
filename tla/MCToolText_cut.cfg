SPECIFICATION Spec
CONSTANTS
  Values <- MCValues
  Marker <- MCMarker
  Wide <- MCWide
  ClosingMax = 3
  Characters <- MCCharacters
  Newline = "newline"
  Sources <- MCSources
  Lines <- MCLines
  Caps <- MCCaps
INVARIANTS
  CutAsWhole
  NothingShown
