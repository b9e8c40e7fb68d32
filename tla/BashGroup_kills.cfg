SPECIFICATION FairSpec
CONSTANTS
  Children = {"one", "other"}
INVARIANTS
  TimeoutMeansGone
  KillsOwn
PROPERTIES
  CallsStop
