SPECIFICATION FairSpec
CONSTANTS
  Exporters = {"spans", "records"}
  MaxFiles = 3
  MaxSpans = 1
INVARIANTS
  Readable
  FileFirst
PROPERTIES
  StopEnds
