SPECIFICATION Spec
SYMMETRY Alike
CONSTANTS
  None = None
  Before = Before
  first = first
  second = second
  later = later
  Writes = {first, second, later}
  Processes = {"p", "q"}
  Process <- MCProcess
  Pid <- MCPid
  Path = Path
  TemporaryNames = 2
  LastNumber = 3
  Everyone = {"group", "others"}
  Umask = {"others"}
  Modes <- MCModes
  Unreadable = {later}
INVARIANTS
  OwnTemporary
  StaysPrivate
PROPERTIES
  ImplementsFile
