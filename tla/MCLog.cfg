SPECIFICATION FairSpec
CONSTANTS
  Calls = 4
  Threads = 2
  MaxLines = 2
  Sizes = {0, 1, 2}
  LastDay = 1
  None = None
INVARIANTS LinesAccounted FileBounded
PROPERTIES ImplementsLineQueue QueuedIsWritten
CHECK_DEADLOCK FALSE
