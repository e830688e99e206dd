SPECIFICATION FairSpec
CONSTANTS
  Messages = {m1, m2, m3, m4}
  MaxCopy = 2
  BufSize = 1
  FileSize = 2
  None = None
INVARIANT WellLinked
PROPERTIES ImplementsLineQueue Drained
CHECK_DEADLOCK FALSE
