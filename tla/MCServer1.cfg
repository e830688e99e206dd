SPECIFICATION FairSpec
CONSTANTS
  Clients = {c1, c2}
  Fds = {3, 4}
  Asks <- MCAsks
  PipeSize = 1
  Output = 2
  Paces = {"prompt", "late"}
  None = None
INVARIANT OwnConnection
  
CHECK_DEADLOCK FALSE
