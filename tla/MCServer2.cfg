SPECIFICATION FairServer2Spec
CONSTANTS
  Clients = {c1, c2}
  ThreadNum = 2
  MaxPieces = 2
  Styles = {"whole", "cut"}
  NoThread = NoThread
INVARIANT InStep
PROPERTIES Answered ComesToRest
CHECK_DEADLOCK FALSE
