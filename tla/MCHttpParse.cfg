CONSTANTS
  Requests <- MCRequests
  Lengths <- MCLengths
  BufferSize = 14
  MaxInt = 40
SPECIFICATION Spec
INVARIANTS TypeOK ParsedAsSent NeverStuck
CHECK_DEADLOCK FALSE
