CONSTANTS
  Requests = {r1, r2, r3}
  Workers = {w1, w2}
  MaxRequests = 1
  Main = main
  None = none
SPECIFICATION FairSpec
INVARIANTS TokensCoverQueue OneOwner
PROPERTIES ImplementsRequestQueue QueuedIsServed
CHECK_DEADLOCK FALSE
