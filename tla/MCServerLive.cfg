CONSTANTS
  Clients = {c1, c2}
  Fds = {1, 2}
  Workers = {w1}
  MaxRequests = 1
  MaxUsers = 1
  Timeout = 2
  Environments = {"wild"}
  None = none
SPECIFICATION FairSpec
INVARIANT TimersLive
PROPERTY Reaped
