CONSTANTS
  Clients = {c1, c2, c3}
  Fds = {1, 2, 3}
  Workers = {w1, w2}
  MaxRequests = 1
  MaxUsers = 3
  Timeout = 1
  Environments = {"calm", "stalling"}
  None = none
SPECIFICATION Spec
SYMMETRY Symmetry
INVARIANTS Exclusive OwnResponse TimerPerConnection CountExact
PROPERTY TickClosesInactive
