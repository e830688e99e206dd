CONSTANTS
  Threads = {t1, t2, t3}
  Names = {n1, n2}
  Passwords = {p1, empty}
  Empty = empty
  UniqueKey = TRUE
  None = none
SPECIFICATION AccountsSpec
SYMMETRY Symmetry
INVARIANTS MapMirrorsTable SuccessMeansAccount NoFalseLogin
