CONSTANTS
  Conns = {c1, c2, c3}
  Threads = {t1, t2, t3}
  None = none
  MaxInterrupts = 1
SPECIFICATION FairSpec
INVARIANTS ConnsPartition Accounting NeverFrontOfEmpty NeverNull
PROPERTY GetReturns
