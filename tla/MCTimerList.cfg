CONSTANTS
  Timers = {t1, t2, t3, t4}
  Times <- MCTimes
  Null = Null
SPECIFICATION TimersSpec
INVARIANT WellLinked
PROPERTY ImplementsSortedTimers
