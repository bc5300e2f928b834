SPECIFICATION Spec
CONSTANTS
  Timers = {t1, t2, t3, t4}
  Timeout = 2
  MaxTime = 5
  None = None
SYMMETRY Symmetry
\* After tick() has followed a null pointer nothing happens any more.
CHECK_DEADLOCK FALSE
INVARIANTS TimerTypeOK ListLinked Ascending
PROPERTY TickClosesDue
