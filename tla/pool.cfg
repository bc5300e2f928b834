SPECIFICATION FairSpec
CONSTANTS
  Tasks = {t1, t2}
  Workers = {w1, w2, w3}
  MaxTasks = 3
  NoTask = NoTask
INVARIANTS PoolTypeOK SemMatchesQueue QueueInBounds
PROPERTY AcceptedTaskRuns
