SPECIFICATION FairSpec
CONSTANTS
  Writers = {w1, w2}
  MaxLines = 2
  MaxQueue = 1
  LinesEach = 3
  MaxDay = 1
  None = None
\* A synchronous log stops when all lines are written.
CHECK_DEADLOCK FALSE
INVARIANTS LogTypeOK QueueHolds FileBounded
PROPERTY QueuedIsTaken
