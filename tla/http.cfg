SPECIFICATION FairSpec
CONSTANTS
  READ_BUFF_SIZE = 13
  Requests <- MCRequests
  None = None
  Heads = {1, 3}
  Files = {0, 1, 2}
  MaxLost = 1
CHECK_DEADLOCK FALSE
INVARIANTS ParseTypeOK VerdictRight WriteTypeOK ResponseInOrder MappingsReleased
PROPERTY RequestConcluded
