SPECIFICATION DrainedSpec
CONSTANTS
  Fds = {f1, f2}
  Clients = {c1, c2}
  Workers = {w1, w2}
  MaxTasks = 2
  MaxFd = 2
  ServerMode = 1
  PoolMode = 1
  ListenTrig = 1
  Requests = {"part", "keep", "get"}
  Windows = 2
  Listen = Listen
  None = None
INVARIANTS TypeOK OneHolder UsersCounted
PROPERTIES PoolImplemented Concluded
