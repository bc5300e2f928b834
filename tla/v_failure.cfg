SPECIFICATION Spec
CONSTANTS
  Fds = {f1}
  Clients = {c1}
  Workers = {w1}
  MaxTasks = 1
  MaxFd = 1
  ServerMode = 0
  PoolMode = 0
  ListenTrig = 0
  Requests = {"get"}
  Windows = 2
  Listen = Listen
  None = None
INVARIANT FailureSeen
