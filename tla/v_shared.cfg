SPECIFICATION Spec
CONSTANTS
  Fds = {f1, f2}
  Clients = {c1, c2}
  Workers = {w1}
  MaxTasks = 2
  MaxFd = 2
  ServerMode = 1
  PoolMode = 1
  ListenTrig = 0
  Requests = {"miss"}
  Windows = 2
  Listen = Listen
  None = None
INVARIANT UserOfConnection
