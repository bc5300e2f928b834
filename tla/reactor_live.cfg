SPECIFICATION FairSpec
CONSTANTS
  Fds = {f1, f2}
  Clients = {c1, c2}
  Workers = {w1, w2}
  MaxTasks = 1
  MaxFd = 1
  ServerMode = 0
  PoolMode = 0
  ListenTrig = 1
  Requests = {"get", "big", "miss"}
  Windows = 2
  Listen = Listen
  None = None
PROPERTY SpinReturns
