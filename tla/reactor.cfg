SPECIFICATION Spec
CONSTANTS
  Fds = {f1, f2}
  Clients = {c1, c2}
  Workers = {w1, w2}
  MaxTasks = 2
  MaxFd = 2
  ServerMode = 0
  PoolMode = 0
  ListenTrig = 0
  Requests = {"part", "get", "keep", "miss"}
  Windows = 2
  Listen = Listen
  None = None
SYMMETRY Symmetry
INVARIANTS Handshake ConnectionHasTimer TimerPointerLive
