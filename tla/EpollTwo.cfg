SPECIFICATION Spec
CONSTANTS
  s1 = s1
  s2 = s2
  w1 = w1
  w2 = w2
  w3 = w3
  none = none
  Sock <- TwoSocks
  Worker <- TwoWorkers
  NoSock = none
  MaxWorkers = 1
  MaxRequests = 2
  KeepAlive = TRUE
  MayStop = TRUE
SYMMETRY Symmetry
INVARIANTS
  WorkerLimit
  SocketOutlivesUsers
CHECK_DEADLOCK FALSE
