SPECIFICATION FairSpec
CONSTANTS
  s1 = s1
  s2 = s2
  w1 = w1
  w2 = w2
  w3 = w3
  none = none
  Sock <- OneSock
  Worker <- TwoWorkers
  NoSock = none
  MaxWorkers = 2
  MaxRequests = 3
  KeepAlive = TRUE
  MayStop = FALSE
INVARIANTS
  OneWorkerPerSocket
  NoForgottenSocket
PROPERTIES
  DeletedSocketDestroyed
  RequestReadOrNoted
  ResponseSent
