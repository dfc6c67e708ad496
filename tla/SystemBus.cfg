SPECIFICATION FairSpec
CONSTANTS
  p1 = p1
  p2 = p2
  s1 = s1
  s2 = s2
  Procs <- Servers
  Socks <- WebSockets
  home <- OneEach
  NoProc = NoProc
  Flags <- BothFlags
  MaxMessages = 2
INVARIANTS
  InOrder
PROPERTIES
  OwnMessage
  Delivered
CHECK_DEADLOCK FALSE
