SPECIFICATION FairSpec
CONSTANTS
  p1 = p1
  p2 = p2
  p3 = p3
  p4 = p4
  Procs <- FourProcs
  MaxServers = 3
  MinServers = 3
  MaxStarts = 5
INVARIANTS
  OneScheduler
  NumbersComplete
PROPERTIES
  Replaced
  Settles
