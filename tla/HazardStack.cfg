SPECIFICATION FairSpec
CONSTANTS
  t1 = t1
  t2 = t2
  n1 = n1
  n2 = n2
  r1 = r1
  r2 = r2
  Thread <- TwoThreads
  Node <- TwoNodes
  Rec <- TwoRecs
  Nil = Nil
  Marked = Marked
  NoStore = NoStore
  GcBufferSize = 0
INVARIANTS
  GuardKept
  NodeInOnePlace
  RecordsListed
PROPERTIES
  LifoSpec
  RetireEnds
CONSTRAINT UntilAba
