SPECIFICATION FairSpec
CONSTANTS
  c1 = c1
  c2 = c2
  n1 = n1
  n2 = n2
  d1 = d1
  Context <- TwoContexts
  Conn <- TwoConns
  DbId <- OneDb
  getDatabaseId <- SameDb
  SessionDb = d1
  NoConn = NoConn
  NoContext = NoContext
  SessionChoices <- OnlyTrue
  TransactionChoices <- Both
INVARIANTS
  NameInOnePlace
  PooledWithoutTransaction
  TransactionOfHolder
  SessionStoredDurably
PROPERTIES
  LeaseSpec
  SomeoneServed
