SPECIFICATION Spec
CONSTANTS
  c1 = c1
  c2 = c2
  redis = redis
  mongo = mongo
  r1 = r1
  r2 = r2
  m1 = m1
  Context <- TwoContexts
  Type <- BothTypes
  Conn <- ThreeConns
  typeOf <- TypeOfName
  NoConn = NoConn
  NoContext = NoContext
SYMMETRY Symmetry
INVARIANTS
  NameInOnePlace
PROPERTIES
  LeaseSpec
