CONSTANTS
  Producers = {p1, p2}
  Nodes = {n1, n2, n3}
  Stub = stub
  NULL = null
  MaxSends = 2
  Synchronous = TRUE
  NullSenders = {p2}
SPECIFICATION AsyncSpec
CHECK_DEADLOCK FALSE
INVARIANTS RequestsOnceInOrder NotEveryoneStranded
