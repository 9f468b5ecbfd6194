CONSTANTS
  Producers = {p1, p2}
  Nodes = {n1, n2}
  Stub = stub
  NULL = null
  MaxSends = 1
  Synchronous = TRUE
  NullSenders = {}
SPECIFICATION Spec
CHECK_DEADLOCK FALSE
PROPERTY RequestAnswered
