CONSTANTS
  Producers = {p1, p2}
  Nodes = {n1, n2, n3}
  Stub = stub
  NULL = null
  MaxSends = 2
SPECIFICATION Spec
CHECK_DEADLOCK FALSE
INVARIANTS Chain NoDanglingWrite
PROPERTIES ImplementsFifo NullIsHonest NothingLeftBehind
