CONSTANTS
  Producers = {p1, p2}
  Nodes = {n0, n1, n2}
  Dummy = n0
  NULL = null
  MaxSends = 2
SPECIFICATION Spec
CHECK_DEADLOCK FALSE
INVARIANTS WokenBySend NoUseAfterFree NoLeak
PROPERTIES ImplementsFifo Received
