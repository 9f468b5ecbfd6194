CONSTANTS
  Producers = {p1, p2}
  Nodes = {n1, n2, n3}
  Stub = stub
  NULL = null
  MaxSends = 2
  Synchronous = FALSE
  NullSenders = {p2}
SPECIFICATION SignaledSpec
CHECK_DEADLOCK FALSE
INVARIANTS SpinsBehindAPush CommandsOnceInOrder NullsStrandNoMore
PROPERTY CommandExecuted
