CONSTANTS
  Threads = {t1, t2}
  k1 = k1
  k2 = k2
  k3 = k3
  Keys <- MCKeys
  Values = {v1, v2}
  NoValue = none
  Nobody = nobody
  Hash <- MCHash
  InitialLength = 2
SPECIFICATION Spec
CHECK_DEADLOCK FALSE
INVARIANTS SizeIsHonest NoLeak
PROPERTY ImplementsMap
