CONSTANTS
  Clients = {c1, c2}
  MaxSends = 1
SPECIFICATION Spec
CHECK_DEADLOCK FALSE
PROPERTY RequestAnswered
