CONSTANTS
  MaxFd = 4
  Address = {a1, a2, a3}
SPECIFICATION Spec
CHECK_DEADLOCK FALSE
INVARIANTS ListensOnForeignSocket LinksAndDescriptors
