CONSTANTS
  Capacity = 5
  Word = 64
  MaxBytes = 12
  Bits = 3
  Machines = {m1, m2, m3}
  MaxFd = 2
  Groups = 3
SPECIFICATION Spec
CHECK_DEADLOCK FALSE
INVARIANTS ReadsOldestFirst AsksItsNetwork AnswersAreReplies RefusedIsClosed UsableIsOpen AllOrNothing
