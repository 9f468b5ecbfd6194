CONSTANTS
  Waiters = {w1, w2}
  Executor = e
  Nobody = nobody
  MaxTimed = 1
SPECIFICATION Spec
CHECK_DEADLOCK FALSE
INVARIANTS NoUseAfterFree AnswerIsCurrent NoMissedNotify
PROPERTY GetReturns
