CONSTANTS
  InitialSize = 2
  Extended = 1
  Window = 2
  MaxSent = 4
  MaxWritten = 4
SPECIFICATION Spec
CHECK_DEADLOCK FALSE
INVARIANTS ReceivedInOrder SentInOrder DeafUntilItWrites
PROPERTIES CompletedIsComplete ClosedForGood
