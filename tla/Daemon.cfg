CONSTANTS
  Files <- MCFiles
  CommandLines <- MCCommandLines
  Strtol <- MCStrtol
  Word <- MCWord
  Unknown = unknown
  Garbage = garbage
SPECIFICATION Spec
CHECK_DEADLOCK FALSE
INVARIANTS LoadedAsRegistered EngineHasOptions Supervision
PROPERTY EndIsAnswered
