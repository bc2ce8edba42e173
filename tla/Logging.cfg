SPECIFICATION LogSpec
CONSTANTS
  Threads = {t1, t2}
  Initializer = t1
  NoThread = NoThread
  MinLevels = {0, 1, 3}
  MaxCalls = 5
  MaxDepth = 9
  Contract <- LogRules
INVARIANTS
  LogTypeOK
  LevelsAgree
  CallsProceed
PROPERTIES
  LogReturns
CHECK_DEADLOCK FALSE
