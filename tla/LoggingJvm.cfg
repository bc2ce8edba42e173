SPECIFICATION LogSpec
CONSTANTS
  Threads = {t1, t2}
  Initializer = t1
  NoThread = NoThread
  MinLevels = {0, 1, 3}
  MaxCalls = 2
  MaxDepth = 6
  Contract <- NoResolvedFirst
PROPERTIES
  LogReturns
CHECK_DEADLOCK FALSE
