SPECIFICATION WrapperSpec
CONSTANTS
  NativeThreads = {n1, n2}
  JavaThreads = {}
  Workers = {n2}
  Bases = {"library", "client"}
  NoThread = NoThread
  Contract <- AllRules
  Faults = {}
  MaxCalls = 3
INVARIANTS
  ThreadClassFound
CHECK_DEADLOCK FALSE
