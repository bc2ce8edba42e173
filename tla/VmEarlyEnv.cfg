SPECIFICATION VmSpec
CONSTANTS
  NativeThreads = {n1, n2}
  JavaThreads = {}
  NoThread = NoThread
  Contract <- EarlyEnvAllowed
  Faults = {}
  MaxCalls = 3
PROPERTIES
  WaitersProceed
CHECK_DEADLOCK FALSE
