SPECIFICATION InvocationSpec
CONSTANTS
  Refs = {r1, r2}
  NoRef = NoRef
  NoException = NoException
  Faults = {}
  MaxCalls = 3
  MaxDepth = 3
SYMMETRY Handles
PROPERTIES
  SearchAnswers
CHECK_DEADLOCK FALSE
