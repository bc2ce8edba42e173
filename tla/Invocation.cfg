SPECIFICATION InvocationSpec
CONSTANTS
  Refs = {r1, r2, r3, r4}
  NoRef = NoRef
  NoException = NoException
  Faults = {"memory", "details"}
  MaxCalls = 3
  MaxDepth = 3
SYMMETRY Handles
INVARIANTS
  InvocationTypeOK
  NothingLeftPending
PROPERTIES
  FramesRestored
  ResultIsLive
  ExceptionIsOwn
CHECK_DEADLOCK FALSE
