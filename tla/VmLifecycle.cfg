SPECIFICATION WrapperSpec
CONSTANTS
  NativeThreads = {n1, n2}
  JavaThreads = {j1}
  Workers = {n2}
  Bases = {"library"}
  NoThread = NoThread
  Contract <- AllRules
  Faults = {"create", "attach"}
  MaxCalls = 3
INVARIANTS
  VmTypeOK
  WrapperTypeOK
  NoLostWakeup
  CallsGoOn
  LiveUnlessDetached
  PublishedVmIsUp
  ArgsFreedOnce
  RoutineHasVm
  AttachmentReturned
PROPERTIES
  WrappedCallsReturn
  WrappersEnd
CHECK_DEADLOCK FALSE
