SPECIFICATION SingSpec
CONSTANTS
  A = A
  B = B
  a1 = a1
  a2 = a2
  b1 = b1
  Threads = {t1, t2}
  Names = {A, B}
  Objects = {a1, a2, b1}
  ClassOf <- ClassOfObject
  Refs = {r1, r2, r3}
  NoObject = NoObject
  NoRef = NoRef
  NoName = NoName
  Stable = {A}
INVARIANTS
  SingTypeOK
  RefsBalanced
  NoStaleUseOfStable
PROPERTIES
  RegistryImplemented
