SPECIFICATION CacheSpec
CONSTANTS
  m1 = m1
  m2 = m2
  f1 = f1
  a1 = a1
  k = k
  kf = kf
  cls = cls
  Threads = {t1, t2, t3}
  Initializer = t1
  UserMembers = {m1, m2, f1}
  Keys = {k, kf}
  ObjectArrays = {a1}
  Classes = {cls}
  ClassOf <- ClassOfMember
  KeyOf <- KeyOfMember
  Kind <- KindOfMember
  NoThread = NoThread
  NoInfo = NoInfo
  MaxThrows = 1
  Contract = {"bootFirst"}
INVARIANTS
  CacheTypeOK
  SharedInfo
  NothingLeftHeld
  LookupsProceed
  ClassRacesAreOfArrays
PROPERTIES
  TableImplemented
  LookupsReturn
CHECK_DEADLOCK FALSE
