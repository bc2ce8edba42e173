SPECIFICATION CacheSpec
CONSTANTS
  m1 = m1
  m2 = m2
  f1 = f1
  a1 = a1
  k = k
  kf = kf
  cls = cls
  Threads = {t1, t2}
  Initializer = t1
  UserMembers = {m1, f1}
  Keys = {k, kf}
  ObjectArrays = {a1}
  Classes = {cls}
  ClassOf <- ClassOfFew
  KeyOf <- KeyOfFew
  Kind <- KindOfFew
  NoThread = NoThread
  NoInfo = NoInfo
  MaxThrows = 0
  Contract = {}
PROPERTIES
  LookupsReturn
CHECK_DEADLOCK FALSE
