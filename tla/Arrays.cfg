SPECIFICATION TransferSpec
CONSTANTS
  ByteValues = 4
  Probes <- EdgesOfTypes
  Garbage = {0, 1}
  Nothing = Nothing
  Threads = {t1, t2}
  Size = 2
INVARIANTS
  ArrayTypeOK
  ValuesComeBack
  WaysAgree
PROPERTIES
  CellsImplemented
CHECK_DEADLOCK FALSE
