SPECIFICATION Spec
CONSTANTS
  Archiver = {a1, a2}
  Record <- Records
  MaxRows = 2
  LoadBatch = 1
  DayModulus = 10
SYMMETRY Symmetry
CHECK_DEADLOCK FALSE
INVARIANT LandsEverything
