SPECIFICATION Spec
CONSTANTS
  Archiver = {a1, a2}
  Record <- Records
  MaxRows = 3
  LoadBatch = 2
  DayModulus = 10
SYMMETRY Symmetry
CHECK_DEADLOCK FALSE
INVARIANTS TypeOK IInv SkippedByLandingForACause SkippedByStagingForACause MartIsTheAggregate
