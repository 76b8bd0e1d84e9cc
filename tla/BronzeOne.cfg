SPECIFICATION Spec
CONSTANTS
  Run = {r1}
  NoRun = NoRun
  Partition = {p1, p2}
  MaxOffset = 3
  Logs <- MixedLogs
  MaxBatch = 2
  MaxRows = 4
SYMMETRY Symmetry
INVARIANTS TypeOK OneIInv LossOnlyBehindBad ReplayBounded
PROPERTY RegressOnlyOverBad
