SPECIFICATION Spec
CONSTANTS
  Run = {r1}
  NoRun = NoRun
  Partition = {p1}
  MaxOffset = 2
  Logs <- ShortLogs
  MaxBatch = 2
  MaxRows = 4
INVARIANT NoRowIsLost
