SPECIFICATION FairSpec
CONSTANTS
  Run = {r1, r2}
  NoRun = NoRun
  Partition = {p1, p2}
  MaxOffset = 2
  Logs <- ShortLogs
  MaxBatch = 2
  MaxRows = 3
INVARIANTS IInv BatchesHaveNoHole
PROPERTY RunsEnd ArchiveSpec
