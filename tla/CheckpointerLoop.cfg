SPECIFICATION Spec
CONSTANTS
  MaxCursor = 4
  MaxDeliveries = 3
  CheckpointAcks = 3
INVARIANTS IInv WatermarkIsLongestAckedPrefix
PROPERTIES FailurePins FoldsAtOnce
CHECK_DEADLOCK FALSE
