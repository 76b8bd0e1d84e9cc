SPECIFICATION Spec
CONSTANTS
  N = 3
  Streams <- MCStreams
  CheckpointAcks = 2
  Slot = {s1, s2}
  Retries = 1
SYMMETRY SlotSymmetry
INVARIANTS TypeOK NoGap Tracked WatermarkIsMaximal ReplayWindowBounded IInv
PROPERTIES CursorMonotone GracefulStopRepeatsAtMostOne DurableCursorSpec
