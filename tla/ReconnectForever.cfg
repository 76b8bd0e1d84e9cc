SPECIFICATION Spec
CONSTANTS
  N = 1
  Frames <- AllFrames
  BackoffInitial = 1
  BackoffMax = 4
  MaxExponent = 4
INVARIANT ReconnectsForever
