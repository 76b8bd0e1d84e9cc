SPECIFICATION FairSpec
CONSTANTS
  N = 3
  Frames <- AllFrames
  BackoffInitial = 1
  BackoffMax = 4
  MaxExponent = 4
INVARIANTS TypeOK CursorCoversYielded BacksOff GivesUpOnlyUnreachable IInv
PROPERTIES OwedIsYielded Implements
