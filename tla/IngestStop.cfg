SPECIFICATION FairSpec
CONSTANTS
  N = 2
  Streams <- MCShortStreams
  CheckpointAcks = 2
  Slot = {s1, s2}
  Retries = 1
PROPERTY StopEndsTheProcess
