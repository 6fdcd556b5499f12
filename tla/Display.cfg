SPECIFICATION FairSpec
CONSTANTS
  Memory <- MCMemory
  Writes <- MCWrites
  Bytes <- MCBytes
  Rates = {1, 2}
  Workloads = {"picture", "frames", "sound"}
  MaxWrites <- MCMaxWrites
  MaxSends = 3
  MaxFrames = 2
  MaxExposed = 1
  MaxTime = 9
  MaxLate = 1
INVARIANTS
  PixelsShowTheBytesSent
  TransfersKeepTime
PROPERTIES
  LatestFrameIsShown
