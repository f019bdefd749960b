CONSTANTS
  PACKET_BUFFER_SIZE = 3
  MaxPacketSize = 4
  Room = 1
  MaxStored = 5
  RingSize = 7
  SizeOf <- LargestSizes
  Limits = {1, 2}
  ResendTics = 0
  Lossy = FALSE
  MaxScheduled = 2
SPECIFICATION Spec
INVARIANTS LastPacketsWhole
PROPERTIES DropsOnlyLowered KickMeansLost
CHECK_DEADLOCK FALSE
