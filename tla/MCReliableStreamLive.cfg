CONSTANTS
  PACKET_BUFFER_SIZE = 3
  MaxPacketSize = 3
  Room = 1
  MaxStored = 4
  RingSize = 4
  SizeOf <- MixedSizes
  Limits = {1, 2}
  ResendTics = 1
  Lossy = TRUE
  MaxScheduled = 2
SPECIFICATION FairSpec
PROPERTIES ImplementsDelivery GapsFill WrittenIsSent
CHECK_DEADLOCK FALSE
