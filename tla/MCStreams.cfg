CONSTANTS
  HeaderSize = 2
  MaxPacketSize = 4
  ChunkSize = 4
  MaxQueuedSendPackets = 2
  MaxIncomingMessages = 2
  MaxQueuedPackets = 2
  WireCapacity = 5
  MaxPackets = 3
SPECIFICATION Spec
CHECK_DEADLOCK FALSE
INVARIANTS
  FramesStayWhole
PROPERTIES
  ImplementsFifo
  AcceptedIsDelivered
