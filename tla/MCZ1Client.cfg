CONSTANTS
  MaxQueuedPackets = 1
  MaxIncomingMessages = 2
  MaxConnections = 2
  MaxMessages = 3
  MaxInputs = 2
  Directions = {None, Left}
  None = None
  ConnectTimeout = 2
SPECIFICATION FairSpec
INVARIANTS
  TypeOK
  NothingOfAnOldConnection
  RequestsAgree
  LevelAgreesWithConnection
PROPERTIES
  EveryWaitEnds
