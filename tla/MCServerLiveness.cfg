CONSTANTS
  Conns = {c1}
  NoConn = NoConn
  MaxQueuedSendPackets = 2
  MaxCatchupTicks = 2
  MaxConnections = 2
SPECIFICATION FairSpec
PROPERTIES
  ClosedSessionsAreRemoved
  SlowReaderIsClosed
  StopReturns
