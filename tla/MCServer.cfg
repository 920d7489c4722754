CONSTANTS
  Conns = {c1, c2}
  NoConn = NoConn
  MaxQueuedSendPackets = 2
  MaxCatchupTicks = 1
  MaxConnections = 2
SPECIFICATION Spec
SYMMETRY ConnSymmetry
INVARIANTS
  TypeOK
  CompletionsBelongToSessions
  WorldMatchesSessions
PROPERTIES
  SessionsAreServed
  ImplementsMembership
