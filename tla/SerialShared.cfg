CONSTANTS
  Threads = {t1, t2}
  Connections = {c1, c2}
  NoConn = NoConn
  MaxValue = 2
  MaxDepth = 2
  MaxCalls = 3
  MaxFailures = 1
SPECIFICATION FairSpec
INVARIANTS TypeOK ConnectionsInOnePlace PooledConnectionsWatchNothing OncePerGeneration ReturnsItsOwnNumber OverflowHoldsUntilDeletion PrematureDeletionsBounded SkippedOnlyByFailures
PROPERTIES CallsReturn
