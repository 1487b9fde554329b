SPECIFICATION FairSpec
CONSTANTS
  Threads = {1, 2}
  MaxCalls = 2
  MaxTransports = 4
  PoolSize = 1
  Backlog = 1
  MaxKills = 1
  Unserializable <- OneBadCall
INVARIANTS
  TypeOK
  TransportsExclusive
  PooledIsQuiet
PROPERTIES
  Implements
  StaleFailsOnce
  CallsReturn
  ClosedIsServedNoMore
CHECK_DEADLOCK FALSE
