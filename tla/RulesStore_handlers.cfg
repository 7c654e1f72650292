SPECIFICATION Spec
CONSTANTS
  None = None
  Empty = Empty
  Mixed = Mixed
  t1 = t1  t2 = t2
  c1 = c1
  Threads = {t1, t2}
  Connections = {c1}
  Posted <- MCPosted
  StartFile <- MCStartFile
  StartProposed <- MCStartProposed
  Environment = "prod"
  MaxRequests = 3
INVARIANTS
  TypeOK
  UniqueIds
  EngineIsSomeVersion
  LockedRequestsSucceed
PROPERTIES
  EveryRequestEnds
  ImplementsTable
