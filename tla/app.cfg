SPECIFICATION Spec
CONSTANTS
  Ids = {i1, i2}
  Ports = {p1, p2}
  Shards = {s1, s2}
  Capacity = 2
  BufferSize = 2
  MaxEvents = 4
  Wanted <- MCWanted
  c1 = c1
  c2 = c2
  Callers <- MCCallers
  CallCapacity = 1
  ResultCapacity = 2
  MaxCalls = 2
  t1 = t1
  t2 = t2
  t3 = t3
  Transfers <- MCTransfers
  MaxSlot = 3
SYMMETRY Symmetry
INVARIANTS
  CreatedIsKept
  DeletedStaysGone
  PortsAreOwned
  RightsAreKept
  NoLockCycle
  HistoryIsComplete
  ConsoleEndsWithSession
  ReturnsItsResult
  NothingIsOverwritten
  FailedLeavesNoPart
PROPERTIES
  ImplementsProcedureCall
CHECK_DEADLOCK FALSE
