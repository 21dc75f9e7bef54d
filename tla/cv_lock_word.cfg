CONSTANTS
  rw = rw
  rw2 = rw2
  wr = wr
  wr2 = wr2
  Locks = {wr}
  Ctxs = {0}
  MaxTs = 5
  Kind <- MCKind
  Flags <- MCFlags
  DataTypes <- MCDataTypes
  Sections <- MCSections
  PseudoAddrs <- MCPseudoAddrs
  Lines <- MCLockWordLines
  includeAllLocks = FALSE
  processSeqlock = FALSE
SPECIFICATION ConvertSpec
PROPERTY LockWordDiscarded
CHECK_DEADLOCK FALSE
