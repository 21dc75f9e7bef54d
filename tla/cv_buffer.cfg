CONSTANTS
  rw = rw
  rw2 = rw2
  wr = wr
  wr2 = wr2
  Locks = {rw, rw2}
  Ctxs = {0, 1}
  MaxTs = 6
  Kind <- MCKind
  Flags <- MCFlags
  DataTypes <- MCDataTypes
  Sections <- MCSections
  PseudoAddrs <- MCPseudoAddrs
  Lines <- MCBufferLines
  includeAllLocks = FALSE
  processSeqlock = FALSE
SPECIFICATION ConvertSpec
INVARIANT AccessesInLifetime
PROPERTY ImplementsLockManager
CHECK_DEADLOCK FALSE
