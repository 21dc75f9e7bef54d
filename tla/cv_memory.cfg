CONSTANTS
  rw = rw
  rw2 = rw2
  wr = wr
  wr2 = wr2
  Locks = {wr, wr2}
  Ctxs = {0}
  MaxTs = 5
  Kind <- MCKind
  Flags <- MCFlags
  DataTypes <- MCDataTypes
  Sections <- MCSections
  PseudoAddrs <- MCPseudoAddrs
  Lines <- MCMemoryLines
  includeAllLocks = TRUE
  processSeqlock = FALSE
SPECIFICATION ConvertFairSpec
INVARIANT LocksInLiveMemory
PROPERTY ConvertTerminates
CHECK_DEADLOCK FALSE
