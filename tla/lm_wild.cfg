CONSTANTS
  rw = rw
  wr = wr
  wr2 = wr2
  wr3 = wr3
  rd = rd
  Locks = {rw, wr}
  Ctxs = {0, 1}
  MaxTs = 5
  Kind <- MCKind
  Flags <- MCRecursive
SPECIFICATION Spec
INVARIANT TxnIdsUnique
INVARIANT AccessesCounted
PROPERTY ImplementsHeldLocks
CHECK_DEADLOCK FALSE
