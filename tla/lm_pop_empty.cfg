CONSTANTS
  rw = rw
  wr = wr
  wr2 = wr2
  wr3 = wr3
  rd = rd
  Locks = {rw}
  Ctxs = {0, 1}
  MaxTs = 6
  Kind <- MCKind
  Flags <- MCFlags
SPECIFICATION Spec
INVARIANT NoUndefinedPop
CHECK_DEADLOCK FALSE
