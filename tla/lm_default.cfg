CONSTANTS
  rw = rw
  wr = wr
  wr2 = wr2
  wr3 = wr3
  rd = rd
  Locks = {rw, wr}
  Ctxs = {0}
  MaxTs = 7
  Kind <- MCKind
  Flags <- MCFlags
SPECIFICATION Spec
INVARIANT TypeOK
INVARIANT InSync
CHECK_DEADLOCK FALSE
