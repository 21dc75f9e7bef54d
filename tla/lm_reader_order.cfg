CONSTANTS
  rw = rw
  wr = wr
  wr2 = wr2
  wr3 = wr3
  rd = rd
  Locks = {rd, wr}
  Ctxs = {0}
  MaxTs = 8
  Kind <- MCKind
  Flags <- MCFlags
SPECIFICATION Spec
INVARIANT OrderedByStart
CHECK_DEADLOCK FALSE
