CONSTANTS
  rw = rw
  wr = wr
  wr2 = wr2
  wr3 = wr3
  rd = rd
  Locks = {wr, rd}
  Ctxs = {0, 1}
  MaxTs = 6
  Kind <- MCKind
  Flags <- MCFlags
SPECIFICATION FairSpec
INVARIANT AccessesHaveTxn
INVARIANT HeldExactly
INVARIANT TxnsAreHeld
PROPERTY Terminates
CHECK_DEADLOCK FALSE
