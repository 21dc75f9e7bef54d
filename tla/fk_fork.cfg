CONSTANTS
  t1 = t1
  t2 = t2
  t3 = t3
  Tasks = {t1, t2, t3}
  InitTask = t1
  NoTask = NoTask
  CloneFlags <- MCCloneFlags
  UnshareFlags <- MCUnshareFlags
  Vmas <- MCVmas
  max_threads = 3
  MaxForks = 2
  MaxCalls = 2
SPECIFICATION Spec
SYMMETRY Symmetric
INVARIANT PointersLive
INVARIANT CountsExact
INVARIANT MemoryAccounted
INVARIANT VforkFramesLive
CHECK_DEADLOCK FALSE
