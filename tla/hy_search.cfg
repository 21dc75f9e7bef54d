CONSTANTS
  Inputs <- MCInputs
  Strategies = {"topdown", "bottomup", "sharpen", "lockset"}
  accept_threshold = 60
  nolock_threshold = 20
  reduction_factor = 30
  cutoff_threshold = 10
  max_hypo_len = 3
  Lines <- MCLines
  MaxLines = 3
  Width = 2
SPECIFICATION FairSpec
INVARIANT ContainsIsInclusion
INVARIANT LocksetComplete
INVARIANT ConflictListEqual
INVARIANT TopdownComplete
INVARIANT BottomupStops
INVARIANT SharpenLossBounded
INVARIANT WinnerReported
INVARIANT MembersComplete
PROPERTY HypothesizerEnds
CHECK_DEADLOCK FALSE
