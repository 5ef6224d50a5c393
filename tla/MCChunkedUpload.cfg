CONSTANTS
  N = 2
  First = 1
  Uploads = {u1, u2, u3}
  Merges = {g1, g2}
  NoMerge = NoMerge
SPECIFICATION Spec
SYMMETRY Symmetry
INVARIANTS
  IInv
  MergeNeedsAllRows
  RecordedChunkKept
  JoinedIsWhole
  FinalLostOnlyToMerge
PROPERTY
  CompletedNotReopened
CHECK_DEADLOCK FALSE
