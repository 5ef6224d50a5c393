CONSTANTS
  N = 2
  First = 0
  Uploads = {u1}
  Merges = {g1}
  NoMerge = NoMerge
SPECIFICATION Spec
INVARIANTS
  MergeFailsIfMissing
CHECK_DEADLOCK FALSE
