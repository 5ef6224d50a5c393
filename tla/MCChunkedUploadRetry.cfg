CONSTANTS
  N = 2
  First = 0
  Uploads = {u1, u2, u3}
  Merges = {}
  NoMerge = NoMerge
SPECIFICATION Spec
INVARIANTS
  RetrySafe
CHECK_DEADLOCK FALSE
