CONSTANTS
  Ids = {i1}
  Values = {v1, v2}
  Absent = Absent
  Unborn = Unborn
  Clients = {c1, c2, c3}
  MaxWrites = 2
SPECIFICATION FairSpec
INVARIANTS
  StaleHasReason
  IInv
PROPERTY
  EventuallyFresh
