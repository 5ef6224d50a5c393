CONSTANTS
  Msgs = {m1, m2}
  Workers = {w1, w2}
  NoWorker = NoWorker
  BatchSize = 2
  LockTimeout = 1
  Retention = 1
  MaxFailures = 1
SPECIFICATION FairSpec
INVARIANTS
  ClosedWasSent
  NoRepublish
  DuplicateNeedsLapse
  IInv
PROPERTIES
  ClosedForGood
  EventuallySent
