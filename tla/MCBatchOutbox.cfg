CONSTANTS
  Msgs = {m1, m2}
  Hosts = {h1, h2, h3}
  MaxCrashes = 1
  MaxErrors = 1
  MaxFailures = 1
SPECIFICATION FairSpec
INVARIANTS
  DuplicateHasReason
  SurvivorLeft
  IInv
PROPERTY
  EventuallyProcessed
CHECK_DEADLOCK FALSE
