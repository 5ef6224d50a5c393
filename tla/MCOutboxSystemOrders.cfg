CONSTANTS
  Msgs = {m1}
  Poison = {}
  Procs = {p1, p2}
  Nobody = Nobody
  BatchSize = 1
  LockTimeout = 0
  Retention = 0
  MaxFailures = 1
  RetryLimit = 0
  MaxDrops = 0
SPECIFICATION FairSpec
PROPERTY
  DeliversEvents
