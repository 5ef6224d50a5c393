CONSTANTS
  Msgs = {m1}
  Poison = {}
  Procs = {p1, p2}
  Nobody = Nobody
  BatchSize = 1
  LockTimeout = 0
  Retention = 0
  MaxFailures = 0
  RetryLimit = 1
  MaxDrops = 1
SPECIFICATION Spec
SYMMETRY Symmetry
INVARIANTS
  LossOnlyOnTheWire
  IInv
VIEW View
