CONSTANTS
  e = e
  f = f
  d1 = d1
  d2 = d2
  d3 = d3
  Events = {e, f}
  Deliveries <- MCDeliveries
  EventOf <- MCEventOf
  Malformed = {f}
  Workers = {w1, w2}
  Nobody = Nobody
  MaxAttempts = 2
  MaxSilences = 2
SPECIFICATION FairSpec
INVARIANTS
  PaidOnce
  OkIsSafe
  SuccessMeansBooked
  IInv
PROPERTY
  BooksEvents
CHECK_DEADLOCK FALSE
