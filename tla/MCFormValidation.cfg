CONSTANTS
  Methods <- MCMethods
  Fields <- MCFields
  Pages <- MCPages
  Accepted <- MCAccepted
  NoPrevious = NoPrevious
  NoRequest = NoRequest
  MaxLosses = 1
SPECIFICATION FairSpec
INVARIANTS
  IInv
  SentIsChecked
  BreachHasReason
  PendingCounted
  BlockedByLoss
  ErrorIsLive
PROPERTIES
  RefusesForReason
  Decided
CHECK_DEADLOCK FALSE
