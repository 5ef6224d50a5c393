CONSTANTS
  a = a
  b = b
  a1 = a1
  a2 = a2
  b1 = b1
  Msgs <- MCMsgs
  Copies <- MCCopies
  MsgOf <- MCMsgOf
  Poison <- MCPoison
  Consumers = {k1, k2}
  NoCopy = NoCopy
  RetryLimit = 1
  MaxDrops = 1
SPECIFICATION FairSpec
INVARIANTS
  NothingLost
  DeadAfterRetries
  HandledOnce
  IInv
PROPERTY
  EventuallySettled
CHECK_DEADLOCK FALSE
