SPECIFICATION FairSpec
CONSTANTS
  r1 = r1
  r2 = r2
  r3 = r3
  Requests <- MCRequests
  Users = {u1}
  Jobs = {j1}
  Lease = 1
  MaxTime = 1
  NoRequest = NoRequest
ACTION_CONSTRAINT ArriveInOrder
INVARIANTS
  TypeOK
  LiveLeaseExclusive
  AppliedIsDurable
  AttemptsInvariant
PROPERTIES
  SuccessIsFinal
  ImplementsLedger
  EveryRequestAnswered
  AbandonedAttemptReleased
CHECK_DEADLOCK FALSE
