SPECIFICATION Spec
CONSTANTS
  Requests = {r1, r2}
  Users = {u1}
  Jobs = {j1}
  Lease = 1
  MaxTime = 2
  NoRequest = NoRequest
PROPERTY
  FailedAttemptsAreHistory
CHECK_DEADLOCK FALSE
