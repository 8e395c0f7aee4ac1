SPECIFICATION Spec
CONSTANTS
  Requests = {r1, r2}
  Users = {u1}
  Jobs = {j1}
  Lease = 1
  MaxTime = 0
  NoRequest = NoRequest
INVARIANT
  SubmittedOnce
CHECK_DEADLOCK FALSE
