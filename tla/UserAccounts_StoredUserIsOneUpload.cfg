SPECIFICATION Spec
CONSTANTS
  a1 = a1
  a2 = a2
  e1 = e1
  e2 = e2
  p1 = p1
  p2 = p2
  s1 = s1
  s2 = s2
  Requests = {r1, r2}
  OldUsers <- MCOldUsers
  Emails = {e1, e2, e3}
  Profiles = {p1, p2}
  Resumes = {s1, s2}
  NoRow = NoRow
INVARIANT
  StoredUserIsOneUpload
CHECK_DEADLOCK FALSE
