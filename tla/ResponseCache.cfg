SPECIFICATION FairSpec
CONSTANTS
  c1 = c1
  c2 = c2
  c3 = c3
  Calls = {c1, c2, c3}
  Keys = {k1, k2}
  Home <- MCHome
  TTLs = {0, 1, Forever}
  Forever = Forever
  Nobody = Nobody
  Bare = {k1}
  MaxTime = 1
INVARIANTS
  TypeOK
  TornOnlyWhileWriting
  LostResultHasCause
PROPERTIES
  HitsAreFresh
  EveryCallEnds
  ImplementsMemo
CHECK_DEADLOCK FALSE
