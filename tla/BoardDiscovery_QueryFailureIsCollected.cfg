SPECIFICATION Spec
CONSTANTS
  Queries = {q1, q2}
  Companies = {c1}
  Tokens = {t1, t2, t3, t4}
  MaxCandidates = 3
  MaxPages = 2
  CrawlConcurrency = 2
  VerifyConcurrency = 1
  BatchSize = 2
  Limit = 2
  PageLength = 2
SYMMETRY Symmetry
INVARIANTS
  QueryFailureIsCollected
CHECK_DEADLOCK FALSE
