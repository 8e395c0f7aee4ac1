SPECIFICATION FairSpec
CONSTANTS
  Queries = {q1, q2}
  Companies = {c1}
  Tokens = {t1, t2, t3}
  MaxCandidates = 3
  MaxPages = 2
  CrawlConcurrency = 1
  VerifyConcurrency = 1
  BatchSize = 2
  Limit = 2
  PageLength = 1
PROPERTIES
  DiscoveryEnds
CHECK_DEADLOCK FALSE
