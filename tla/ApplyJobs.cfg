SPECIFICATION FairSpec
CONSTANTS
  MaxTabs = 3
  MaxJobs = 2
  MaxCalls = 4
INVARIANTS
  TypeOK
  ReportedTabIsCurrent
  AppliedMeansAnswered
PROPERTIES
  SwitchFindsListedTab
  BatchEnds
CHECK_DEADLOCK FALSE
