SPECIFICATION FairSpec
CONSTANTS
  Forms <- MCForms
  Names = {"one", "two"}
  NoName = "no name"
  MaxActions = 3
  MaxFailures = 2
  MaxToolCalls = 2
INVARIANTS
  TypeOK
PROPERTIES
  CompleteUnlessAssisted
  
  
  CallEnds
CHECK_DEADLOCK FALSE
