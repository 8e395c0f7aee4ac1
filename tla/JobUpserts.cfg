SPECIFICATION FairSpec
CONSTANTS
  Writers = {w1, w2}
  Urls = {u1, u2, u3}
  NoRow = NoRow
  BatchLimit = 2
  MaxRows = 3
INVARIANTS
  TypeOK
  AnsweredRowsStored
  UpsertsInvariant
PROPERTIES
  EveryWriterEnds
  ImplementsAtomicUpserts
CHECK_DEADLOCK FALSE
