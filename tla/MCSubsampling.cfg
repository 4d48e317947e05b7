CONSTANTS
  Jobs <- MCJobs
  MaxText = 7
  MaxRate = 4
SPECIFICATION FairSpec
INVARIANTS
  TypeOK
  GapBounded
  ExtremesKept
  Sparse
PROPERTIES
  Terminates
CHECK_DEADLOCK FALSE
