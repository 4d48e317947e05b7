CONSTANTS
  Jobs <- MCLegalJobs
  MaxText = 7
SPECIFICATION FairSpec
INVARIANTS
  TypeOK
  ReadsInBounds
  ReportsSound
  ReportsComplete
PROPERTIES
  Terminates
CHECK_DEADLOCK FALSE
