SPECIFICATION Spec
CONSTANTS
  Alphabet = {1, 2}
  MaxText = 8
  Texts <- MCTexts
  Dens = 4
INVARIANTS
  PointQueriesAgree
  RunQueriesAgree
  RangesSplitExactly
\* Construction ends; queries change nothing.
CHECK_DEADLOCK FALSE
