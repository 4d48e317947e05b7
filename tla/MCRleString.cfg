SPECIFICATION Spec
CONSTANTS
  Alphabet = {1, 2, 3}
  MaxLength = 6
  Strings <- MCStrings
  Blocks = {1, 2, 3}
INVARIANTS
  AnswersAsTheString
  RunDataIsRight
  RangesSplitWhereRunsEnd
\* Construction ends; queries change nothing.
CHECK_DEADLOCK FALSE
