CONSTANTS
  Texts <- SmallTexts
  Symbols = {1, 2}
  MaxText = 3
  MaxPattern = 2
  MaxPatterns = 2
SPECIFICATION Spec
INVARIANT CountsOccurrences
CHECK_DEADLOCK FALSE
