CONSTANTS
  Texts <- SmallTexts
  Symbols = {1, 2}
  MaxText = 5
  Kinds = {"r", "sr", "vm", "va"}
  Rates = {2, 3}
  MaxPattern = 3
SPECIFICATION FairSpec
PROPERTIES
  ImplementsPromise
  Builds
  Answers
