CONSTANTS
  Texts <- SomeTexts
  Symbols = {1, 2}
  MaxText = 6
  Variants <- AllVariants
  Rates = {1, 2, 3}
  MaxPattern = 3
SPECIFICATION Spec
INVARIANTS
  LoopsCalledLegally
  PhiRightWhenTrusted
  ReportsSuffixArray
  PendingIsRest
  ToeholdBounded
PROPERTIES
  ImplementsPromise
