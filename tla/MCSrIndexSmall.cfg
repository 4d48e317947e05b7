CONSTANTS
  Texts <- SmallTexts
  Symbols = {1, 2}
  MaxText = 8
  Kinds = {"r", "sr", "vm", "va"}
  Rates = {2, 3, 5}
  MaxPattern = 2
INIT SystemInit
NEXT SystemNext
INVARIANTS
  SystemTypeOK
  LoopsCalledLegally
  ExtremeMarksSurvive
  SampleWithinRate
  LoadedIndexIsRight
  RangeIsSuffix
  ReportsSuffixArray
  PendingIsRest
  TrustIsRight
  ToeholdBounded
