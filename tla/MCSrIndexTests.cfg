CONSTANTS
  Texts <- TestTexts
  Symbols = {1, 2}
  MaxText = 7
  Kinds = {"r", "sr", "vm", "va"}
  Rates = {1, 2, 4, 6, 8}
  MaxPattern = 3
INIT SystemInit
NEXT SystemNext
INVARIANTS
  ReportsSuffixArray
  QueryInv
