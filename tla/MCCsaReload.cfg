CONSTANTS
  Texts <- TestTexts
  Variants <- PsiVariants
  Rates = {6}
  MaxPattern = 2
SPECIFICATION ReloadSpec
INVARIANT ReadBackReportsSuffixArray
