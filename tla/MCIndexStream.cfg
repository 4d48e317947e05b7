CONSTANTS
  Variants <- AllVariants
  Rates = {2, 3}
  Inputs = {t1, t2}
  Objects = {x, y}
  Shared = shared
  MaxLoads = 2
SPECIFICATION Spec
SYMMETRY ObjectsAndTexts
INVARIANTS
  WholeIndex
CHECK_DEADLOCK FALSE
