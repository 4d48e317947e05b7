CONSTANTS
  Variants <- SomeVariants
  Rates = {s, t}
  NoRate = none
  MaxBuilds = 3
  MaxStops = 1
SPECIFICATION Spec
SYMMETRY RateSymmetry
INVARIANTS
  OnlyTornStagesHurt
  BuiltStaysBuilt
CHECK_DEADLOCK FALSE
