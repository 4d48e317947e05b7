---------------------------- MODULE MCIndexStream ----------------------------
(* Model checking of IndexStream: every class of both families.              *)
EXTENDS IndexStream, TLC

AllVariants ==
  [layout : {"bwt", "psi"}, kind : {"r", "sr", "vm", "va"}]
  \cup [layout : {"position"}, kind : {"raw", "r", "sr", "vm", "va"}]
  \cup [layout : {"alphabet"}, kind : {"sr", "vm", "va"}]

ObjectsAndTexts == Permutations(Objects) \cup Permutations(Inputs)

=============================================================================
