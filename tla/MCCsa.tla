-------------------------------- MODULE MCCsa --------------------------------
(* Model checking of Csa on every text up to a length, for every class of   *)
(* the psi-based family.                                                    *)
EXTENDS Csa

CONSTANTS MaxText, Symbols

SmallTexts == UNION {[1..m -> Symbols] : m \in 1..MaxText}

\* The input of test/locate_tests.cpp, "abcabcababc", as symbol ranks: more runs
\* than the small texts have, so that longer stretches of samples are dropped.
TestText == <<1, 2, 3, 1, 2, 3, 1, 2, 1, 2, 3>>

SomeTexts == SmallTexts \cup {TestText}

AllVariants ==
  [kind : {"sr", "vm", "va"}, layout : {"position", "alphabet", "psi"}]
  \cup [kind : {"r"}, layout : {"position", "psi"}]
  \cup [kind : {"raw"}, layout : {"position"}]

=============================================================================
