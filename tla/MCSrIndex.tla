------------------------------ MODULE MCSrIndex ------------------------------
(* Model checking of SrIndex on every text up to a length, and on the texts *)
(* of the repository's tests.                                               *)
EXTENDS SrIndex, LocateInvariant

CONSTANTS MaxText, Symbols

SmallTexts == UNION {[1..m -> Symbols] : m \in 1..MaxText}

\* The inputs of test/locate_tests.cpp and test/sampling_test.cpp,
\* "abcabcababc" and "alabaralaalabarda", as symbol ranks.
TestTexts ==
  {<<1, 2, 3, 1, 2, 3, 1, 2, 1, 2, 3>>,
   <<1, 4, 1, 2, 1, 5, 1, 4, 1, 1, 4, 1, 2, 1, 5, 3, 1>>}

=============================================================================
