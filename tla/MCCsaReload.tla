----------------------------- MODULE MCCsaReload -----------------------------
(* Model checking of CsaReload on the input and the rate of the test it     *)
(* quotes, for the classes of sr_csa_psi.h.                                 *)
EXTENDS CsaReload

\* "abcabcababc", as symbol ranks.
TestTexts == {<<1, 2, 3, 1, 2, 3, 1, 2, 1, 2, 3>>}

PsiVariants == [kind : {"sr", "vm", "va"}, layout : {"psi"}]

=============================================================================
