----------------------------- MODULE MCBuildCache -----------------------------
(* Model checking of BuildCache: one directory shared by classes of every    *)
(* layout, the largest of each, at two rates that only their names tell apart. *)
EXTENDS BuildCache, TLC

SomeVariants ==
  {[layout |-> "bwt", kind |-> "va"], [layout |-> "position", kind |-> "r"],
   [layout |-> "position", kind |-> "va"], [layout |-> "alphabet", kind |-> "sr"],
   [layout |-> "psi", kind |-> "va"]}

RateSymmetry == Permutations(Rates)

=============================================================================
