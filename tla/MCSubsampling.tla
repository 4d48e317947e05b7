---------------------------- MODULE MCSubsampling ----------------------------
(* Model checking of Subsampling: every strictly monotone list of text      *)
(* positions below MaxText, in both directions, with every rate up to       *)
(* MaxRate and at most two required samples, as sr_index.h passes.          *)
EXTENDS Subsampling, FiniteSets

CONSTANTS MaxText, MaxRate

AscendingSeq(S) ==
  [i \in 1..Cardinality(S) |-> CHOOSE x \in S : Cardinality({y \in S : y < x}) = i - 1]
DescendingSeq(S) ==
  [i \in 1..Cardinality(S) |-> CHOOSE x \in S : Cardinality({y \in S : y > x}) = i - 1]

ScanOrders == UNION {{AscendingSeq(S), DescendingSeq(S)} : S \in SUBSET (0..MaxText - 1)}

MCJobs ==
  {[s |-> rate, v |-> order, req |-> {a, b} \cap DOMAIN order] :
     rate \in 1..MaxRate, order \in ScanOrders, a, b \in 1..MaxText}

=============================================================================
