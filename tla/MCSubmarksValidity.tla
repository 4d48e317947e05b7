-------------------------- MODULE MCSubmarksValidity --------------------------
(* Model checking of SubmarksValidity: every set of marks in a text of      *)
(* MaxText positions, with every subset of it that holds the first mark.    *)
EXTENDS SubmarksValidity, FiniteSets

CONSTANT MaxText

AscendingSeq(S) ==
  [k \in 1..Cardinality(S) |-> CHOOSE x \in S : Cardinality({y \in S : y < x}) = k - 1]

First(S) == CHOOSE x \in S : \A y \in S : x <= y

MCJobs ==
  {[marks |-> AscendingSeq(M \cup S), submarks |-> AscendingSeq(S)] :
     M \in SUBSET (0..MaxText - 1), S \in SUBSET (0..MaxText - 1) \ {{}}}

\* Enumerating marks as M \cup S also yields lists whose first mark was
\* dropped; only those whose first mark survives are legal.
MCLegalJobs == {call \in MCJobs : call.marks[1] = call.submarks[1]}

=============================================================================
