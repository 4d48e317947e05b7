------------------------------- MODULE TextBWT -------------------------------
(***************************************************************************)
(* The data an index is built from: the text with its terminator, its      *)
(* suffix array, its Burrows-Wheeler transform and the runs of the BWT.    *)
(* Arrays are functions on 0..n-1, as in the code; ranges are half-open.   *)
(***************************************************************************)
EXTENDS Integers, FiniteSets, Sequences

Size(a) == Cardinality(DOMAIN a)

\* constructText appends symbol 0 to the input and rejects it anywhere else.
WithSentinel(s) ==
  [i \in 0..Len(s) |-> IF i = Len(s) THEN 0 ELSE s[i + 1]]

\* The elements of a finite set of integers in increasing order.
Ascending(S) ==
  [k \in 0..(Cardinality(S) - 1) |-> CHOOSE x \in S : Cardinality({y \in S : y < x}) = k]

\* sortIndices: the indices of the (distinct) values, by increasing value.
SortIndices(a) ==
  [k \in DOMAIN a |->
     CHOOSE i \in DOMAIN a : Cardinality({j \in DOMAIN a : a[j] < a[i]}) = k]

-----------------------------------------------------------------------------

\* Suffix i of t is smaller than suffix j; the terminator ends every comparison.
SuffixLess(t, i, j) ==
  \E k \in 0..(Size(t) - 1) :
    /\ i + k \in DOMAIN t /\ j + k \in DOMAIN t
    /\ t[i + k] < t[j + k]
    /\ \A m \in 0..(k - 1) : t[i + m] = t[j + m]

SuffixArray(t) ==
  LET isa == [i \in DOMAIN t |-> Cardinality({j \in DOMAIN t : SuffixLess(t, j, i)})]
  IN [p \in DOMAIN t |-> CHOOSE i \in DOMAIN t : isa[i] = p]

\* char2comp: the rank of a symbol of the text among the symbols it uses.  Only
\* symbols of the text are looked up here.
Comp(t, c) == Cardinality({t[i] : i \in {j \in DOMAIN t : t[j] < c}})

\* Text position of the p-th BWT symbol.
TextPos(sa, p) == IF 0 < sa[p] THEN sa[p] - 1 ELSE Size(sa) - 1

BWT(t, sa) == [p \in DOMAIN sa |-> Comp(t, t[TextPos(sa, p)])]

\* The cumulative counts of the alphabet, C[sigma] being the text size.
Cumulative(bwt) ==
  [c \in 0..Cardinality({bwt[p] : p \in DOMAIN bwt}) |->
     Cardinality({p \in DOMAIN bwt : bwt[p] < c})]

\* The maximal runs of equal symbols, each with its half-open extent.
RunsOf(bwt) ==
  LET n     == Size(bwt)
      heads == Ascending({p \in DOMAIN bwt : p = 0 \/ bwt[p] # bwt[p - 1]})
      tails == Ascending({p \in DOMAIN bwt : p = n - 1 \/ bwt[p] # bwt[p + 1]})
  IN [k \in DOMAIN heads |->
        [start |-> heads[k], end |-> tails[k] + 1, c |-> bwt[heads[k]]]]

-----------------------------------------------------------------------------

\* The non-empty patterns of at most max symbols over the symbols of t.
Patterns(t, max) ==
  UNION {[1..m -> {t[i] : i \in DOMAIN t} \ {0}] : m \in 1..max}

\* The positions of t where pattern p occurs: what every query is about.
Occurrences(t, p) ==
  {i \in DOMAIN t : \A k \in DOMAIN p : i + k - 1 \in DOMAIN t /\ t[i + k - 1] = p[k]}

=============================================================================
