------------------------------ MODULE CliCount ------------------------------
(***************************************************************************)
(* The "count" command of sr-index-cli (test_count in sr-index-cli.cpp):   *)
(* it asks Count for every pattern of a pattern file and prints the total  *)
(* number of occurrences.  Count itself is taken from its contract, the    *)
(* half-open range that Locate!RangeIsSuffix checks.                       *)
(***************************************************************************)
EXTENDS TextBWT, SequencesExt

CONSTANTS
  Texts,        \* The indexed texts, as sequences of positive symbols
  MaxPattern,   \* Bound on the length of a pattern
  MaxPatterns   \* Bound on the number of patterns in the file

VARIABLES
  text, sa,    \* the indexed text and its suffix array
  todo,        \* patterns of pat_list not asked yet
  asked,       \* patterns asked
  accCount     \* acc_count

vars == <<text, sa, todo, asked, accCount>>

\* Count: the half-open range of the suffixes that start with p; its limits
\* are equal if there are none.
Count(p) ==
  LET inRange == {q \in DOMAIN sa : sa[q] \in Occurrences(text, p)}
  IN IF inRange = {} THEN [first |-> 0, second |-> 0]
     ELSE [first  |-> CHOOSE q \in inRange : \A x \in inRange : q <= x,
           second |-> 1 + CHOOSE q \in inRange : \A x \in inRange : x <= q]

\* file2pat_list: patterns of one length.
Init ==
  /\ \E s \in Texts : text = WithSentinel(s)
  /\ sa = SuffixArray(text)
  /\ \E m \in 1..MaxPattern :
       todo \in SeqOf({p \in Patterns(text, MaxPattern) : Len(p) = m}, MaxPatterns)
  /\ asked = <<>> /\ accCount = 0

\* One iteration of the loop: acc_count += ans.second - ans.first + 1.
CountPattern ==
  /\ todo # <<>>
  /\ LET ans == Count(Head(todo))
     IN accCount' = accCount + ans.second - ans.first + 1
  /\ asked' = Append(asked, Head(todo))
  /\ todo' = Tail(todo)
  /\ UNCHANGED <<text, sa>>

Next == CountPattern

Spec == Init /\ [][Next]_vars

-----------------------------------------------------------------------------

\* README.md: "The count operation returns the number of times a pattern occurs
\* in the text".  The command prints the sum over its patterns.
CountsOccurrences ==
  accCount = FoldLeft(LAMBDA total, p : total + Cardinality(Occurrences(text, p)), 0, asked)

=============================================================================
