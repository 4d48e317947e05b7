----------------------------- MODULE LocateSpec -----------------------------
(***************************************************************************)
(* What an index promises (README.md, "locate" and "count"): a Locate      *)
(* query reports every occurrence of the pattern in the text, each of them *)
(* once and nothing else; a Count query returns their number.  The order   *)
(* of the reports is left open.                                            *)
(***************************************************************************)
EXTENDS TextBWT

CONSTANT MaxPattern   \* Bound on the length of a pattern

VARIABLES
  text,     \* the indexed text, which no query changes
  state,    \* "idle" or the kind of the query being answered
  pat,      \* the pattern asked for
  out,      \* the values reported so far
  count     \* the answer of the last Count query

vars == <<text, state, pat, out, count>>

Reported == {out[k] : k \in DOMAIN out}

Init == state = "idle" /\ out = <<>> /\ count = 0

Query ==
  /\ state = "idle"
  /\ state' \in {"locate", "count"}
  /\ pat' \in Patterns(text, MaxPattern)
  /\ out' = <<>> /\ count' = 0
  /\ UNCHANGED text

Report ==
  /\ state = "locate"
  /\ \E v \in Occurrences(text, pat) \ Reported : out' = Append(out, v)
  /\ UNCHANGED <<text, state, pat, count>>

AnswerLocate ==
  /\ state = "locate" /\ Reported = Occurrences(text, pat)
  /\ state' = "idle"
  /\ UNCHANGED <<text, pat, out, count>>

AnswerCount ==
  /\ state = "count"
  /\ count' = Cardinality(Occurrences(text, pat))
  /\ state' = "idle"
  /\ UNCHANGED <<text, pat, out>>

Next == Query \/ Report \/ AnswerLocate \/ AnswerCount

Spec == Init /\ [][Next]_vars

=============================================================================
