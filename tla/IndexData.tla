------------------------------ MODULE IndexData ------------------------------
(***************************************************************************)
(* What construction and queries share: the text, its suffix array and the *)
(* index that the one builds and the others read.                          *)
(***************************************************************************)
EXTENDS TextBWT

VARIABLES
  text,     \* the text with its terminator; no query reads it
  sa,       \* its suffix array: read to build, then by a CSARaw and the properties
  ix        \* the index under construction, then loaded

data == <<text, sa, ix>>

-----------------------------------------------------------------------------
(* What both families ask of the BWT, RLEString of the one and the psi of  *)
(* the other.                                                              *)

\* The symbols c before position pos.
Rank(c, pos) == Cardinality({p \in DOMAIN ix.bwt : p < pos /\ ix.bwt[p] = c})

\* The run of a position: rankSoftRun.
RunAt(pos) == CHOOSE k \in DOMAIN ix.run : ix.run[k].start <= pos /\ pos < ix.run[k].end

\* The position of the suffix that is one symbol longer.
LF(p) == ix.C[ix.bwt[p]] + Rank(ix.bwt[p], p)

InRange(rng, p) == rng.start <= p /\ p < rng.end

-----------------------------------------------------------------------------
(* What the queries of both families take for granted of the data.         *)

\* The text, its suffix array and the BWT the index was built from fit together.
TextIsIndexed ==
  /\ ix.n \in Nat \ {0}
  /\ text \in [0..(ix.n - 1) -> Nat]
  /\ \A i \in DOMAIN text : text[i] = 0 <=> i = ix.n - 1
  /\ sa \in [0..(ix.n - 1) -> 0..(ix.n - 1)]
  /\ \A p, q \in DOMAIN sa : sa[p] = sa[q] => p = q
  /\ ix.bwt = BWT(text, sa) /\ ix.C = Cumulative(ix.bwt)

\* The runs lie one after another over the whole BWT, each on one symbol.
RunsPartition ==
  /\ Size(ix.run) \in Nat \ {0}
  /\ ix.run \in [0..(Size(ix.run) - 1) -> [start : Nat, end : Nat, c : Nat]]
  /\ ix.run[0].start = 0 /\ ix.run[Size(ix.run) - 1].end = ix.n
  /\ \A k \in DOMAIN ix.run :
       /\ ix.run[k].start < ix.run[k].end /\ ix.run[k].end <= ix.n
       /\ k > 0 => ix.run[k].start = ix.run[k - 1].end
       /\ \A m \in DOMAIN ix.run : k < m => ix.run[k].end <= ix.run[m].start
       /\ \A p \in ix.run[k].start .. (ix.run[k].end - 1) : ix.bwt[p] = ix.run[k].c

\* LF goes from each suffix to the one that starts a symbol earlier.
LFIsRight == \A p \in DOMAIN sa : LF(p) \in DOMAIN sa /\ sa[LF(p)] = TextPos(sa, p)

=============================================================================
