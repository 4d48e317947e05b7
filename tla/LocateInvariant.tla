--------------------------- MODULE LocateInvariant ---------------------------
(***************************************************************************)
(* The inductive invariant of the queries on a loaded index (Locate): what *)
(* every register stands for between two steps of a query.                 *)
(***************************************************************************)
EXTENDS Locate

RunRecord == [start : Nat, end : Nat, rnk : Nat, isEnd : BOOLEAN]
Frame == [level : Nat, runs : Seq(RunRecord)]

\* Every register has its type, the stack of calls included.
Typed ==
  /\ stage \in {"off", "ready", "search", "toehold", "phi", "answered"}
  /\ op \in {"locate", "count"}
  /\ pat \in Seq(Nat) /\ left \in 0..Len(pat)
  /\ range \in [start : Nat, end : Nat] /\ found \in [start : Nat, end : Nat]
  /\ toehold \in [step : Nat, c : Nat, rnk : Nat, next : Nat]
  /\ jump \in [rnk : Nat, isEnd : BOOLEAN, next : Nat, jumps : Nat]
  /\ frames \in Seq(Frame)
  /\ \A f \in DOMAIN frames : \A k \in DOMAIN frames[f].runs : ~IsEmpty(frames[f].runs[k])
  /\ value \in Nat /\ valid \in BOOLEAN
  /\ out \in Seq(Nat)

-----------------------------------------------------------------------------
(* The search. *)

\* The range holds the suffixes that start with the symbols searched so far.
SearchInv ==
  stage = "search" =>
    /\ pat \in Patterns(text, MaxPattern)
    /\ range.start <= range.end /\ range.end <= ix.n
    /\ left = Len(pat) => range = [start |-> 0, end |-> ix.n] /\ toehold.step = 0
    /\ RangeIsSuffix
    /\ frames = <<>> /\ out = <<>> /\ jump.jumps = 0

\* The toehold data t lead to the position last: they name a run whose
\* tail LF takes to toehold.next, and the suffix there starts as many symbols after
\* that of last as steps of the search have followed.
RunNamed(t) == SelectOnRuns(t.rnk, t.c)

ToeholdLeads(t, last, steps) ==
  /\ RunNamed(t) \in DOMAIN ix.run
  /\ t.next = LF(TailOf(RunNamed(t)))
  /\ (sa[last] + steps) % ix.n = sa[t.next]

ToeholdInv ==
  stage = "search" /\ op = "locate" /\ left < Len(pat) /\ ~IsEmpty(range) =>
    toehold.step >= left /\ ToeholdLeads(toehold, range.end - 1, toehold.step - left)

-----------------------------------------------------------------------------
(* What the search found. *)

\* The range found is that of the occurrences of the pattern.
FoundInv ==
  stage \in {"toehold", "phi", "answered"} =>
    /\ pat \in Patterns(text, MaxPattern)
    /\ found.start <= found.end /\ found.end <= ix.n
    /\ \A p \in DOMAIN sa : InRange(found, p) <=> sa[p] \in Occurrences(text, pat)

\* The jumps of ComputeSAValue go back from the tail the toehold data name, past
\* tails that are not sampled.
JumpInv ==
  stage = "toehold" =>
    /\ op = "locate" /\ range = found /\ ~IsEmpty(found) /\ frames = <<>> /\ out = <<>>
    /\ ToeholdLeads(toehold, found.end - 1, toehold.step)
    /\ jump.next \in DOMAIN sa /\ (sa[jump.next] + jump.jumps) % ix.n = sa[toehold.next]
    /\ jump.isEnd => jump.rnk \in DOMAIN ix.run /\ jump.next = LF(TailOf(jump.rnk))
    /\ ix.kind = "r" => jump.isEnd /\ jump.jumps = 0
    /\ ~jump.isEnd => \A k \in DOMAIN ix.run : jump.next # LF(TailOf(k))
    /\ \A k \in ix.sampled, l \in 0..(jump.jumps - 1) :
         ~TailBehind(k, l, TailOf(RunNamed(toehold)))

-----------------------------------------------------------------------------
(* The walk. *)

\* The position that LF takes to position q in level steps.
Origin(q, level) == CHOOSE p \in DOMAIN sa : sa[p] = (sa[q] + level) % ix.n

\* The positions that a run visited at a level stands for: an interval.
Lo(run, level) == Origin(run.start, level)
Hi(run, level) == Origin(run.start, level) + (run.end - run.start)

\* LF took neighbours to neighbours in level steps, and passed no sampled tail.
Image(first, last, level) ==
  \A q \in first .. (last - 1) :
    /\ Origin(q, level) = Origin(first, level) + (q - first)
    /\ \A k \in ix.sampled, l \in 0..(level - 1) : ~TailBehind(k, l, Origin(q, level))

\* A run visited below the limit is a piece of the BWT run it names, and knows
\* whether it ends with its tail.
PieceOf(run) ==
  /\ run.rnk \in DOMAIN ix.run
  /\ ix.run[run.rnk].start <= run.start /\ run.end <= ix.run[run.rnk].end
  /\ run.isEnd <=> run.end = ix.run[run.rnk].end

RunIsRight(run, level) ==
  /\ run.start < run.end /\ run.end <= ix.n
  /\ level < ix.rate => PieceOf(run)
  /\ Image(run.start, run.end, level)

\* The runs of the calls fs stand for the positions from first to next, each in
\* one of them, in the order in which the calls visit them (the last one first).
RunsAreRight(fs) ==
  \A f \in DOMAIN fs :
    /\ fs[f].level <= ix.rate /\ fs[f].runs # <<>>
    /\ \A k \in DOMAIN fs[f].runs : RunIsRight(fs[f].runs[k], fs[f].level)

RunsInside(fs, first, next) ==
  \A f \in DOMAIN fs : \A k \in DOMAIN fs[f].runs :
    first <= Lo(fs[f].runs[k], fs[f].level) /\ Hi(fs[f].runs[k], fs[f].level) <= next + 1

RunsOrdered(fs) ==
  \A f, g \in DOMAIN fs : \A k \in DOMAIN fs[f].runs, m \in DOMAIN fs[g].runs :
    f < g \/ (f = g /\ k < m)
      => Hi(fs[f].runs[k], fs[f].level) <= Lo(fs[g].runs[m], fs[g].level)

RunsCover(fs, first, next) ==
  \A p \in first .. next : \E f \in DOMAIN fs : \E k \in DOMAIN fs[f].runs :
    Lo(fs[f].runs[k], fs[f].level) <= p /\ p < Hi(fs[f].runs[k], fs[f].level)

StackInv(fs, first, next) ==
  /\ fs \in Seq(Frame)
  /\ RunsAreRight(fs) /\ RunsInside(fs, first, next) /\ RunsOrdered(fs)
  /\ RunsCover(fs, first, next)

\* The values reported so far are right, and what the walk holds is the value of
\* the position it stands at.
WalkInv ==
  stage = "phi" =>
    /\ op = "locate" /\ Len(out) \in 1..(found.end - found.start)
    /\ value \in DOMAIN sa
    /\ ix.kind = "r" =>
         /\ frames = <<>> /\ value = sa[NextPosition + 1]
         /\ range.start <= range.end
         /\ range.end - range.start = NextPosition + 1 - found.start
    /\ ix.kind # "r" => StackInv(frames, found.start, NextPosition)
    /\ ix.kind = "sr" => value = sa[NextPosition + 1]
    /\ HasValidity /\ frames # <<>> =>
         IF valid THEN value = sa[NextPosition] ELSE value = Phi(sa[NextPosition + 1]).value

ReportInv ==
  /\ Len(out) <= found.end - found.start
  /\ ReportsSuffixArray
  /\ stage = "answered" /\ op = "locate" => Len(out) = found.end - found.start

BoundInv == jump.jumps > 0 => stage # "off" /\ jump.jumps < ix.rate

QueryInv ==
  /\ Typed
  /\ stage # "off" => IndexIsRight
  /\ SearchInv /\ ToeholdInv /\ FoundInv /\ JumpInv /\ WalkInv /\ ReportInv /\ BoundInv

=============================================================================
