----------------------------- MODULE CsaInvariant -----------------------------
(***************************************************************************)
(* The inductive invariant of the queries on a loaded index of the         *)
(* psi-based family (CsaLocate): what every register stands for between    *)
(* two steps of a query.                                                   *)
(***************************************************************************)
EXTENDS CsaLocate

RunDataRecord == [pos : Nat, c : Nat, rnk : Nat, isStart : BOOLEAN]
RunRecord == [start : Nat, end : Nat, c : Nat, rnk : Nat, isStart : BOOLEAN]
Frame == [level : Nat, runs : Seq(RunRecord)]

\* Every register has its type, the stack of calls included.
Typed ==
  /\ stage \in {"off", "ready", "search", "toehold", "phi", "answered"}
  /\ op \in {"locate", "count"}
  /\ pat \in Seq(Nat) /\ left \in 0..Len(pat)
  /\ range \in [start : Nat, end : Nat] /\ found \in [start : Nat, end : Nat]
  /\ toehold \in [step : Nat, run : RunDataRecord]
  /\ jump \in [run : RunDataRecord, jumps : Nat]
  /\ frames \in Seq(Frame)
  /\ value \in Nat /\ valid \in BOOLEAN
  /\ out \in Seq(Nat)

-----------------------------------------------------------------------------
(* What the queries take for granted of the index they are asked of. *)

IsSubsampled == ix.kind \in {"sr", "vm", "va"}

\* RunData has a position but in RCSAWithPsiRun, and the run but in SrCSA and RCSAWithBWTRun.
HasPosition == IsSubsampled \/ ix.layout = "position"
HasRun == ix.layout # "position"

HeadOf(k) == ix.run[k].start

\* The index of run k among all runs in the order of the alphabet.
InAlphabet(k) == RunsBelow(ix.run[k].c) + RankInSymbol(k)

\* Where the layout looks the sample of run k up.
HeadAt(k) == IF ix.layout = "position" THEN HeadOf(k) ELSE InAlphabet(k)

HeadSampled(k) == HeadAt(k) \in ix.sampled

\* The head of run k is the suffix l symbols after the one at position p.
HeadAhead(k, l, p) == (sa[p] + l) % ix.n = sa[HeadOf(k)]

\* The samples are those of the heads they are kept for, and from any head fewer
\* than rate psi steps lead to a sampled one.
SamplesAreRight ==
  /\ ix.kind = "r" =>
       \A k \in DOMAIN ix.run :
         (IF ix.layout = "psi" THEN SampleByCharRun(ix.run[k].c, RankInSymbol(k))
          ELSE SampleByRankRun(HeadOf(k))) = TextPos(sa, HeadOf(k))
  /\ IsSubsampled =>
       /\ ix.rate \in Nat \ {0}
       /\ ix.layout = "position" => \A q \in ix.sampled : \E k \in DOMAIN ix.run : HeadOf(k) = q
       /\ \A k \in DOMAIN ix.run : HeadSampled(k) => Sample(HeadAt(k)) = TextPos(sa, HeadOf(k))
       /\ \A k \in DOMAIN ix.run : sa[HeadOf(k)] = 0 => HeadSampled(k)
       /\ \A k \in DOMAIN ix.run : \E m \in DOMAIN ix.run, l \in 0..(ix.rate - 1) :
            HeadSampled(m) /\ HeadAhead(m, l, HeadOf(k))

\* phi gives a text position, and the next entry of the suffix array wherever its
\* result is trusted: in the r-csa everywhere.
PhiIsTrusted ==
  /\ \A v \in DOMAIN sa : Phi(v) \in [value : DOMAIN sa, valid : BOOLEAN]
  /\ ix.kind = "r" => \A v \in DOMAIN sa : Phi(v).valid
  /\ \A p \in DOMAIN sa \ {ix.n - 1} : Phi(sa[p]).valid => Phi(sa[p]).value = sa[p + 1]

\* phi leads to any suffix from which fewer than rate psi steps reach no sampled
\* head: what the limit of the levels stands on.
PhiRightPastSamples ==
  IsSubsampled =>
    \A p \in DOMAIN sa \ {ix.n - 1} :
      (\A k \in DOMAIN ix.run, l \in 0..(ix.rate - 1) : HeadSampled(k) => ~HeadAhead(k, l, p + 1))
        => Phi(sa[p]).value = sa[p + 1]

IndexIsRight ==
  /\ ix.kind \in {"raw", "r", "sr", "vm", "va"} /\ ix.layout \in {"position", "alphabet", "psi"}
  /\ ix.kind = "raw" => ix.layout = "position"
  /\ ix.kind = "r" => ix.layout # "alphabet"
  /\ TextIsIndexed /\ RunsPartition /\ LFIsRight /\ SamplesAreRight
  /\ ix.kind # "raw" => PhiIsTrusted
  /\ PhiRightPastSamples

-----------------------------------------------------------------------------
(* The search. *)

\* The range is exactly the suffixes that start with the symbols searched so far.
RangeIsSuffix ==
  LET occ == Occurrences(text, SubSeq(pat, left + 1, Len(pat)))
  IN \A p \in DOMAIN sa : InRange(range, p) <=> sa[p] \in occ

SearchInv ==
  stage = "search" =>
    /\ pat \in Patterns(text, MaxPattern)
    /\ range.start <= range.end /\ range.end <= ix.n
    /\ left = Len(pat) => range = [start |-> 0, end |-> ix.n] /\ toehold.step = 0
    /\ RangeIsSuffix
    /\ frames = <<>> /\ out = <<>> /\ jump.jumps = 0

\* The run data name the head of run k.  The search says that it is a head, but for
\* the very first one.
NamesHead(rd, k) ==
  /\ HasPosition => rd.pos = HeadOf(k)
  /\ HasRun => rd.c = ix.run[k].c /\ rd.rnk = RankInSymbol(k)
  /\ HasPosition /\ HasRun => rd.isStart \/ HeadOf(k) = 0

\* The toehold data name a head, as many symbols after the suffix at position
\* first as steps of the search, the special one included, have followed.
ToeholdLeads(first, steps) ==
  \E k \in DOMAIN ix.run : NamesHead(toehold.run, k) /\ HeadAhead(k, steps, first)

ToeholdInv ==
  stage = "search" /\ op = "locate" /\ left < Len(pat) /\ ~IsEmpty(range) =>
    toehold.step >= left /\ ToeholdLeads(range.start, toehold.step - left + 1)

-----------------------------------------------------------------------------
(* What the search found. *)

\* The range found is that of the occurrences of the pattern.
FoundInv ==
  stage \in {"toehold", "phi", "answered"} =>
    /\ pat \in Patterns(text, MaxPattern)
    /\ found.start <= found.end /\ found.end <= ix.n
    /\ \A p \in DOMAIN sa : InRange(found, p) <=> sa[p] \in Occurrences(text, pat)

\* The run data of position q are those of its run.
TellsRun(rd, q) ==
  HasRun =>
    /\ rd.c = ix.run[RunAt(q)].c /\ rd.rnk = RankInSymbol(RunAt(q))
    /\ rd.isStart => q = HeadOf(RunAt(q))

\* A sampled head lies at most steps ahead of position q, and it will be asked for.
SampleAhead(rd, q, steps) ==
  \E k \in DOMAIN ix.run, l \in 0..steps :
    HeadSampled(k) /\ HeadAhead(k, l, q) /\ (l = 0 /\ HasRun => rd.isStart)

\* The jumps of ComputeSAValue go on from the head the toehold data name, and there
\* is a sampled head ahead.
JumpInv ==
  stage = "toehold" =>
    /\ op = "locate" /\ ix.kind # "raw" /\ range = found /\ ~IsEmpty(found)
    /\ frames = <<>> /\ out = <<>>
    /\ ix.kind = "r" =>
         jump.run = toehold.run /\ jump.jumps = 0 /\ ToeholdLeads(found.start, toehold.step + 1)
    /\ IsSubsampled =>
         /\ jump.run.pos \in DOMAIN sa
         /\ (sa[found.start] + toehold.step + 1 + jump.jumps) % ix.n = sa[jump.run.pos]
         /\ TellsRun(jump.run, jump.run.pos)
         /\ jump.jumps <= ix.rate
         /\ SampleAhead(jump.run, jump.run.pos, ix.rate - jump.jumps)

-----------------------------------------------------------------------------
(* The walk. *)

\* The position that psi takes to position q in level - 1 steps.
Origin(q, level) == CHOOSE p \in DOMAIN sa : (sa[p] + level - 1) % ix.n = sa[q]

\* The positions that a run visited at a level stands for: an interval.
Lo(run, level) == Origin(run.start, level)
Hi(run, level) == Origin(run.start, level) + (run.end - run.start)

\* psi took neighbours to neighbours, and passed no sampled head on its way.
Image(first, last, level) ==
  \A q \in first .. (last - 1) :
    /\ Origin(q, level) = Origin(first, level) + (q - first)
    /\ \A k \in DOMAIN ix.run, l \in 0..(level - 2) :
         HeadSampled(k) => ~HeadAhead(k, l, Origin(q, level))

\* A run is a piece of the BWT run it names and knows whether it starts at its head;
\* SrCSA does not name it, but no sampled head lies inside.
PieceOf(run) ==
  IF HasRun
  THEN \E k \in DOMAIN ix.run :
         /\ HeadOf(k) <= run.start /\ run.end <= ix.run[k].end
         /\ run.c = ix.run[k].c /\ run.rnk = RankInSymbol(k)
         /\ run.isStart <=> run.start = HeadOf(k)
  ELSE \A q \in ix.sampled : ~(run.start < q /\ q < run.end)

RunIsRight(run, level) ==
  /\ run.start < run.end /\ run.end <= ix.n
  /\ PieceOf(run)
  /\ Image(run.start, run.end, level)

\* The runs of the calls fs stand for the positions from next to last - 1, each in
\* one of them, in the order in which the calls visit them: the last call first,
\* and of each call the runs from the first on.
RunsAreRight(fs) ==
  \A f \in DOMAIN fs :
    /\ fs[f].level \in 1..(ix.rate + 1) /\ fs[f].runs # <<>>
    /\ \A k \in DOMAIN fs[f].runs : RunIsRight(fs[f].runs[k], fs[f].level)

RunsInside(fs, next, last) ==
  \A f \in DOMAIN fs : \A k \in DOMAIN fs[f].runs :
    next <= Lo(fs[f].runs[k], fs[f].level) /\ Hi(fs[f].runs[k], fs[f].level) <= last

RunsOrdered(fs) ==
  \A f, g \in DOMAIN fs : \A k \in DOMAIN fs[f].runs, m \in DOMAIN fs[g].runs :
    g < f \/ (f = g /\ k < m)
      => Hi(fs[f].runs[k], fs[f].level) <= Lo(fs[g].runs[m], fs[g].level)

RunsCover(fs, next, last) ==
  \A p \in next .. (last - 1) : \E f \in DOMAIN fs : \E k \in DOMAIN fs[f].runs :
    Lo(fs[f].runs[k], fs[f].level) <= p /\ p < Hi(fs[f].runs[k], fs[f].level)

StackInv(fs, next, last) ==
  /\ fs \in Seq(Frame)
  /\ RunsAreRight(fs) /\ RunsInside(fs, next, last) /\ RunsOrdered(fs)
  /\ RunsCover(fs, next, last)

\* The values reported so far are right, and what the walk holds is the value of
\* the position it stands at.
WalkInv ==
  stage = "phi" =>
    /\ op = "locate" /\ Len(out) <= found.end - found.start
    /\ found.start < found.end
    /\ ix.kind # "raw" => out # <<>>
    /\ ~IsSubsampled => frames = <<>> /\ range = [start |-> NextPosition, end |-> found.end]
    /\ IsSubsampled => StackInv(frames, NextPosition, found.end)
    /\ ix.kind \in {"r", "sr"} => value = sa[NextPosition - 1]
    /\ HasValidity /\ frames # <<>> =>
         IF valid THEN value = sa[NextPosition] ELSE value = Phi(sa[NextPosition - 1]).value

ReportInv ==
  /\ Len(out) <= found.end - found.start
  /\ ReportsSuffixArray
  /\ stage = "answered" /\ op = "locate" => Len(out) = found.end - found.start

BoundInv == jump.jumps > 0 => stage # "off" /\ jump.jumps <= ix.rate

QueryInv ==
  /\ Typed
  /\ stage # "off" => IndexIsRight
  /\ SearchInv /\ ToeholdInv /\ FoundInv /\ JumpInv /\ WalkInv /\ ReportInv /\ BoundInv

=============================================================================
