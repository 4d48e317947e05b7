------------------------------ MODULE CsaLocate ------------------------------
(***************************************************************************)
(* Queries on a loaded index of the psi-based family (CsaBuild).  The      *)
(* backward search keeps the first position of its range, whose value is   *)
(* the toehold; the rest of the range is walked from left to right with    *)
(* phi forward and the images of the BWT runs under psi (PhiForwardForRange *)
(* and PhiForwardForRangeWithValidity, phi.h).                             *)
(*                                                                         *)
(* What PsiCoreRLE answers (rank and select with their reports, splits and *)
(* forward runs) is stated on the runs of the BWT; module Psi shows that   *)
(* the structure answers so.                                               *)
(***************************************************************************)
EXTENDS IndexData, SequencesExt, FiniteSetsExt

CONSTANT MaxPattern   \* Bound on the length of a pattern

ASSUME PatternAssumption == MaxPattern \in Nat

VARIABLES
  stage,    \* where the query is: "off" (no index), "ready", "search",
            \* "toehold", "phi" or "answered"
  op,       \* "locate" or "count"
  pat,      \* the pattern
  left,     \* symbols of the pattern not searched yet; the code's i is left - 1
  range,    \* the current range of the suffix array
  toehold,  \* the step and the run of the last special backward-search step
  jump,     \* the run data and n_jumps of ComputeSAValue
  frames,   \* the calls of the recursion of compute that are pending
  value,    \* t_prev_value, or t_value.first
  valid,    \* t_value.second
  out,      \* the values reported
  found     \* the range the backward search ended with

query == <<op, pat>>
vars == <<data, stage, query, left, range, toehold, jump, frames, value, valid, out, found>>

-----------------------------------------------------------------------------
(* Navigation with psi.                                                    *)

\* The index of run k among the runs of its symbol: a partial rank.
RankInSymbol(k) == Cardinality({m \in DOMAIN ix.run : m < k /\ ix.run[m].c = ix.run[k].c})

CForSAIndex(p) == Cardinality({c \in DOMAIN ix.C : ix.C[c] <= p}) - 1

\* Psi with psi_select: the position of the next suffix in the text.
PsiAt(p) ==
  LET c == CForSAIndex(p)
  IN CHOOSE q \in DOMAIN ix.bwt : ix.bwt[q] = c /\ Rank(c, q) = p - ix.C[c]

\* psi_rank's report: the run of c with the position, or the next run of c; past
\* the last one the text size.
NextRun(c, pos) ==
  LET ahead == {k \in DOMAIN ix.run : ix.run[k].c = c /\ ix.run[k].end > pos}
  IN IF ahead = {} THEN [start |-> ix.n, end |-> ix.n, rnk |-> 0]
     ELSE [start |-> ix.run[Min(ahead)].start, end |-> ix.run[Min(ahead)].end,
           rnk |-> RankInSymbol(Min(ahead))]

\* The LF step of constructLF; the run of the start of the range comes along.
LFRange(rng, c) ==
  [start |-> ix.C[c] + Rank(c, rng.start),
   end   |-> ix.C[c] + Rank(c, rng.end),
   run   |-> NextRun(c, rng.start)]

-----------------------------------------------------------------------------
(* Samples and phi.                                                        *)

NoSample == -1

\* The number of runs of the symbols below c.
RunsBelow(c) == IF 0 < c THEN ix.cumRuns[c - 1] ELSE 0

\* The samples are stored in the order of what is marked as sampled.
Sample(at) == ix.samples[Cardinality({k \in ix.sampled : k < at})]

\* SrCSA looks the position up.
SampleAtPosition(pos) == IF pos \in ix.sampled THEN Sample(pos) ELSE NoSample

\* Faulty: the partial rank is counted from the runs of c, not below it.
FaultySampleOfHead(p) ==
  LET idx == ix.cumRuns[p.c] + p.rnk
  IN IF p.isStart /\ idx \in ix.sampled THEN Sample(idx) ELSE NoSample

\* The others look up the run, only when they stand at its head.
SampleOfHead(p) ==
  LET idx == RunsBelow(p.c) + p.rnk
  IN IF p.isStart /\ idx \in ix.sampled THEN Sample(idx) ELSE NoSample

\* constructGetSampleForRunData.
GetSample(p) == IF ix.layout = "position" THEN SampleAtPosition(p.pos) ELSE SampleOfHead(p)

\* get_sa_value_for_bwt_run_start of the r-csa: by the rank of the run in the BWT,
\* or by its rank among the runs of its symbol.
SampleByRankRun(pos) == ix.samples[Cardinality({k \in DOMAIN ix.run : ix.run[k].start < pos})]
SampleByCharRun(c, rnk) == ix.samples[RunsBelow(c) + rnk]

SampleOfRun(p) ==
  IF ix.layout = "psi" THEN SampleByCharRun(p.c, p.rnk) ELSE SampleByRankRun(p.pos)

\* Faulty: the successor is strictly greater.
FaultySoftSuccessor(v) ==
  Cardinality({o \in DOMAIN ix.marks : ix.marks[o] <= v}) % Size(ix.marks)

\* CircularSoftSuccessor over the marks: the first mark not before v, or the
\* first mark of all.
SoftSuccessor(v) ==
  Cardinality({o \in DOMAIN ix.marks : ix.marks[o] < v}) % Size(ix.marks)

\* The bit of a mark among VALID_MARKS.
MarkIsValid(o) == o \notin ix.invalid

\* get_mark_to_sample_idx: a mark is always valid in the r-csa, never in SrCSA.
InitialValidity(o) ==
  CASE ix.kind = "r"  -> TRUE
    [] ix.kind = "sr" -> FALSE
    [] ix.kind \in {"vm", "va"} -> MarkIsValid(o)

\* SampleValidator.  An unsigned delta of a mark before the value exceeds any area.
InArea(o, delta) ==
  0 <= delta /\ delta < ix.area[Cardinality({x \in ix.invalid : x < o})]

\* The validators: SampleValidatorDefault keeps the initial validity.
Validate(o, delta) ==
  InitialValidity(o) \/ (ix.kind = "va" /\ InArea(o, delta))

\* GetSampleForPhi: the sample of a mark and its validity.
SampleForPhi(o, delta) ==
  [sample |-> ix.samples[ix.markToSample[o]], valid |-> Validate(o, delta)]

\* PhiForward: the suffix-array value after v, and whether it is trusted.
Phi(v) ==
  LET o     == SoftSuccessor(v)
      delta == ix.marks[o] - v
      s     == SampleForPhi(o, delta)
  IN [value |-> (s.sample + ix.n - delta) % ix.n, valid |-> s.valid]

\* phi_simple.
PhiSimple(v) == Phi(v).value

-----------------------------------------------------------------------------
(* Ranges of the suffix array split in runs, first to last.                *)

\* The piece of run k of the BWT inside [first, last).
Piece(k, first, last) ==
  [start |-> Max({first, ix.run[k].start}), end |-> Min({last, ix.run[k].end}),
   c |-> ix.run[k].c, rnk |-> RankInSymbol(k), isStart |-> first <= ix.run[k].start]

IsEmpty(rng) == ~(rng.start < rng.end)

\* SrCSA cuts a range only where a sub-sampled run starts; the symbol and the rank
\* are not kept there.
SplitAtSamples(first, last) ==
  LET cuts == Ascending({first} \cup {p \in ix.sampled : first < p /\ p < last})
  IN [k \in 1..Size(cuts) |->
        [start |-> cuts[k - 1], end |-> IF k = Size(cuts) THEN last ELSE cuts[k],
         c |-> 0, rnk |-> 0, isStart |-> FALSE]]

\* splitInSortedRuns: the BWT runs of the range, cut to it.
SplitInRuns(first, last) ==
  [k \in 1..(RunAt(last - 1) - RunAt(first) + 1) |-> Piece(RunAt(first) + k - 1, first, last)]

SplitRange(rng) ==
  IF ix.layout = "position" THEN SplitAtSamples(rng.start, rng.end)
  ELSE SplitInRuns(rng.start, rng.end)

\* Where the images of the positions in [first, last) are cut: at every new symbol
\* (constructSplitRunInBWTRuns) and at every new BWT run (computeForwardRuns).
Cuts(first, last) ==
  {q \in first .. (last - 1) :
     \/ q = first
     \/ CForSAIndex(q) # CForSAIndex(q - 1)
     \/ RunAt(PsiAt(q)) # RunAt(PsiAt(q - 1))}

\* The images between two cuts follow one another inside one BWT run.
ForwardRuns(first, last) ==
  LET cuts == Ascending(Cuts(first, last))
      next(k) == IF k = Size(cuts) THEN last ELSE cuts[k]
  IN [k \in 1..Size(cuts) |->
        Piece(RunAt(PsiAt(cuts[k - 1])), PsiAt(cuts[k - 1]), PsiAt(next(k) - 1) + 1)]

\* Faulty: the symbols after the first are forgotten.
FaultySplitRun(run) == ForwardRuns(run.start, Min({run.end, ix.C[CForSAIndex(run.start) + 1]}))

\* constructSplitRunInBWTRuns: the psi images of the run, symbol by symbol, in the
\* BWT runs they fall into.
SplitRun(run) == ForwardRuns(run.start, run.end)

-----------------------------------------------------------------------------
(* The query and its backward search.                                      *)

NoRun == [pos |-> 0, c |-> 0, rnk |-> 0, isStart |-> FALSE]
NoToehold == [step |-> 0, run |-> NoRun]
NoJump == [run |-> NoRun, jumps |-> 0]
NoRange == [start |-> 0, end |-> 0]

Init ==
  /\ stage = "off"
  /\ op = "count" /\ pat = <<>> /\ left = 0
  /\ range = NoRange /\ toehold = NoToehold /\ jump = NoJump
  /\ frames = <<>> /\ value = 0 /\ valid = FALSE
  /\ out = <<>> /\ found = NoRange

\* Locate(pattern) or Count(pattern) is called.
Query ==
  /\ stage \in {"ready", "answered"}
  /\ op' \in {"locate", "count"}
  /\ pat' \in Patterns(text, MaxPattern)
  /\ left' = Len(pat')
  /\ range' = [start |-> 0, end |-> ix.n]
  /\ stage' = "search"
  /\ toehold' = NoToehold /\ jump' = NoJump
  /\ frames' = <<>> /\ value' = 0 /\ valid' = FALSE
  /\ out' = <<>> /\ found' = NoRange
  /\ UNCHANGED data

\* is_lf_trivial_with_psi: the range starts inside the run of its first c.
IsTrivial(next) ==
  IsEmpty(next) \/ (next.run.start <= range.start /\ range.start < next.run.end)

\* What a class keeps of a step, should it be the last special one.  RunData of
\* RCSAWithBWTRun and SrCSA: the position.
DataOfPosition(next) == [NoRun EXCEPT !.pos = next.run.start]

\* RunData of RCSAWithPsiRun: the symbol and the rank of the run.
DataOfCharRun(c, next) == [NoRun EXCEPT !.c = c, !.rnk = next.run.rnk]

\* RunDataExt of SrCSASlim and SrCSAWithPsiRun: everything.
DataOfRun(c, next) ==
  [pos |-> next.run.start, c |-> c, rnk |-> next.run.rnk, isStart |-> range.start # next.run.start]

RunData(c, next) ==
  CASE ix.layout = "position" -> DataOfPosition(next)
    [] ix.layout = "psi" /\ ix.kind = "r" -> DataOfCharRun(c, next)
    [] ix.layout # "position" /\ ix.kind # "r" -> DataOfRun(c, next)

\* Faulty: the step is counted after the decrement of the loop.
FaultyToeholdData(c, next) ==
  [step |-> IF left > 1 THEN left - 2 ELSE 0, run |-> RunData(c, next)]

ToeholdData(c, next) == [step |-> left - 1, run |-> RunData(c, next)]

\* One symbol of the pattern, from the last to the first.
SearchStep ==
  /\ stage = "search" /\ left > 0 /\ ~IsEmpty(range)
  /\ LET c    == Comp(text, pat[left])
         next == LFRange(range, c)
     IN /\ range' = [start |-> next.start, end |-> next.end]
        /\ IF op = "locate" /\ (toehold.step = 0 \/ ~IsTrivial(next))
           THEN toehold' = ToeholdData(c, next)
           ELSE UNCHANGED toehold
  /\ left' = left - 1
  /\ UNCHANGED <<data, stage, query, jump, frames, value, valid, out, found>>

\* The search is over; a Locate goes on if the range is not empty.
SearchEnd ==
  /\ stage = "search" /\ (left = 0 \/ IsEmpty(range))
  /\ found' = range
  /\ IF op = "count" \/ IsEmpty(range)
     THEN stage' = "answered" /\ UNCHANGED jump
     ELSE /\ stage' = IF ix.kind = "raw" THEN "phi" ELSE "toehold"
          /\ jump' = [NoJump EXCEPT !.run = toehold.run]
  /\ UNCHANGED <<data, query, left, range, toehold, frames, value, valid, out>>

\* ComputeSAValue asks the sub-sample; the r-csa has the sample of every run.
SampleAt(p) == IF ix.kind = "r" THEN SampleOfRun(p) ELSE GetSample(p)

\* constructPsiForRunData: SrCSA moves the position only.
PsiToPosition(p) == [p EXCEPT !.pos = PsiAt(@)]

\* Faulty: the start of the run is compared with the position before the step.
FaultyPsiToRun(p) ==
  LET q == PsiAt(p.pos)
  IN [pos |-> q, c |-> ix.bwt[q], rnk |-> RankInSymbol(RunAt(q)),
      isStart |-> p.pos = ix.run[RunAt(q)].start]

\* The others learn the run they come to from select.
PsiToRun(p) ==
  LET q == PsiAt(p.pos)
  IN [pos |-> q, c |-> ix.bwt[q], rnk |-> RankInSymbol(RunAt(q)),
      isStart |-> q = ix.run[RunAt(q)].start]

PsiForRunData(p) == IF ix.layout = "position" THEN PsiToPosition(p) ELSE PsiToRun(p)

\* ComputeSAValue: no sample here, so one psi step on.
ToeholdJump ==
  /\ stage = "toehold" /\ SampleAt(jump.run) = NoSample
  /\ jump' = [run |-> PsiForRunData(jump.run), jumps |-> jump.jumps + 1]
  /\ UNCHANGED <<data, stage, query, left, range, toehold, frames, value, valid, out, found>>

HasValidity == ix.kind \in {"vm", "va"}

\* ComputeToehold: the value of the first position of the range.
Toehold ==
  LET saValue == (SampleAt(jump.run) + 1 + ix.n - jump.jumps) % ix.n
  IN (saValue + ix.n - toehold.step - 1) % ix.n

\* update_range: the toehold's position is done.
UpdateRange(rng) == [rng EXCEPT !.start = @ + 1]

\* The call of the walk over the rest of the range, from the toehold's value.
StartPlain(k, rest) ==
  /\ value' = k /\ UNCHANGED valid
  /\ frames' = IF ix.kind = "r" \/ IsEmpty(rest) THEN <<>>
               ELSE <<[runs |-> SplitRange(rest), level |-> 1]>>

\* With validity the first value of the rest is computed ahead.
StartWithValidity(k, rest) ==
  IF IsEmpty(rest) THEN value' = k /\ UNCHANGED valid /\ frames' = <<>>
  ELSE /\ value' = Phi(k).value /\ valid' = Phi(k).valid
       /\ frames' = <<[runs |-> SplitRange(rest), level |-> 1]>>

\* ComputeAllValuesWithPhiForRange: report the toehold and start the walk.
ToeholdReport ==
  /\ stage = "toehold" /\ SampleAt(jump.run) # NoSample
  /\ out' = <<Toehold>>
  /\ range' = UpdateRange(range)
  /\ IF HasValidity THEN StartWithValidity(Toehold, range') ELSE StartPlain(Toehold, range')
  /\ stage' = "phi"
  /\ UNCHANGED <<data, query, left, toehold, jump, found>>

-----------------------------------------------------------------------------
(* The walk over the rest of the range.                                    *)

Report(v) == out' = Append(out, v)

\* CSARaw: the values are those of the suffix array itself.
RawStep ==
  /\ stage = "phi" /\ ix.kind = "raw" /\ ~IsEmpty(range)
  /\ Report(sa[range.start])
  /\ range' = [range EXCEPT !.start = @ + 1]
  /\ UNCHANGED <<data, stage, query, left, toehold, jump, frames, value, valid, found>>

\* The r-csa: one phi per position.
PhiStep ==
  /\ stage = "phi" /\ ix.kind = "r" /\ ~IsEmpty(range)
  /\ value' = PhiSimple(value)
  /\ Report(value')
  /\ range' = [range EXCEPT !.start = @ + 1]
  /\ UNCHANGED <<data, stage, query, left, toehold, jump, frames, valid, found>>

(***************************************************************************)
(* The pending calls.  A frame holds the runs a loop over compute has not  *)
(* finished, the first one in progress, and the level they are visited at. *)
(***************************************************************************)
Pending == stage = "phi" /\ frames # <<>>
Top == Last(frames)
Run == Head(Top.runs)
AtLimit == ix.rate < Top.level

\* The frames once the first run of the top frame is visited.
PopRun ==
  IF Len(Top.runs) = 1 THEN Front(frames)
  ELSE [frames EXCEPT ![Len(frames)].runs = Tail(@)]

\* update_run: the run loses its first position, and with it its head.
Shrunk(run) == [run EXCEPT !.start = @ + 1, !.isStart = FALSE]

ShrinkRun ==
  IF IsEmpty(Shrunk(Run)) THEN PopRun
  ELSE [frames EXCEPT ![Len(frames)].runs[1] = Shrunk(@)]

\* The loop over split_run starts: what is left of the run is followed one psi
\* step on, if anything is.
Follow(run) ==
  IF IsEmpty(run) THEN PopRun
  ELSE Append(PopRun, [level |-> Top.level + 1, runs |-> SplitRun(run)])

RunSample == GetSample([pos |-> Run.start, c |-> Run.c, rnk |-> Run.rnk, isStart |-> Run.isStart])

\* A sample found at a level is a value as many psi steps before it.
ValueOfSample == (RunSample + 1 + ix.n - Top.level + 1) % ix.n

\* SrCSA: the head of the run is sampled; the rest is followed without asking
\* for a sample again.
TakeSample ==
  /\ Pending /\ ~HasValidity /\ ~AtLimit /\ RunSample # NoSample
  /\ value' = ValueOfSample
  /\ Report(value')
  /\ frames' = Follow(Shrunk(Run))
  /\ UNCHANGED <<data, stage, query, left, range, toehold, jump, valid, found>>

\* SrCSA: the limit of the psi steps is reached, so phi is right.
TakePhi ==
  /\ Pending /\ ~HasValidity /\ AtLimit
  /\ value' = PhiSimple(value)
  /\ Report(value')
  /\ frames' = ShrinkRun
  /\ UNCHANGED <<data, stage, query, left, range, toehold, jump, valid, found>>

\* With validity: the value is trusted (or the limit is reached), so report it and
\* let phi compute the next one.
ReportTrusted ==
  /\ Pending /\ HasValidity /\ (valid \/ AtLimit)
  /\ Report(value)
  /\ frames' = ShrinkRun
  /\ value' = Phi(value).value /\ valid' = Phi(value).valid
  /\ UNCHANGED <<data, stage, query, left, range, toehold, jump, found>>

\* The value is not trusted but the head of the run is sampled.
UseSample ==
  /\ Pending /\ HasValidity /\ ~valid /\ ~AtLimit /\ RunSample # NoSample
  /\ value' = ValueOfSample
  /\ valid' = TRUE
  /\ UNCHANGED <<data, stage, query, left, range, toehold, jump, frames, out, found>>

\* Neither: follow the run.
Descend ==
  /\ Pending /\ ~AtLimit /\ RunSample = NoSample
  /\ HasValidity => ~valid
  /\ frames' = Follow(Run)
  /\ UNCHANGED <<data, stage, query, left, range, toehold, jump, value, valid, out, found>>

\* Every pending call has returned.
Answer ==
  /\ stage = "phi" /\ frames = <<>> /\ (ix.kind \in {"raw", "r"} => IsEmpty(range))
  /\ stage' = "answered"
  /\ UNCHANGED <<data, query, left, range, toehold, jump, frames, value, valid, out, found>>

Step ==
  \/ SearchStep \/ SearchEnd \/ ToeholdJump \/ ToeholdReport
  \/ RawStep \/ PhiStep \/ TakeSample \/ TakePhi \/ ReportTrusted \/ UseSample \/ Descend
  \/ Answer

Next == Query \/ Step

-----------------------------------------------------------------------------
(* Properties.                                                             *)

\* The values are reported from the first position of the range to the last: the
\* toehold, each sample and each phi value is the entry of its position.
ReportsSuffixArray ==
  \A k \in DOMAIN out : out[k] = sa[found.start + k - 1]

\* The position whose value is reported next.
NextPosition == found.start + Len(out)

\* The runs of the pending calls are the images, after one psi step less than
\* their level, of exactly the positions not reported yet, and the run in progress
\* starts with the image of the next one.
PendingIsRest ==
  stage = "phi" /\ ix.kind \notin {"raw", "r"} =>
    /\ UNION {UNION {{(sa[q] + ix.n + 1 - frames[f].level) % ix.n :
                        q \in frames[f].runs[k].start .. (frames[f].runs[k].end - 1)} :
                     k \in DOMAIN frames[f].runs} :
              f \in DOMAIN frames}
         = {sa[p] : p \in NextPosition .. (found.end - 1)}
    /\ frames # <<>> => (sa[Run.start] + ix.n + 1 - Top.level) % ix.n = sa[NextPosition]

\* The toehold's search for a sampled head takes at most rate psi steps (one more
\* than the distance to a sample when the first range already starts at a head,
\* whose sample is not asked for), although ComputeSAValue has no bound.
ToeholdBounded == jump.jumps <= ix.rate

=============================================================================
