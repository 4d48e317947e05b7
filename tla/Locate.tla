-------------------------------- MODULE Locate --------------------------------
(***************************************************************************)
(* Queries on a loaded index of the BWT-based family: RIndex ("r", class   *)
(* in r_index.h), SrIndex ("sr"), SrIndexValidMark ("vm") and              *)
(* SrIndexValidArea ("va", classes in sr_index.h).                         *)
(*                                                                         *)
(* A Locate query runs the backward search of RIndexBase (index_base.h),   *)
(* computes the suffix-array value of the last position of the range (the  *)
(* toehold, toehold.h and tools.h), reports it, and walks the rest of the  *)
(* range from right to left with phi and the BWT runs (phi.h).  The        *)
(* recursion of phi.h is the stack "frames".                               *)
(***************************************************************************)
EXTENDS IndexData, SequencesExt

CONSTANT MaxPattern   \* Bound on the length of a pattern

ASSUME PatternAssumption == MaxPattern \in Nat

VARIABLES
  stage,    \* where the query is: "off" (no index), "ready", "search",
            \* "toehold", "phi" or "answered"
  op,       \* "locate" or "count"
  pat,      \* the pattern
  left,     \* symbols of the pattern not searched yet; the code's i is left - 1
  range,    \* the current range of the suffix array
  toehold,  \* toehold_data: the last special backward-search step
  jump,     \* the RunDataExt and n_jumps of ComputeSAValue
  frames,   \* the calls of computeForRuns and compute that are pending
  value,    \* t_prev_value / t_value
  valid,    \* t_validity
  out,      \* the values reported
  found     \* the range the backward search ended with

query == <<op, pat>>
vars == <<data, stage, query, left, range, toehold, jump, frames, value, valid, out, found>>

-----------------------------------------------------------------------------
(* The structures of the index. *)

\* RLEString::rank with a report: also the c-runs that start no later than pos,
\* and whether the run at pos is one of them.
RankReport(c, pos) ==
  [value |-> Rank(c, pos),
   run   |-> Cardinality({k \in DOMAIN ix.run : ix.run[k].c = c /\ ix.run[k].start <= pos}),
   cover |-> ix.bwt[pos] = c]

\* RLEString::selectOnRuns: the index of the rnk-th run of symbol c.
SelectOnRuns(rnk, c) ==
  CHOOSE k \in DOMAIN ix.run :
    /\ ix.run[k].c = c
    /\ Cardinality({m \in 0..k : ix.run[m].c = c}) = rnk

\* Faulty: the last position of the range is not counted when it is covered.
FaultyLFRange(rng, c) ==
  LET before == RankReport(c, rng.start)
      until  == RankReport(c, rng.end - 1)
  IN [start |-> ix.C[c] + before.value, end |-> ix.C[c] + until.value,
      run |-> until.run, cover |-> until.cover]

\* The LF step of constructLF on a range and a symbol.
LFRange(rng, c) ==
  LET before == RankReport(c, rng.start)
      until  == RankReport(c, rng.end - 1)
  IN [start |-> ix.C[c] + before.value,
      end   |-> ix.C[c] + until.value + (IF until.cover THEN 1 ELSE 0),
      run   |-> until.run,
      cover |-> until.cover]

NoSample == -1

\* constructGetSample: the text position sampled for the tail of a run.
GetSample(run) ==
  IF run \in ix.sampled
  THEN ix.samples[Cardinality({k \in ix.sampled : k < run})]
  ELSE NoSample

\* Faulty: a mark is its own predecessor.
FaultyPredecessor(v) ==
  LET ones == Size(ix.marks)
  IN (Cardinality({o \in DOMAIN ix.marks : ix.marks[o] <= v}) + ones - 1) % ones

\* CircularPredecessor over the marks: the last mark strictly before v, or the
\* last mark of all.
Predecessor(v) ==
  LET ones == Size(ix.marks)
  IN (Cardinality({o \in DOMAIN ix.marks : ix.marks[o] < v}) + ones - 1) % ones

\* The bit of a mark among VALID_MARKS.
MarkIsValid(o) == o \notin ix.invalid

\* constructGetMarkToSampleIdx: RIndex and SrIndex take every mark for valid.
InitialValidity(o) == ix.kind \in {"r", "sr"} \/ MarkIsValid(o)

\* Faulty: an untrusted mark with an area is trusted at any distance.
FaultyInArea(o, delta) == TRUE

\* SampleValidator: an untrusted mark is good for the distances below its area.
InArea(o, delta) == delta < ix.area[Cardinality({x \in ix.invalid : x < o})]

\* The validators: SampleValidatorDefault keeps the initial validity.
Validate(o, delta) == InitialValidity(o) \/ (ix.kind = "va" /\ InArea(o, delta))

\* GetSampleForPhi: the sample of a mark and its validity.
SampleForPhi(o, delta) ==
  [sample |-> ix.samples[ix.markToSample[o]], valid |-> Validate(o, delta)]

\* PhiBackward: the suffix-array value before v, and whether it is trusted.
Phi(v) ==
  LET o     == Predecessor(v)
      mark  == ix.marks[o]
      delta == IF mark < v THEN v - mark ELSE v + 1
      s     == SampleForPhi(o, delta)
  IN [value |-> (s.sample + delta) % ix.n, valid |-> s.valid]

\* Faulty: the last run keeps its own end.
FaultySplit(first, last) ==
  LET a == RunAt(first)
      b == RunAt(last - 1)
  IN [k \in 1..(b - a + 1) |->
        [start |-> IF k = 1 THEN first ELSE ix.run[a + k - 1].start,
         end   |-> ix.run[a + k - 1].end,
         rnk   |-> a + k - 1,
         isEnd |-> ix.run[a + k - 1].end <= last]]

\* constructSplitInBWTRuns: the BWT runs of [first, last), cut to it.
Split(first, last) ==
  LET a == RunAt(first)
      b == RunAt(last - 1)
  IN [k \in 1..(b - a + 1) |->
        [start |-> IF k = 1 THEN first ELSE ix.run[a + k - 1].start,
         end   |-> IF a + k - 1 = b THEN last ELSE ix.run[a + k - 1].end,
         rnk   |-> a + k - 1,
         isEnd |-> ix.run[a + k - 1].end <= last]]

\* constructLFForPhi: where the run goes with one LF step.
LFRun(run) ==
  LET c == ix.run[run.rnk].c
  IN [start |-> ix.C[c] + Rank(c, run.start), end |-> ix.C[c] + Rank(c, run.end),
      rnk |-> 0, isEnd |-> FALSE]

Sampled(run) == IF run.isEnd THEN GetSample(run.rnk) ELSE NoSample

\* get_sa_value_for_run_data of RIndex: every run has its sample.
SampleOfRun(run) == ix.samples[run.rnk]

\* What the toehold is computed from.
SampleAt(run) == IF ix.kind = "r" THEN SampleOfRun(run) ELSE Sampled(run)

-----------------------------------------------------------------------------
(* The query and its backward search. *)

NoToehold == [step |-> 0, c |-> 0, rnk |-> 0, next |-> 0]
NoJump == [rnk |-> 0, isEnd |-> FALSE, next |-> 0, jumps |-> 0]
NoRange == [start |-> 0, end |-> 0]
IsEmpty(rng) == ~(rng.start < rng.end)

Init ==
  /\ stage = "off"
  /\ op = "count" /\ pat = <<>> /\ left = 0
  /\ range = NoRange /\ toehold = NoToehold /\ jump = NoJump
  /\ frames = <<>> /\ value = 0 /\ valid = FALSE
  /\ out = <<>> /\ found = NoRange

\* Locate(pattern) or Count(pattern) is called.
Query ==
  /\ stage \in {"ready", "answered"}
  /\ op' \in {"locate", "count"}
  /\ pat' \in Patterns(text, MaxPattern)
  /\ left' = Len(pat')
  /\ range' = [start |-> 0, end |-> ix.n]
  /\ toehold' = NoToehold
  /\ stage' = "search"
  /\ jump' = NoJump /\ frames' = <<>> /\ value' = 0 /\ valid' = FALSE
  /\ out' = <<>> /\ found' = NoRange
  /\ UNCHANGED data

\* is_lf_trivial: the end of the range goes to the end of the next range.
IsTrivial(next) == ~(next.start < next.end) \/ next.cover

\* Faulty: the step is counted after the decrement of the loop.
FaultyToeholdData(c, next) ==
  [step |-> IF left > 1 THEN left - 2 ELSE 0, c |-> c, rnk |-> next.run, next |-> next.end - 1]

\* constructCreateDataBackwardSearchStep: what the toehold is computed from if
\* this step turns out to be the last special one.
ToeholdData(c, next) ==
  [step |-> left - 1, c |-> c, rnk |-> next.run, next |-> next.end - 1]

\* One symbol of the pattern, from the last to the first.
SearchStep ==
  /\ stage = "search" /\ left > 0 /\ ~IsEmpty(range)
  /\ LET c    == Comp(text, pat[left])
         next == LFRange(range, c)
     IN /\ range' = [start |-> next.start, end |-> next.end]
        /\ IF op = "locate" /\ (toehold.step = 0 \/ ~IsTrivial(next))
           THEN toehold' = ToeholdData(c, next)
           ELSE UNCHANGED toehold
  /\ left' = left - 1
  /\ UNCHANGED <<data, stage, query, jump, frames, value, valid, out, found>>

\* Faulty: a search whose range is empty before the first symbol goes on.
FaultySearchEnd ==
  /\ stage = "search" /\ left = 0
  /\ found' = range
  /\ IF op = "count" \/ IsEmpty(range)
     THEN stage' = "answered" /\ UNCHANGED jump
     ELSE /\ stage' = "toehold"
          /\ jump' = [rnk |-> SelectOnRuns(toehold.rnk, toehold.c), isEnd |-> TRUE,
                      next |-> toehold.next, jumps |-> 0]
  /\ UNCHANGED <<data, query, left, range, toehold, frames, value, valid, out>>

\* The search is over: Count reports the range, Locate goes on if it is not
\* empty with the run the toehold data name.
SearchEnd ==
  /\ stage = "search" /\ (left = 0 \/ IsEmpty(range))
  /\ found' = range
  /\ IF op = "count" \/ IsEmpty(range)
     THEN stage' = "answered" /\ UNCHANGED jump
     ELSE /\ stage' = "toehold"
          /\ jump' = [rnk |-> SelectOnRuns(toehold.rnk, toehold.c), isEnd |-> TRUE,
                      next |-> toehold.next, jumps |-> 0]
  /\ UNCHANGED <<data, query, left, range, toehold, frames, value, valid, out>>

\* Faulty: the end of the run is not recognised after a jump.
FaultyToeholdJump ==
  /\ stage = "toehold" /\ SampleAt(jump) = NoSample
  /\ LET k == RunAt(jump.next)
     IN jump' = [rnk |-> k, isEnd |-> FALSE,
                 next |-> ix.C[ix.run[k].c] + Rank(ix.run[k].c, jump.next),
                 jumps |-> jump.jumps + 1]
  /\ UNCHANGED <<data, stage, query, left, range, toehold, frames, value, valid, out, found>>

\* ComputeSAValue: no sample at the current position, so one LF step back.
ToeholdJump ==
  /\ stage = "toehold" /\ SampleAt(jump) = NoSample
  /\ LET k == RunAt(jump.next)
     IN jump' = [rnk |-> k, isEnd |-> jump.next = ix.run[k].end - 1,
                 next |-> ix.C[ix.run[k].c] + Rank(ix.run[k].c, jump.next),
                 jumps |-> jump.jumps + 1]
  /\ UNCHANGED <<data, stage, query, left, range, toehold, frames, value, valid, out, found>>

HasValidity == ix.kind \in {"vm", "va"}

\* ComputeToehold: the value of the last position of the range.
Toehold ==
  LET saValue == (SampleAt(jump) + 1 + ix.n + jump.jumps) % ix.n
  IN (saValue + ix.n - toehold.step - 1) % ix.n

\* update_range: the toehold's position is done.
UpdateRange(rng) == [rng EXCEPT !.end = @ - 1]

\* The call of the walk over the rest of the range, from the toehold's value.
StartPlain(k, rest) ==
  /\ value' = k /\ UNCHANGED valid
  /\ frames' = IF ix.kind = "r" \/ IsEmpty(rest) THEN <<>>
               ELSE <<[runs |-> Split(rest.start, rest.end), level |-> 0]>>

\* With validity the first value of the rest is computed ahead.
StartWithValidity(k, rest) ==
  IF IsEmpty(rest) THEN value' = k /\ UNCHANGED valid /\ frames' = <<>>
  ELSE /\ value' = Phi(k).value /\ valid' = Phi(k).valid
       /\ frames' = <<[runs |-> Split(rest.start, rest.end), level |-> 0]>>

\* ComputeAllValuesWithPhiForRange: report the toehold and start the walk.
ToeholdReport ==
  /\ stage = "toehold" /\ SampleAt(jump) # NoSample
  /\ out' = <<Toehold>>
  /\ range' = UpdateRange(range)
  /\ IF HasValidity THEN StartWithValidity(Toehold, range') ELSE StartPlain(Toehold, range')
  /\ stage' = "phi"
  /\ UNCHANGED <<data, query, left, toehold, jump, found>>

-----------------------------------------------------------------------------
(* The walk over the rest of the range. *)

Report(v) == out' = Append(out, v)

\* RIndex: the plain loop over the range, one phi per position.
PhiStep ==
  /\ stage = "phi" /\ ix.kind = "r" /\ ~IsEmpty(range)
  /\ value' = Phi(value).value
  /\ Report(value')
  /\ range' = [range EXCEPT !.start = @ + 1]
  /\ UNCHANGED <<data, stage, query, left, toehold, jump, frames, valid, found>>

(***************************************************************************)
(* The pending calls.  A frame is one call: its level (LF steps taken) and *)
(* the runs it has still to visit, the last one first.  A frame at level   *)
(* rate or more is the call of compute that only uses phi.                 *)
(***************************************************************************)
Pending == stage = "phi" /\ frames # <<>>
Top == Last(frames)
Run == Last(Top.runs)

\* Faulty: the limit is thought to be one level higher.
FaultyAtLimit == ix.rate <= Top.level + 1

AtLimit == ix.rate <= Top.level

\* Leave the current run: a frame whose runs are all visited has returned.
PopRun ==
  IF Len(Top.runs) = 1 THEN Front(frames)
  ELSE [frames EXCEPT ![Len(frames)].runs = Front(@)]

\* update_run: the run loses its last position, and its tail with it.
UpdateRun(run) == [run EXCEPT !.end = @ - 1, !.isEnd = FALSE]

\* Faulty: an empty run is still visited.
FaultyShrinkRun == [frames EXCEPT ![Len(frames)].runs[Len(Top.runs)] = UpdateRun(@)]

\* The last position of the current run is done; an empty run is left.
ShrinkRun ==
  IF Run.end - 1 = Run.start THEN PopRun
  ELSE [frames EXCEPT ![Len(frames)].runs[Len(Top.runs)] = UpdateRun(@)]

\* Faulty: the LF steps taken to reach the sample are not added.
FaultyTakeSample ==
  /\ Pending /\ ~HasValidity /\ ~AtLimit /\ Sampled(Run) # NoSample
  /\ value' = (Sampled(Run) + 1) % ix.n
  /\ Report(value')
  /\ frames' = ShrinkRun
  /\ UNCHANGED <<data, stage, query, left, range, toehold, jump, valid, found>>

\* SrIndex: the tail of the run is sampled, so the sample gives its value.
TakeSample ==
  /\ Pending /\ ~HasValidity /\ ~AtLimit /\ Sampled(Run) # NoSample
  /\ value' = (Sampled(Run) + 1 + Top.level) % ix.n
  /\ Report(value')
  /\ frames' = ShrinkRun
  /\ UNCHANGED <<data, stage, query, left, range, toehold, jump, valid, found>>

\* SrIndex: no sample was found in fewer than rate levels, so phi is right.
TakePhi ==
  /\ Pending /\ ~HasValidity /\ AtLimit
  /\ value' = Phi(value).value
  /\ Report(value')
  /\ frames' = ShrinkRun
  /\ UNCHANGED <<data, stage, query, left, range, toehold, jump, valid, found>>

\* SrIndexValidMark, SrIndexValidArea: the value is trusted (or the limit is
\* reached), so report it and let phi compute the next one.
ReportTrusted ==
  /\ Pending /\ HasValidity /\ (valid \/ AtLimit)
  /\ Report(value)
  /\ frames' = ShrinkRun
  /\ value' = Phi(value).value /\ valid' = Phi(value).valid
  /\ UNCHANGED <<data, stage, query, left, range, toehold, jump, found>>

\* The value is not trusted but the tail of the run is sampled.
UseSample ==
  /\ Pending /\ HasValidity /\ ~valid /\ ~AtLimit /\ Sampled(Run) # NoSample
  /\ value' = (Sampled(Run) + 1 + Top.level) % ix.n
  /\ valid' = TRUE
  /\ UNCHANGED <<data, stage, query, left, range, toehold, jump, frames, out, found>>

\* Neither: follow the run one LF step back, split in the runs it falls into
\* unless the limit is reached there.
Descend ==
  /\ Pending /\ ~AtLimit /\ Sampled(Run) = NoSample
  /\ HasValidity => ~valid
  /\ LET next  == LFRun(Run)
         level == Top.level + 1
     IN frames' = Append(PopRun,
                    [level |-> level,
                     runs  |-> IF ix.rate <= level THEN <<next>>
                               ELSE Split(next.start, next.end)])
  /\ UNCHANGED <<data, stage, query, left, range, toehold, jump, value, valid, out, found>>

\* Every pending call has returned.
Answer ==
  /\ stage = "phi" /\ frames = <<>> /\ (ix.kind = "r" => IsEmpty(range))
  /\ stage' = "answered"
  /\ UNCHANGED <<data, query, left, range, toehold, jump, frames, value, valid, out, found>>

Step ==
  \/ SearchStep \/ SearchEnd \/ ToeholdJump \/ ToeholdReport
  \/ PhiStep \/ TakeSample \/ TakePhi \/ ReportTrusted \/ UseSample \/ Descend
  \/ Answer

Next == Query \/ Step

-----------------------------------------------------------------------------
(* Properties. *)

\* Every register of the query has its type; no pending run is empty.
TypeOK ==
  /\ stage \in {"off", "ready", "search", "toehold", "phi", "answered"}
  /\ op \in {"locate", "count"}
  /\ left \in 0..Len(pat)
  /\ {range, found} \subseteq [start : Nat, end : Nat]
  /\ toehold \in [step : Nat, c : Nat, rnk : Nat, next : Nat]
  /\ jump \in [rnk : Nat, isEnd : BOOLEAN, next : Nat, jumps : Nat]
  /\ \A f \in DOMAIN frames :
       /\ DOMAIN frames[f] = {"level", "runs"}
       /\ frames[f].level \in Nat
       /\ \A k \in DOMAIN frames[f].runs :
            /\ frames[f].runs[k] \in [start : Nat, end : Nat, rnk : Nat, isEnd : BOOLEAN]
            /\ ~IsEmpty(frames[f].runs[k])
  /\ value \in Nat /\ valid \in BOOLEAN
  /\ \A k \in DOMAIN out : out[k] \in Nat

\* The range is exactly the suffixes that start with the symbols searched so
\* far, after every step of the loop in RIndexBase.
RangeIsSuffix ==
  stage = "search" =>
    LET occ == Occurrences(text, SubSeq(pat, left + 1, Len(pat)))
    IN \A p \in DOMAIN sa : (range.start <= p /\ p < range.end) <=> sa[p] \in occ

TailOf(k) == ix.run[k].end - 1

\* The suffix at position p starts l symbols after the tail of run k.
TailBehind(k, l, p) == (sa[TailOf(k)] + l) % ix.n = sa[p]

\* The samples are those of the tails they are kept for, and from any tail fewer
\* than rate LF steps lead to a sampled one.
SamplesAreRight ==
  /\ ix.sampled \subseteq DOMAIN ix.run
  /\ \A k \in ix.sampled : GetSample(k) = TextPos(sa, TailOf(k))
  /\ ix.kind = "r" => \A k \in DOMAIN ix.run : ix.samples[k] = TextPos(sa, TailOf(k))
  /\ ix.kind # "r" =>
       /\ ix.rate \in Nat \ {0}
       /\ \A k \in DOMAIN ix.run : \E m \in ix.sampled, l \in 0..(ix.rate - 1) :
            TailBehind(m, l, TailOf(k))

\* phi is right wherever its result is trusted: for every entry of the suffix
\* array but the first it gives the entry before.  An SrIndex keeps no validity.
PhiRightWhenTrusted ==
  ix.kind # "sr" =>
    \A p \in DOMAIN sa \ {0} : Phi(sa[p]).valid => Phi(sa[p]).value = sa[p - 1]

\* phi is right at a suffix that fewer than rate LF steps do not lead to a
\* sampled tail: what the level limit of the recursion stands on.
PhiRightPastSamples ==
  ix.kind # "r" =>
    \A p \in DOMAIN sa \ {0} :
      (\A k \in ix.sampled, l \in 0..(ix.rate - 1) : ~TailBehind(k, l, p - 1))
        => Phi(sa[p]).value = sa[p - 1]

\* What the queries take for granted of the index they are asked of.
IndexIsRight ==
  /\ ix.kind \in {"r", "sr", "vm", "va"}
  /\ TextIsIndexed /\ RunsPartition /\ LFIsRight /\ SamplesAreRight
  /\ \A v \in DOMAIN sa : Phi(v) \in [value : DOMAIN sa, valid : BOOLEAN]
  /\ PhiRightWhenTrusted /\ PhiRightPastSamples

\* The values are reported from the last position of the range to the first:
\* the toehold, each sample and each phi value is the entry of its position.
ReportsSuffixArray ==
  \A k \in DOMAIN out : out[k] = sa[found.end - k]

\* The position whose value is reported next.
NextPosition == found.end - 1 - Len(out)

\* The runs of the pending calls are the images, after as many LF steps as
\* their level, of exactly the positions not reported yet, and the run on top
\* ends with the image of the next one.
PendingIsRest ==
  stage = "phi" /\ ix.kind # "r" =>
    /\ UNION {UNION {{(sa[q] + frames[f].level) % ix.n :
                        q \in frames[f].runs[k].start .. (frames[f].runs[k].end - 1)} :
                     k \in DOMAIN frames[f].runs} :
              f \in DOMAIN frames}
         = {sa[p] : p \in found.start .. NextPosition}
    /\ frames # <<>> => (sa[Run.end - 1] + Top.level) % ix.n = sa[NextPosition]

\* A value the index trusts, by its validity flag or because rate levels were
\* descended without a sample, is the suffix-array value it stands for.
TrustIsRight ==
  Pending /\ HasValidity /\ (valid \/ AtLimit) => value = sa[NextPosition]

\* The toehold's search for a sampled run tail takes fewer LF steps than the
\* rate, although ComputeSAValue's loop has no bound of its own.
ToeholdBounded == jump.jumps > 0 => jump.jumps < ix.rate

\* Every query is answered.
Answers == stage = "search" ~> stage = "answered"

=============================================================================
